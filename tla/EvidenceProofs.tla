--------------------------- MODULE EvidenceProofs ---------------------------
(***************************************************************************)
(* What holds of the evidence of an application for every package, every   *)
(* archive, all logs and all limits.                                       *)
(*                                                                         *)
(* Of an Android package: the reader of a log always stands between two    *)
(* lines, and what it has passed without a mark has none, however the log  *)
(* came in chunks; the counts are those of the file that was counted; and  *)
(* as the file is replaced once, what is there and equals the bound one    *)
(* at a comparison is all that anybody has seen (ExtractionInv).           *)
(*                                                                         *)
(* Of the sources: after every statement the topmost binding of a variable *)
(* is that of the declaration it stands under, and tainted as in the       *)
(* execution of all blocks; what the tree takes for tainted is what some   *)
(* execution holds, because the blocks that have ended may be left out or  *)
(* not without effect on each other; and a round of summaries that adds    *)
(* nothing has found all that is carried (SourceInv).                      *)
(*                                                                         *)
(* Of an iOS archive: what is kept of a list of names is all of it or as   *)
(* many as the limit allows, a joined list has the names of its parts, so  *)
(* the parse of a thin and of a universal file says what their slices      *)
(* hold; what an audit collects is declared, and all that is declared      *)
(* unless it says otherwise or a limit is passed; and, until something     *)
(* goes wrong, there is one row for each framework met (IosInv).           *)
(***************************************************************************)
EXTENDS Evidence, FiniteSetTheorems, SequenceTheorems, WellFoundedInduction, TLAPS

-----------------------------------------------------------------------------
(***************************************************************************)
(* Greatest elements and parts of sequences.                               *)
(***************************************************************************)
\* A set of numbers that is not empty has a least one.
LEMMA Least ==
    ASSUME NEW T \in SUBSET Nat, T # {}
    PROVE  \E n \in T : \A m \in T : n <= m
<1>1. IsWellFoundedOn(OpToRel(<, Nat), Nat)
  BY NatLessThanWellFounded
<1>2. PICK n \in T : \A m \in T : <<m, n>> \notin OpToRel(<, Nat)
  BY <1>1, WFMin
<1>3. \A m \in T : ~(m < n)
  BY <1>2 DEF OpToRel
<1> QED BY <1>3

\* A bounded set of numbers that is not empty has a greatest one.
LEMMA Greatest ==
    ASSUME NEW T \in SUBSET Nat, T # {}, NEW n \in Nat, \A m \in T : m <= n
    PROVE  Max(T) \in T /\ \A m \in T : m <= Max(T)
<1> DEFINE R == {n - m : m \in T}
<1>0. \A m \in T : n - m \in Nat
  OBVIOUS
<1>1. R \in SUBSET Nat /\ R # {}
  BY <1>0
<1>2. PICK r \in R : \A q \in R : r <= q
  BY <1>1, Least
<1>3. PICK g \in T : r = n - g
  OBVIOUS
<1>4. \A m \in T : m <= g
  BY <1>2, <1>3
<1>5. \E x \in T : \A y \in T : x >= y
  BY <1>4
<1> QED BY <1>5 DEF Max

LEMMA IntervalFinite ==
    ASSUME NEW n \in Nat
    PROVE  IsFiniteSet(1 .. n) /\ Cardinality(1 .. n) = n
<1>1. /\ IsFiniteSet(1 .. n)
      /\ Cardinality(1 .. n) = IF 1 > n THEN 0 ELSE n - 1 + 1
  BY FS_Interval
<1> QED BY <1>1

\* What is classified is what was read, up to the limit.
LEMMA ScannedIs ==
    ASSUME NEW read \in Nat
    PROVE  /\ Scanned(read) \in Nat /\ Scanned(read) <= read
           /\ read <= MaxScan => Scanned(read) = read
           /\ \A more \in Nat : read <= more => Scanned(read) <= Scanned(more)
<1>1. MaxScan \in Nat
  BY ExtractionInputs
<1>2. ASSUME NEW r \in Nat PROVE Scanned(r) = IF r <= MaxScan THEN r ELSE MaxScan
  BY <1>1 DEF Scanned, Min
<1> QED BY <1>1, <1>2

\* The part of a log between two positions.
LEMMA PartIs ==
    ASSUME NEW log \in Seq(STRING), NEW i \in Nat \ {0}, NEW j \in Nat, i <= j, j <= Len(log)
    PROVE  /\ SubSeq(log, i, j) \in Seq(STRING) /\ Len(SubSeq(log, i, j)) = j - i + 1
           /\ \A k \in 1 .. j - i + 1 : SubSeq(log, i, j)[k] = log[i + k - 1]
<1>1. Len(log) \in Nat
  BY LenProperties
<1>2. \A k \in i .. j : k \in 1 .. Len(log)
  BY <1>1
<1>3. \A k \in i .. j : log[k] \in STRING
  BY <1>2, ElementOfSeq
<1> QED BY <1>1, <1>2, <1>3, SubSeqProperties

\* Whether a part is marked, told by the positions of the log.
LEMMA MarkedIs ==
    ASSUME NEW log \in Seq(STRING), NEW i \in Nat \ {0}, NEW j \in Nat, i <= j, j <= Len(log)
    PROVE  Marked(SubSeq(log, i, j)) <=>
             (log[i] = "e" \/ \E k \in i .. j - 1 : log[k] = "h" /\ log[k + 1] = "t")
<1> DEFINE part == SubSeq(log, i, j)
<1>1. Len(part) = j - i + 1 /\ \A k \in 1 .. j - i + 1 : part[k] = log[i + k - 1]
  BY PartIs
<1>2. part # <<>>
  BY <1>1
<1>3. part[1] = log[i]
  BY <1>1
<1> HIDE DEF part
<1>4. ASSUME NEW k \in 1 .. Len(part) - 1, part[k] = "h", part[k + 1] = "t"
      PROVE  \E l \in i .. j - 1 : log[l] = "h" /\ log[l + 1] = "t"
  <2>1. k \in 1 .. j - i + 1 /\ k + 1 \in 1 .. j - i + 1 /\ i + (k + 1) - 1 = (i + k - 1) + 1
    BY <1>1
  <2>2. log[i + k - 1] = "h" /\ log[(i + k - 1) + 1] = "t"
    BY <1>1, <1>4, <2>1
  <2>3. i + k - 1 \in i .. j - 1
    BY <1>1
  <2> QED BY <2>2, <2>3
<1>5. ASSUME NEW l \in i .. j - 1, log[l] = "h", log[l + 1] = "t"
      PROVE  \E k \in 1 .. Len(part) - 1 : part[k] = "h" /\ part[k + 1] = "t"
  <2>1. l - i + 1 \in 1 .. j - i + 1 /\ (l - i + 1) + 1 \in 1 .. j - i + 1
        /\ i + (l - i + 1) - 1 = l /\ i + ((l - i + 1) + 1) - 1 = l + 1
    OBVIOUS
  <2>2. part[l - i + 1] = "h" /\ part[(l - i + 1) + 1] = "t"
    BY <1>1, <1>5, <2>1
  <2>3. l - i + 1 \in 1 .. Len(part) - 1
    BY <1>1
  <2> QED BY <2>2, <2>3
<1>6. Marked(part) <=> part[1] = "e" \/ \E k \in 1 .. Len(part) - 1 : part[k] = "h" /\ part[k + 1] = "t"
  BY <1>2 DEF Marked
<1>7. Marked(part) <=> (log[i] = "e" \/ \E k \in i .. j - 1 : log[k] = "h" /\ log[k + 1] = "t")
  BY <1>3, <1>4, <1>5, <1>6
<1> QED BY <1>7 DEF part

-----------------------------------------------------------------------------
(***************************************************************************)
(* The lines of a log, within the limit, are never cut apart.              *)
(***************************************************************************)
Short(log, i, j) == IsLine(log, i, j) /\ j - i < MaxLine

\* No cut stands inside a line within the limit.
Apart(log, c) == \A i, j \in 1 .. Len(log) : Short(log, i, j) => ~(i <= c /\ c < j)

\* Where the lines are cut: after each line end, never inside a line within the
\* limit, at the end of the log; what is left is no longer than a line.
LEMMA CutsAre ==
    ASSUME NEW log \in Seq(STRING), NEW from \in Nat, NEW to \in Nat, from <= to, to <= Len(log),
           NEW final \in BOOLEAN
    PROVE  LET cuts == Cuts(log, from, to, final)
           IN /\ cuts \in SUBSET (from + 1 .. to)
              /\ \A i \in from + 1 .. to : log[i] = "n" => i \in cuts
              /\ final /\ from < to => to \in cuts
              /\ (final => to = Len(log)) => \A c \in cuts : Apart(log, c)
              /\ to - Max({from} \cup cuts) <= MaxLine
<1> DEFINE ends == {i \in from + 1 .. to : log[i] = "n"}
           last == Max({from} \cup ends)
           cuts == Cuts(log, from, to, final)
           Whole(i) == \E k \in 1 .. to : i = last + k * MaxLine
<1>1. MaxLine \in Nat \ {0} /\ Len(log) \in Nat
  BY ExtractionInputs, LenProperties
<1>2. last \in {from} \cup ends /\ \A m \in {from} \cup ends : m <= last
  <2>1. {from} \cup ends \in SUBSET Nat /\ {from} \cup ends # {} /\ \A m \in {from} \cup ends : m <= to
    OBVIOUS
  <2> QED BY <2>1, Greatest
<1>3. cuts = ends \cup {i \in last + 1 .. to : \/ i < to /\ Whole(i)
                                               \/ i = to /\ final}
  BY DEF Cuts
<1>4. last \in Nat /\ from <= last /\ last <= to
  BY <1>2
<1>5. ends \in SUBSET (from + 1 .. to)
  OBVIOUS
<1> HIDE DEF last, cuts, Whole
<1>6. cuts \in SUBSET (from + 1 .. to)
  BY <1>3, <1>4
<1>7. \A i \in from + 1 .. to : log[i] = "n" => i \in cuts
  BY <1>3
<1>8. ASSUME final, from < to PROVE to \in cuts
  <2>1. CASE last = to
    BY <1>2, <1>3, <1>8, <2>1
  <2>2. CASE last < to
    BY <1>3, <1>4, <1>8, <2>2
  <2> QED BY <1>4, <2>1, <2>2
<1>9. ASSUME final => to = Len(log), NEW c \in cuts,
             NEW i \in 1 .. Len(log), NEW j \in 1 .. Len(log), Short(log, i, j), i <= c, c < j
      PROVE  FALSE
  <2>1. \A k \in i .. j : log[k] # "n"
    BY <1>9 DEF Short, IsLine
  <2>2. c \in i .. j
    BY <1>1, <1>6, <1>9
  <2>3. c \notin ends
    BY <2>1, <2>2
  <2>4. c \in last + 1 .. to /\ ((c < to /\ Whole(c)) \/ (c = to /\ final))
    BY <1>3, <2>3
  <2>5. c < to
    BY <1>9, <2>4
  <2>6. PICK k \in 1 .. to : c = last + k * MaxLine
    BY <2>4, <2>5 DEF Whole
  <2>7. k * MaxLine >= MaxLine /\ k * MaxLine \in Int
    BY <1>1, SMT
  <2>8. last + MaxLine <= c
    BY <1>1, <1>4, <2>6, <2>7
  <2>9. i <= last + 1
    <3> SUFFICES ASSUME i > last + 1 PROVE FALSE
      BY <1>4
    <3>1. log[i - 1] = "n"
      BY <1>4, <1>9 DEF Short, IsLine
    <3>2. i - 1 \in from + 1 .. to
      BY <1>4, <1>6, <1>9
    <3>3. i - 1 <= last
      BY <1>2, <3>1, <3>2
    <3> QED BY <1>4, <3>3
  <2>10. j - i < MaxLine
    BY <1>9 DEF Short
  <2>11. j <= last + MaxLine
    BY <1>1, <1>4, <2>9, <2>10
  <2>12. c \in Int
    BY <1>6
  <2> QED BY <1>1, <1>4, <1>9, <2>8, <2>11, <2>12
<1>10. to - Max({from} \cup cuts) <= MaxLine
  <2> DEFINE end == Max({from} \cup cuts)
  <2>1. end \in {from} \cup cuts /\ \A m \in {from} \cup cuts : m <= end
    <3>1. {from} \cup cuts \in SUBSET Nat /\ {from} \cup cuts # {} /\ \A m \in {from} \cup cuts : m <= to
      BY <1>6
    <3> QED BY <3>1, Greatest
  <2> HIDE DEF end
  <2>2. end \in Nat /\ end <= to
    BY <1>6, <2>1
  <2> SUFFICES ASSUME to - end > MaxLine PROVE FALSE
    BY <1>1, <2>2 DEF end
  <2>3. last <= end
    BY <1>2, <1>3, <2>1
  <2>4. \E k \in 0 .. to : end = last + k * MaxLine
    <3>1. CASE end = last
      <4>1. 0 * MaxLine = 0 /\ 0 \in 0 .. to
        BY <1>1
      <4> QED BY <1>4, <3>1, <4>1
    <3>2. CASE end # last
      <4>1. end \in cuts \ ends
        BY <1>2, <1>4, <2>1, <2>2, <2>3, <3>2
      <4>2. end < to
        BY <1>1, <2>2
      <4> QED BY <1>3, <4>1, <4>2 DEF Whole
    <3> QED BY <3>1, <3>2
  <2>5. PICK k \in 0 .. to : end = last + k * MaxLine
    BY <2>4
  <2>6. (k + 1) * MaxLine = k * MaxLine + MaxLine /\ k * MaxLine \in Int /\ k <= k * MaxLine
    BY <1>1, SMT
  <2>7. end + MaxLine = last + (k + 1) * MaxLine
    BY <1>1, <1>4, <2>5, <2>6
  <2>8. end + MaxLine < to /\ end + MaxLine \in last + 1 .. to
    BY <1>1, <1>4, <2>2, <2>3
  <2>9. k + 1 \in 1 .. to
    BY <1>1, <1>4, <2>5, <2>6, <2>8
  <2>10. Whole(end + MaxLine)
    BY <2>7, <2>9 DEF Whole
  <2>11. end + MaxLine \in cuts
    BY <1>3, <2>8, <2>10
  <2> QED BY <1>1, <2>1, <2>2, <2>11
<1>11. (final => to = Len(log)) => \A c \in cuts : Apart(log, c)
  BY <1>9 DEF Apart
<1> QED BY <1>6, <1>7, <1>8, <1>10, <1>11 DEF cuts

\* The number of marked lines is a number.
LEMMA MarkedLinesCounted ==
    ASSUME NEW log, NEW from \in Nat, NEW to \in Nat, NEW cuts \in SUBSET (from + 1 .. to)
    PROVE  /\ MarkedLines(log, from, cuts) \in Nat
           /\ MarkedLines(log, from, cuts) = 0 => \A c \in cuts : ~Marked(LineTo(log, from, cuts, c))
<1> DEFINE marked == {c \in cuts : Marked(LineTo(log, from, cuts, c))}
<1>0. from + 1 \in Int /\ to \in Int
  OBVIOUS
<1>1. IsFiniteSet(from + 1 .. to) /\ marked \in SUBSET (from + 1 .. to)
  BY <1>0, FS_Interval
<1> HIDE DEF marked
<1>2. IsFiniteSet(marked)
  BY <1>1, FS_Subset
<1>3. Cardinality(marked) \in Nat /\ (Cardinality(marked) = 0 => marked = {})
  BY <1>2, FS_CardinalityType, FS_EmptySet
<1>4. MarkedLines(log, from, cuts) = Cardinality(marked)
  BY DEF MarkedLines, marked
<1> QED BY <1>3, <1>4 DEF marked

\* A line within the limit that ends between two cuts is classified whole: the
\* cut before it is where it begins, the next one where it, or its line end, ends.
LEMMA MarkCounted ==
    ASSUME NEW log \in Seq(STRING), NEW from \in Nat, NEW to \in Nat, from <= to, to <= Len(log),
           NEW final \in BOOLEAN, final => to = Len(log), Apart(log, from),
           NEW i \in 1 .. Len(log), NEW j \in 1 .. Len(log), i <= j, Short(log, i, j), from < j,
           j <= Max({from} \cup Cuts(log, from, to, final)),
           MarkedLines(log, from, Cuts(log, from, to, final)) = 0
    PROVE  ~Marked(SubSeq(log, i, j))
<1> DEFINE cuts == Cuts(log, from, to, final)
           later == {c \in cuts : j <= c}
           earlier == {from} \cup {c \in cuts : c < j}
<1>1. /\ cuts \in SUBSET (from + 1 .. to)
      /\ \A k \in from + 1 .. to : log[k] = "n" => k \in cuts
      /\ \A c \in cuts : Apart(log, c)
  BY CutsAre
<1>2. Len(log) \in Nat
  BY LenProperties
<1>3. \A c \in cuts : ~Marked(LineTo(log, from, cuts, c))
  BY <1>1, MarkedLinesCounted
<1>4. Max({from} \cup cuts) \in cuts
  <2>1. {from} \cup cuts \in SUBSET Nat /\ {from} \cup cuts # {} /\ \A m \in {from} \cup cuts : m <= to
    BY <1>1
  <2>2. Max({from} \cup cuts) \in {from} \cup cuts
    BY <2>1, Greatest
  <2> QED BY <2>2
<1> HIDE DEF cuts
<1>5. PICK b \in later : \A c \in later : b <= c
  <2>1. later \in SUBSET Nat /\ later # {}
    BY <1>1, <1>4 DEF cuts
  <2> QED BY <2>1, Least
<1>6. b \in cuts /\ j <= b /\ b <= to /\ b \in Nat
  BY <1>1, <1>5
<1>7. b = j \/ (b = j + 1 /\ log[b] = "n")
  <2>1. CASE j = Len(log)
    BY <1>2, <1>6, <2>1
  <2>2. CASE j # Len(log) /\ j + 1 <= to
    <3>1. log[j + 1] = "n"
      BY <1>2, <2>2 DEF Short, IsLine
    <3>2. j + 1 \in cuts
      BY <1>1, <2>2, <3>1
    <3>3. b <= j + 1
      BY <1>5, <3>2
    <3>4. b = j \/ b = j + 1
      BY <1>6, <3>3
    <3> QED BY <3>1, <3>4
  <2>3. CASE j # Len(log) /\ j + 1 > to
    BY <1>2, <1>6, <2>3
  <2> QED BY <2>1, <2>2, <2>3
<1>8. Max(earlier) \in earlier /\ \A m \in earlier : m <= Max(earlier)
  <2>1. earlier \in SUBSET Nat /\ earlier # {} /\ \A m \in earlier : m <= to
    <3>1. \A m \in earlier : m = from \/ m \in cuts
      OBVIOUS
    <3>2. \A m \in cuts : m \in Nat /\ m <= to
      BY <1>1
    <3>3. from \in earlier
      OBVIOUS
    <3> QED BY <3>1, <3>2, <3>3
  <2> QED BY <2>1, Greatest
<1>9. Max(earlier) = i - 1
  <2> DEFINE a == Max(earlier)
  <2>0. a = from \/ (a \in cuts /\ a < j)
    BY <1>8
  <2>2. \A m \in earlier : m <= a
    BY <1>8
  <2> HIDE DEF a
  <2>1. a \in Nat /\ a < j /\ Apart(log, a)
    <3>1. \A c \in cuts : c \in Nat /\ Apart(log, c)
      BY <1>1
    <3> QED BY <2>0, <3>1
  <2>3. a <= i - 1
    BY <2>1 DEF Apart
  <2>4. i - 1 <= a
    <3>1. CASE i = 1
      BY <2>1, <3>1
    <3>2. CASE i # 1 /\ i - 1 <= from
      BY <2>1, <2>2, <3>2
    <3>3. CASE i # 1 /\ i - 1 > from
      <4>1. log[i - 1] = "n"
        BY <3>3 DEF Short, IsLine
      <4>2. i - 1 \in from + 1 .. to
        BY <1>6, <3>3
      <4>3. i - 1 \in cuts
        BY <1>1, <4>1, <4>2
      <4>4. i - 1 \in earlier
        BY <4>3
      <4> QED BY <2>2, <4>4
    <3> QED BY <3>1, <3>2, <3>3
  <2>5. a = i - 1
    BY <2>1, <2>3, <2>4
  <2> QED BY <2>5 DEF a
<1>10. {from} \cup {c \in cuts : c < b} = earlier
  <2>1. \A c \in cuts : c < b <=> c < j
    BY <1>1, <1>5, <1>6
  <2> QED BY <2>1
<1>11. LineTo(log, from, cuts, b) = SubSeq(log, i, b)
  <2>1. LineTo(log, from, cuts, b) = SubSeq(log, Max(earlier) + 1, b)
    BY <1>10 DEF LineTo
  <2>2. Max(earlier) + 1 = i
    BY <1>9
  <2> QED BY <2>1, <2>2
<1>12. ~Marked(SubSeq(log, i, b))
  BY <1>3, <1>6, <1>11
<1>13. i \in Nat \ {0} /\ j \in Nat /\ i <= b /\ b <= Len(log) /\ j <= Len(log)
  BY <1>2, <1>6
<1>14. ~(log[i] = "e" \/ \E k \in i .. b - 1 : log[k] = "h" /\ log[k + 1] = "t")
  BY <1>6, <1>12, <1>13, MarkedIs
<1>15. \A k \in i .. j - 1 : k \in i .. b - 1
  BY <1>6
<1> QED BY <1>13, <1>14, <1>15, MarkedIs

-----------------------------------------------------------------------------
(***************************************************************************)
(* The inventory of a package tells the truth about its classes.           *)
(***************************************************************************)
\* As many classes as files where each file has one of its own.
LEMMA ListedFiles ==
    ASSUME NEW files \in Seq(Seq(STRING)), SmaliListed(files)
    PROVE  /\ IsFiniteSet(SmaliClasses(files)) /\ Cardinality(SmaliClasses(files)) = Len(files)
           /\ SmaliCount(files) = Len(files)
           /\ \A i \in DOMAIN files : files[i] = <<files[i][1]>>
<1>1. DOMAIN files = 1 .. Len(files) /\ Len(files) \in Nat /\ \A i \in 1 .. Len(files) : files[i] \in Seq(STRING)
  BY LenProperties, ElementOfSeq
<1>2. ASSUME NEW i \in DOMAIN files PROVE files[i] = <<files[i][1]>>
  <2>1. Len(files[i]) = 1 /\ files[i] \in Seq(STRING)
    BY <1>1 DEF SmaliListed
  <2> QED BY <2>1
<1> DEFINE first == [i \in DOMAIN files |-> files[i][1]]
<1>3. first \in Surjection(DOMAIN files, SmaliClasses(files))
  BY DEF Surjection, SmaliClasses
<1>4. first \in Injection(DOMAIN files, SmaliClasses(files))
  <2>1. first \in [DOMAIN files -> SmaliClasses(files)]
    BY DEF SmaliClasses
  <2>2. ASSUME NEW i \in DOMAIN files, NEW j \in DOMAIN files, first[i] = first[j] PROVE i = j
    <3>1. files[i][1] = files[j][1]
      BY <2>2
    <3>2. files[i] = files[j]
      BY <1>2, <3>1
    <3> QED BY <3>2 DEF SmaliListed, IsInjective
  <2> QED BY <2>1, <2>2 DEF Injection, IsInjective
<1> HIDE DEF first
<1>5. IsFiniteSet(DOMAIN files) /\ Cardinality(DOMAIN files) = Len(files)
  <2>1. DOMAIN files = 1 .. Len(files) /\ Len(files) \in Nat
    BY <1>1
  <2> QED BY <2>1, FS_Interval
<1>6. IsFiniteSet(SmaliClasses(files)) /\ Cardinality(SmaliClasses(files)) = Len(files)
  BY <1>3, <1>4, <1>5, FS_Surjection
<1>7. SmaliCount(files) = Len(files)
  <2>1. Regular(files) = DOMAIN files
    <3>1. \A i \in DOMAIN files : i <= MaxWalk
      BY <1>1, ExtractionInputs DEF SmaliListed, Capped
    <3>2. \A i \in DOMAIN files : files[i] # Link
      BY <1>1 DEF SmaliListed, Contains
    <3> QED BY <3>1, <3>2 DEF Regular
  <2> QED BY <1>5, <2>1 DEF SmaliCount, SmaliListed
<1> QED BY <1>2, <1>6, <1>7

\* As many classes as declared where all differ.
LEMMA ListedClasses ==
    ASSUME NEW dex \in Member("apk"), DexListed(dex)
    PROVE  /\ dex.header /\ Len(dex.classes) \in Nat /\ dex.classes \in Seq(STRING)
           /\ DOMAIN dex.classes = 1 .. Len(dex.classes)
           /\ IsFiniteSet(DexClasses(dex)) /\ Cardinality(DexClasses(dex)) = Len(dex.classes)
           /\ DeclaredCount(dex) = Len(dex.classes)
<1>1. dex.classes \in Seq(STRING)
  BY DEF Member
<1>2. DOMAIN dex.classes = 1 .. Len(dex.classes) /\ Len(dex.classes) \in Nat
  BY <1>1, LenProperties
<1>3. dex.header /\ DeclaredCount(dex) = Len(dex.classes)
  BY <1>2, ExtractionInputs DEF DexListed, DeclaredCount
<1> DEFINE classes == dex.classes
<1>4. classes \in Surjection(DOMAIN classes, DexClasses(dex)) /\ classes \in Injection(DOMAIN classes, DexClasses(dex))
  <2>1. classes = [i \in DOMAIN classes |-> classes[i]]
    BY <1>1
  <2>2. classes \in [DOMAIN classes -> DexClasses(dex)]
    BY <2>1 DEF DexClasses, ToSet
  <2>3. \A x \in DexClasses(dex) : \E i \in DOMAIN classes : classes[i] = x
    BY DEF DexClasses, ToSet
  <2>4. \A i, j \in DOMAIN classes : classes[i] = classes[j] => i = j
    BY DEF DexListed, IsInjective
  <2> HIDE DEF classes
  <2> QED BY <2>2, <2>3, <2>4 DEF Surjection, Injection, IsInjective
<1>5. IsFiniteSet(DOMAIN classes) /\ Cardinality(DOMAIN classes) = Len(classes)
  BY <1>2, FS_Interval
<1>6. IsFiniteSet(DexClasses(dex)) /\ Cardinality(DexClasses(dex)) = Len(dex.classes)
  BY <1>4, <1>5, FS_Surjection
<1> QED BY <1>1, <1>2, <1>3, <1>6

\* Equal sets of classes mean that each class has one file, and no other is there.
LEMMA EqualRepresented ==
    ASSUME NEW dex \in Member("apk"), DexListed(dex), NEW tree,
           dex.name \in DOMAIN Directory, DirOf(dex) \in DOMAIN tree,
           tree[DirOf(dex)] \in Seq(Seq(STRING)), SmaliListed(tree[DirOf(dex)])
    PROVE  /\ DexClasses(dex) = SmaliClasses(tree[DirOf(dex)]) => Represented(dex, tree)
           /\ Represented(dex, tree) => DexClasses(dex) = SmaliClasses(tree[DirOf(dex)])
           /\ DexClasses(dex) = SmaliClasses(tree[DirOf(dex)]) =>
                SmaliCount(tree[DirOf(dex)]) = DeclaredCount(dex)
<1> DEFINE files == tree[DirOf(dex)]
           classes == dex.classes
           Own(i) == {j \in DOMAIN files : files[j] = <<classes[i]>>}
<1>1. /\ Cardinality(SmaliClasses(files)) = Len(files) /\ SmaliCount(files) = Len(files)
      /\ \A j \in DOMAIN files : files[j] = <<files[j][1]>>
  BY ListedFiles
<1>2. /\ dex.header /\ Len(classes) \in Nat /\ DOMAIN classes = 1 .. Len(classes)
      /\ Cardinality(DexClasses(dex)) = Len(classes) /\ DeclaredCount(dex) = Len(classes)
  BY ListedClasses
<1>3. DOMAIN files = 1 .. Len(files) /\ Len(files) \in Nat
  BY LenProperties
<1>4. \A i, j \in DOMAIN files : files[i] = files[j] => i = j
  BY DEF SmaliListed, IsInjective
<1>5. \A i, j \in DOMAIN classes : classes[i] = classes[j] => i = j
  BY DEF DexListed, IsInjective
<1>6. \A i \in DOMAIN classes : IsFiniteSet(Own(i))
  <2>1. IsFiniteSet(DOMAIN files)
    BY <1>3, FS_Interval
  <2> QED BY <2>1, FS_Subset
<1>7. Represented(dex, tree) <=> /\ Len(files) = Len(classes)
                                 /\ \A i \in DOMAIN classes : Cardinality(Own(i)) = 1
  BY <1>2 DEF Represented, DirOf
<1>8. SmaliClasses(files) = {files[j][1] : j \in DOMAIN files}
      /\ DexClasses(dex) = {classes[i] : i \in DOMAIN classes}
  BY DEF SmaliClasses, DexClasses, ToSet
<1> HIDE DEF files, classes
<1>9. ASSUME DexClasses(dex) = SmaliClasses(files), NEW i \in DOMAIN classes PROVE Cardinality(Own(i)) = 1
  <2>1. PICK j \in DOMAIN files : files[j][1] = classes[i]
    BY <1>8, <1>9
  <2>2. files[j] = <<classes[i]>>
    BY <1>1, <2>1
  <2>3. Own(i) = {j}
    BY <1>4, <2>2
  <2> QED BY <2>3, FS_Singleton
<1>10. ASSUME \A i \in DOMAIN classes : Cardinality(Own(i)) = 1, Len(files) = Len(classes)
       PROVE  DexClasses(dex) = SmaliClasses(files)
  <2>1. \A i \in DOMAIN classes : \E j \in DOMAIN files : files[j] = <<classes[i]>>
    <3>1. ASSUME NEW i \in DOMAIN classes PROVE \E j : Own(i) = {j}
      BY <1>6, <1>10, FS_Singleton
    <3> QED BY <3>1
  <2> DEFINE file == [i \in DOMAIN classes |-> CHOOSE j \in DOMAIN files : files[j] = <<classes[i]>>]
  <2>2. \A i \in DOMAIN classes : file[i] \in DOMAIN files /\ files[file[i]] = <<classes[i]>>
    BY <2>1
  <2>3. file \in [DOMAIN classes -> DOMAIN files]
    BY <2>2
  <2> HIDE DEF file
  <2>4. \A i, j \in DOMAIN classes : file[i] = file[j] => i = j
    <3> SUFFICES ASSUME NEW i \in DOMAIN classes, NEW j \in DOMAIN classes, file[i] = file[j] PROVE i = j
      OBVIOUS
    <3>1. <<classes[i]>> = <<classes[j]>>
      BY <2>2
    <3>2. classes[i] = classes[j]
      BY <3>1
    <3> QED BY <1>5, <3>2
  <2>5. file \in Injection(DOMAIN classes, DOMAIN files)
    BY <2>3, <2>4 DEF Injection, IsInjective
  <2>6. IsFiniteSet(DOMAIN files) /\ Cardinality(DOMAIN classes) = Cardinality(DOMAIN files)
    BY <1>2, <1>3, <1>10, FS_Interval
  <2>7. file \in Surjection(DOMAIN classes, DOMAIN files)
    BY <2>5, <2>6, FS_Injection
  <2>8. \A j \in DOMAIN files : \E i \in DOMAIN classes : file[i] = j
    BY <2>7 DEF Surjection
  <2>9. \A i \in DOMAIN classes : files[file[i]][1] = classes[i]
    BY <2>2
  <2> QED BY <1>8, <2>2, <2>8, <2>9
<1>11. DexClasses(dex) = SmaliClasses(files) => Len(files) = Len(classes)
  BY <1>1, <1>2
<1> QED BY <1>1, <1>2, <1>7, <1>9, <1>10, <1>11 DEF files, classes

\* The values of a function are finitely many when its arguments are.
LEMMA ImageFinite ==
    ASSUME NEW S, IsFiniteSet(S), NEW f, NEW T, T = {f[x] : x \in S}
    PROVE  IsFiniteSet(T)
<1> DEFINE image == [x \in S |-> f[x]]
<1>1. image \in Surjection(S, T)
  BY DEF Surjection
<1> QED BY <1>1, FS_Surjection

\* Pairs over finitely many positions, finitely many for each, are finitely many.
LEMMA PairsFinite ==
    ASSUME NEW I, IsFiniteSet(I), NEW part, \A i \in I : IsFiniteSet(part[i])
    PROVE  IsFiniteSet(UNION {{i} \X part[i] : i \in I})
<1> DEFINE parts == {{i} \X part[i] : i \in I}
           at_ == [i \in I |-> {i} \X part[i]]
<1>1. at_ \in Surjection(I, parts)
  BY DEF Surjection
<1>2. IsFiniteSet(parts)
  BY <1>1, FS_Surjection
<1>3. \A i \in I : IsFiniteSet({i} \X part[i])
  BY FS_Singleton, FS_Product
<1>4. \A P \in parts : IsFiniteSet(P)
  BY <1>3
<1> QED BY <1>2, <1>4, FS_UNION

\* What is missing or extra is there for a member and a class.
LEMMA DifferencesAre ==
    ASSUME NEW file, NEW tree, file.members \in Seq(Member("apk")),
           \A dir \in DOMAIN tree : tree[dir] \in Seq(Seq(STRING)), Comparable(file, tree)
    PROVE  /\ IsFiniteSet(Missing(file, tree)) /\ IsFiniteSet(Extra(file, tree))
           /\ Missing(file, tree) = {} /\ Extra(file, tree) = {} <=>
                \A i \in RootDex(file) :
                  DexClasses(file.members[i]) = SmaliClasses(Written(file, tree, i))
<1> DEFINE dex == RootDex(file)
           lost == [i \in dex |-> DexClasses(file.members[i]) \ SmaliClasses(Written(file, tree, i))]
           new == [i \in dex |-> SmaliClasses(Written(file, tree, i)) \ DexClasses(file.members[i])]
<1>1. DOMAIN file.members = 1 .. Len(file.members) /\ Len(file.members) \in Nat
      /\ \A i \in DOMAIN file.members : file.members[i] \in Member("apk")
  BY LenProperties, ElementOfSeq
<1>2. IsFiniteSet(dex) /\ dex \in SUBSET DOMAIN file.members
  <2>1. IsFiniteSet(DOMAIN file.members) /\ dex \in SUBSET DOMAIN file.members
    BY <1>1, FS_Interval DEF RootDex
  <2> QED BY <2>1, FS_Subset
<1>3. ASSUME NEW i \in dex
      PROVE  IsFiniteSet(DexClasses(file.members[i])) /\ IsFiniteSet(SmaliClasses(Written(file, tree, i)))
  <2>1. file.members[i] \in Member("apk") /\ DexListed(file.members[i])
    BY <1>1, <1>2 DEF Comparable
  <2>2. Written(file, tree, i) \in Seq(Seq(STRING)) /\ SmaliListed(Written(file, tree, i))
    BY DEF Comparable, There, Written
  <2> QED BY <2>1, <2>2, ListedClasses, ListedFiles
<1>4. \A i \in dex : IsFiniteSet(lost[i]) /\ IsFiniteSet(new[i])
  BY <1>3, FS_Difference
<1>5. Missing(file, tree) = UNION {{i} \X lost[i] : i \in dex} /\ Extra(file, tree) = UNION {{i} \X new[i] : i \in dex}
  BY DEF Missing, Extra
<1>6. IsFiniteSet(Missing(file, tree)) /\ IsFiniteSet(Extra(file, tree))
  <2> HIDE DEF dex, lost, new
  <2> QED BY <1>2, <1>4, <1>5, PairsFinite
<1>7. Missing(file, tree) = {} <=> \A i \in dex : lost[i] = {}
  <2> HIDE DEF dex, lost, new
  <2>1. ASSUME NEW i \in dex, NEW x \in lost[i] PROVE <<i, x>> \in Missing(file, tree)
    BY <1>5
  <2>2. ASSUME \A i \in dex : lost[i] = {} PROVE Missing(file, tree) = {}
    BY <1>5, <2>2
  <2> QED BY <2>1, <2>2
<1>8. Extra(file, tree) = {} <=> \A i \in dex : new[i] = {}
  <2> HIDE DEF dex, lost, new
  <2>1. ASSUME NEW i \in dex, NEW x \in new[i] PROVE <<i, x>> \in Extra(file, tree)
    BY <1>5
  <2>2. ASSUME \A i \in dex : new[i] = {} PROVE Extra(file, tree) = {}
    BY <1>5, <2>2
  <2> QED BY <2>1, <2>2
<1>9. \A i \in dex : lost[i] = {} /\ new[i] = {} <=>
                       DexClasses(file.members[i]) = SmaliClasses(Written(file, tree, i))
  OBVIOUS
<1> HIDE DEF lost, new
<1> QED BY <1>6, <1>7, <1>8, <1>9

\* Where the count of a directory agrees, its files are as many as the classes, or
\* its walk was ended by the limit.
LEMMA CountTold ==
    ASSUME NEW dex \in Member("apk"), NEW files \in Seq(Seq(STRING)),
           DeclaredCount(dex) >= 0, SmaliCount(files) = DeclaredCount(dex)
    PROVE  Capped(files) \/ Len(files) = Len(dex.classes)
<1> SUFFICES ASSUME ~Capped(files) PROVE Len(files) = Len(dex.classes)
  OBVIOUS
<1>1. DOMAIN files = 1 .. Len(files) /\ Len(files) \in Nat
  BY LenProperties
<1>2. DeclaredCount(dex) = Len(dex.classes)
  BY DEF DeclaredCount
<1>3. SmaliCount(files) = Cardinality(Regular(files)) /\ ~Contains(files, Link)
  BY <1>2 DEF SmaliCount
<1>4. Regular(files) = DOMAIN files
  <2>1. \A i \in DOMAIN files : i <= MaxWalk
    BY <1>1, ExtractionInputs DEF Capped
  <2>2. \A i \in DOMAIN files : files[i] # Link
    BY <1>1, <1>3 DEF Contains
  <2> QED BY <2>1, <2>2 DEF Regular
<1>5. Cardinality(DOMAIN files) = Len(files)
  BY <1>1, FS_Interval
<1> QED BY <1>2, <1>3, <1>4, <1>5

\* The three comparisons of the inventory are true of the file and of what Apktool wrote.
LEMMA InventoryTold ==
    ASSUME NEW file, NEW tree, file.members \in Seq(Member("apk")),
           \A dir \in DOMAIN tree : tree[dir] \in Seq(Seq(STRING))
    PROVE  InventoryTrue(file, tree, Inventory(file, tree))
<1> DEFINE found == Inventory(file, tree)
           dex == RootDex(file)
<1>1. CASE dex = {}
  <2>1. found.descriptors = "not_measured" /\ found.counts = "not_measured"
    BY <1>1 DEF Inventory
  <2> QED BY <2>1 DEF InventoryTrue
<1>2. CASE dex # {}
  <2>1. /\ found.extraction = IF ~Mapped(file) THEN "ambiguous"
                              ELSE IF \A i \in dex : There(file, tree, i) THEN "matched" ELSE "mismatch"
        /\ found.counts = IF ~CountsTaken(file, tree) THEN "incomplete"
                          ELSE IF CountsAgree(file, tree) THEN "match" ELSE "mismatch"
        /\ found.descriptors = IF ~Comparable(file, tree) THEN "incomplete"
                               ELSE IF Missing(file, tree) = {} /\ Extra(file, tree) = {}
                                    THEN "exact" ELSE "mismatch"
        /\ found.missing = IF Comparable(file, tree) THEN Cardinality(Missing(file, tree)) ELSE 0
        /\ found.extra = IF Comparable(file, tree) THEN Cardinality(Extra(file, tree)) ELSE 0
    BY <1>2 DEF Inventory
  <2> HIDE DEF found
  <2>2. \A i \in dex : file.members[i] \in Member("apk")
    BY LenProperties, ElementOfSeq DEF RootDex
  <2>3. ASSUME found.counts = "match", NEW i \in dex
        PROVE  Capped(Written(file, tree, i)) \/ Len(Written(file, tree, i)) = Len(file.members[i].classes)
    <3>1. CountsTaken(file, tree) /\ CountsAgree(file, tree)
      BY <2>1, <2>3
    <3>2. /\ DeclaredCount(file.members[i]) >= 0 /\ There(file, tree, i)
          /\ SmaliCount(Written(file, tree, i)) = DeclaredCount(file.members[i])
      BY <3>1 DEF CountsTaken, Measured, CountsAgree
    <3>3. Written(file, tree, i) \in Seq(Seq(STRING))
      BY <3>2 DEF There, Written
    <3> QED BY <2>2, <3>2, <3>3, CountTold
  <2>4. ASSUME Comparable(file, tree), NEW i \in dex
        PROVE  /\ DexClasses(file.members[i]) = SmaliClasses(Written(file, tree, i)) <=>
                    Represented(file.members[i], tree)
               /\ DexClasses(file.members[i]) = SmaliClasses(Written(file, tree, i)) =>
                    SmaliCount(Written(file, tree, i)) = DeclaredCount(file.members[i])
    <3>1. /\ DexListed(file.members[i]) /\ There(file, tree, i)
          /\ SmaliListed(Written(file, tree, i)) /\ Mapped(file)
      BY <2>4 DEF Comparable
    <3>2. file.members[i].name \in DOMAIN Directory
      BY <3>1 DEF Mapped, WithDirectory
    <3> QED BY <2>2, <3>1, <3>2, EqualRepresented DEF There, Written
  <2>5. ASSUME found.descriptors = "exact"
        PROVE  /\ \A i \in dex : Represented(file.members[i], tree)
               /\ found.counts = "match" /\ found.extraction = "matched"
    <3>1. Comparable(file, tree) /\ Missing(file, tree) = {} /\ Extra(file, tree) = {}
      BY <2>1, <2>5
    <3>2. \A i \in dex : DexClasses(file.members[i]) = SmaliClasses(Written(file, tree, i))
      BY <3>1, DifferencesAre
    <3>3. Mapped(file) /\ Measured(file) /\ \A i \in dex : There(file, tree, i)
      BY <3>1 DEF Comparable
    <3>4. CountsAgree(file, tree)
      BY <2>4, <3>1, <3>2 DEF CountsAgree
    <3>5. CountsTaken(file, tree)
      BY <3>3, <3>4 DEF CountsTaken, CountsAgree, Measured
    <3> QED BY <2>1, <2>4, <3>1, <3>2, <3>3, <3>4, <3>5
  <2>6. ASSUME found.descriptors = "mismatch"
        PROVE  found.missing + found.extra > 0 /\ \E i \in dex : ~Represented(file.members[i], tree)
    <3>1. Comparable(file, tree) /\ ~(Missing(file, tree) = {} /\ Extra(file, tree) = {})
      BY <2>1, <2>6
    <3>2. IsFiniteSet(Missing(file, tree)) /\ IsFiniteSet(Extra(file, tree))
      BY <3>1, DifferencesAre
    <3>3. /\ found.missing \in Nat /\ found.extra \in Nat
          /\ found.missing = 0 => Missing(file, tree) = {}
          /\ found.extra = 0 => Extra(file, tree) = {}
      BY <2>1, <3>1, <3>2, FS_CardinalityType, FS_EmptySet
    <3>4. ~\A i \in dex : DexClasses(file.members[i]) = SmaliClasses(Written(file, tree, i))
      BY <3>1, DifferencesAre
    <3> QED BY <2>4, <3>1, <3>3, <3>4
  <2> QED BY <2>3, <2>5, <2>6 DEF InventoryTrue, found
<1> QED BY <1>1, <1>2

-----------------------------------------------------------------------------
(***************************************************************************)
(* The rows of a bundle that is complete.                                  *)
(***************************************************************************)
\* A count is a number, or -1.
LEMMA CountIsInt ==
    ASSUME NEW dex, Len(dex.classes) \in Nat
    PROVE  DeclaredCount(dex) \in Int /\ (DeclaredCount(dex) >= 0 <=> ~(DeclaredCount(dex) < 0))
BY DEF DeclaredCount

\* One row for each module, whose count holds the classes of each of its DEX members.
LEMMA RowIs ==
    ASSUME NEW file, file.members \in Seq(Member("bundle")), NEW name,
           NEW i \in In(file, name, "dex"), DeclaredCount(file.members[i]) >= 0
    PROVE  /\ file.members[i].header
           /\ ModuleRow(file, name).declared >= Len(file.members[i].classes)
<1> DEFINE dex == In(file, name, "dex")
           counts == [k \in dex |-> DeclaredCount(file.members[k])]
           spans == [k \in dex |-> 1 .. counts[k]]
           all == UNION {{k} \X spans[k] : k \in dex}
           n == Len(file.members[i].classes)
<1>1. DOMAIN file.members = 1 .. Len(file.members) /\ Len(file.members) \in Nat
      /\ \A k \in DOMAIN file.members : file.members[k] \in Member("bundle")
  BY LenProperties, ElementOfSeq
<1>2. dex \in SUBSET (1 .. Len(file.members)) /\ IsFiniteSet(dex)
  <2>1. dex \in SUBSET (1 .. Len(file.members)) /\ IsFiniteSet(1 .. Len(file.members))
    BY <1>1, FS_Interval DEF In
  <2> QED BY <2>1, FS_Subset
<1>3. \A k \in dex : file.members[k].classes \in Seq(STRING)
  BY <1>1, <1>2 DEF Member
<1>4. \A k \in dex : Len(file.members[k].classes) \in Nat
  BY <1>3, LenProperties
<1>5. \A k \in dex : counts[k] \in Int
  BY <1>4 DEF DeclaredCount
<1>6. file.members[i].header /\ counts[i] = n /\ n \in Nat
  BY <1>4 DEF DeclaredCount
<1> HIDE DEF counts, n
<1>7. \A k \in dex : IsFiniteSet(spans[k])
  <2>1. ASSUME NEW k \in dex PROVE IsFiniteSet(spans[k])
    <3>1. counts[k] \in Int
      BY <1>5
    <3>2. IsFiniteSet(1 .. counts[k])
      BY <3>1, FS_Interval
    <3> QED BY <3>2
  <2> QED BY <2>1
<1>8. IsFiniteSet(all)
  <2> HIDE DEF spans
  <2> QED BY <1>2, <1>7, PairsFinite
<1>9. {i} \X (1 .. n) \in SUBSET all
  <2>1. spans[i] = 1 .. n
    BY <1>6
  <2> QED BY <2>1
<1>10. Cardinality({i} \X (1 .. n)) = n
  <2>1. IsFiniteSet({i}) /\ Cardinality({i}) = 1 /\ IsFiniteSet(1 .. n) /\ Cardinality(1 .. n) = n
    <3>1. IsFiniteSet({i}) /\ Cardinality({i}) = 1
      BY FS_Singleton
    <3>2. IsFiniteSet(1 .. n) /\ Cardinality(1 .. n) = n
      BY <1>6, IntervalFinite
    <3> QED BY <3>1, <3>2
  <2>2. Cardinality({i} \X (1 .. n)) = Cardinality({i}) * Cardinality(1 .. n)
    BY <2>1, FS_Product
  <2> QED BY <1>6, <2>1, <2>2
<1>11. Cardinality(all) \in Nat /\ Cardinality(all) >= n
  <2> HIDE DEF all
  <2> QED BY <1>8, <1>9, <1>10, FS_Subset, FS_CardinalityType
<1>12. ModuleRow(file, name).declared = Cardinality(all)
  <2>1. all = UNION {{k} \X (1 .. counts[k]) : k \in dex}
    OBVIOUS
  <2> HIDE DEF all
  <2> QED BY <2>1 DEF ModuleRow, counts
<1> QED BY <1>6, <1>11, <1>12 DEF n

\* A complete bundle has counted what its members declare.
LEMMA BundleTold ==
    ASSUME NEW file, file.members \in Seq(Member("bundle")), BundleStatus(file) = "complete"
    PROVE  BundleTrue(file, BundleRows(file))
<1> DEFINE here == {i \in DOMAIN file.members : file.members[i].module \notin {"", "META-INF"}}
<1>1. /\ \A i \in DOMAIN file.members : file.members[i].module # "?"
      /\ \A row \in BundleRows(file) : row.manifest /\ row.classes # "incomplete"
  BY DEF BundleStatus
<1>2. ASSUME NEW i \in here
      PROVE  LET m == file.members[i]
                 row == CHOOSE r \in BundleRows(file) : r.name = m.module
             IN /\ m.module # "?" /\ m.part # "misnamed"
                /\ \E j \in here : file.members[j].module = m.module /\ file.members[j].part = "manifest"
                /\ m.part = "dex" => m.header /\ row.classes = "measured" /\ row.declared >= Len(m.classes)
  <2> DEFINE m == file.members[i]
             row == ModuleRow(file, m.module)
  <2>1. m.module \in Modules(file)
    BY <1>1 DEF Modules
  <2>2. row \in BundleRows(file) /\ row.name = m.module
    BY <2>1 DEF BundleRows, ModuleRow
  <2>3. \A r \in BundleRows(file) : r.name = m.module => r = row
    <3>1. \A name : ModuleRow(file, name).name = name
      BY DEF ModuleRow
    <3> QED BY <3>1 DEF BundleRows
  <2>4. (CHOOSE r \in BundleRows(file) : r.name = m.module) = row
    BY <2>2, <2>3
  <2>5. row.manifest /\ row.classes # "incomplete"
    BY <1>1, <2>2
  <2>6. In(file, m.module, "manifest") # {}
    BY <2>5 DEF ModuleRow
  <2>7. \E j \in here : file.members[j].module = m.module /\ file.members[j].part = "manifest"
    BY <2>6 DEF In
  <2>8. /\ In(file, m.module, "misnamed") = {}
        /\ \A k \in In(file, m.module, "dex") : ~(DeclaredCount(file.members[k]) < 0)
        /\ row.classes = IF In(file, m.module, "dex") = {} THEN "not_applicable" ELSE "measured"
    BY <2>5 DEF ModuleRow
  <2>9. m.part # "misnamed"
    BY <2>8 DEF In
  <2>10. ASSUME m.part = "dex"
         PROVE  m.header /\ row.classes = "measured" /\ row.declared >= Len(m.classes)
    <3>1. i \in In(file, m.module, "dex")
      BY <2>10 DEF In
    <3>2. file.members[i] \in Member("bundle")
      BY LenProperties, ElementOfSeq
    <3>3. Len(file.members[i].classes) \in Nat
      BY <3>2, LenProperties DEF Member
    <3>4. ~(DeclaredCount(file.members[i]) < 0)
      BY <2>8, <3>1
    <3>5. DeclaredCount(file.members[i]) >= 0
      BY <3>3, <3>4, CountIsInt
    <3>6. m.header /\ row.declared >= Len(m.classes)
      BY <3>1, <3>5, RowIs
    <3>7. row.classes = "measured"
      BY <2>8, <3>1
    <3> QED BY <3>6, <3>7
  <2> HIDE DEF row
  <2> QED BY <1>1, <2>4, <2>7, <2>9, <2>10
<1> HIDE DEF here
<1> QED BY <1>2 DEF BundleTrue, here

-----------------------------------------------------------------------------
(***************************************************************************)
(* The invariant of the extraction.                                        *)
(***************************************************************************)
\* Of the lines within the limit that end up to a position, none is marked.
NoneMarked(log, c) ==
    \A i, j \in 1 .. Len(log) : Short(log, i, j) /\ j <= c => ~Marked(SubSeq(log, i, j))

Later == {"apktool", "jadx", "check", "inventory", "compare", "record"}

\* The reader of a log stands between its lines, and what it has passed without a
\* mark has none.
PipeHonest ==
    /\ at \notin Tools => pipe = NoPipe
    /\ at \in Tools =>
         LET log == input.logs[at]
         IN /\ input.kind = "apk"
            /\ saw[at] = {} => pipe = NoPipe
            /\ pipe.read <= Len(log)
            /\ Apart(log, pipe.cut)
            /\ pipe.marks = 0 => NoneMarked(log, pipe.cut)
LogsHonest ==
    \A t \in Tools : logs[t].complete /\ logs[t].marks = 0 => Unmarked(input.logs[t])

\* A file is replaced once: while the first is there nobody has seen the other,
\* and whoever binds the other has only seen that one.
FilesHonest ==
    /\ now = "given" => bound # "other" /\ \A r \in DOMAIN saw : saw[r] \subseteq {"given"}
    /\ bound = "other" => now = "other" /\ \A r \in DOMAIN saw : saw[r] \subseteq {"other"}
    /\ at = "hash" => \A r \in DOMAIN saw : saw[r] = {}
    /\ at # "hash" => bound # "none"
    /\ at \in Later /\ now = bound => Valid(input[bound], input.kind)
    /\ at = "jadx" => saw["apktool"] # {}
    /\ at = "check" => input.kind = "apk"
    /\ at \in {"check", "inventory", "compare"} /\ input.kind = "apk" => \A t \in Tools : saw[t] # {}

\* What is recorded was read from one file.
RecordOf(f) ==
    /\ saw["inventory"] = {f} /\ Valid(input[f], input.kind)
    /\ IF input.kind = "apk"
       THEN /\ saw["apktool"] = {f} /\ saw["jadx"] = {f}
            /\ report.inventory = Inventory(input[f], input.tree) /\ report.review = ReviewState
       ELSE report.status = BundleStatus(input[f]) /\ report.rows = BundleRows(input[f])
RecordHonest ==
    /\ at = "compare" /\ now = bound => RecordOf(bound)
    /\ at = "record" \/ report.end = "recorded" => RecordOf(bound)
    /\ report.end = "recorded" => at = "done"
    /\ DOMAIN report = DOMAIN NoReport

ExtractionInv == input \in Inputs /\ exTypeOK /\ PipeHonest /\ LogsHonest /\ FilesHonest /\ RecordHonest

\* Nothing ends before a log begins.
LEMMA CleanAtStart ==
    ASSUME NEW log \in Seq(STRING)
    PROVE  Apart(log, 0) /\ NoneMarked(log, 0)
<1>1. Len(log) \in Nat
  BY LenProperties
<1> QED BY <1>1 DEF Apart, NoneMarked

\* Classifying a part of a log leads from one end of a line to another, and what it
\* passes without a mark has none.
LEMMA ClassifiedPart ==
    ASSUME NEW log \in Seq(STRING), NEW from \in Nat, NEW to \in Nat, from <= to, to <= Len(log),
           NEW final \in BOOLEAN, final => to = Len(log), Apart(log, from),
           NEW marks \in Nat, marks = 0 => NoneMarked(log, from)
    PROVE  LET cuts == Cuts(log, from, to, final)
               end == Max({from} \cup cuts)
               more == marks + MarkedLines(log, from, cuts)
           IN /\ end \in Nat /\ end <= to /\ to - end <= MaxLine /\ Apart(log, end)
              /\ final => end = to
              /\ more \in Nat /\ (more = 0 => NoneMarked(log, end))
<1> DEFINE cuts == Cuts(log, from, to, final)
           end == Max({from} \cup cuts)
<1>1. /\ cuts \in SUBSET (from + 1 .. to)
      /\ final /\ from < to => to \in cuts
      /\ \A c \in cuts : Apart(log, c)
      /\ to - end <= MaxLine
  BY CutsAre
<1>2. end \in {from} \cup cuts /\ \A m \in {from} \cup cuts : m <= end
  <2>1. {from} \cup cuts \in SUBSET Nat /\ {from} \cup cuts # {} /\ \A m \in {from} \cup cuts : m <= to
    BY <1>1
  <2> QED BY <2>1, Greatest
<1>3. MarkedLines(log, from, cuts) \in Nat
  BY <1>1, MarkedLinesCounted
<1>4. ASSUME marks + MarkedLines(log, from, cuts) = 0 PROVE NoneMarked(log, end)
  <2>1. marks = 0 /\ MarkedLines(log, from, cuts) = 0
    BY <1>3, <1>4
  <2>2. ASSUME NEW i \in 1 .. Len(log), NEW j \in 1 .. Len(log), Short(log, i, j), j <= end
        PROVE  ~Marked(SubSeq(log, i, j))
    <3>1. CASE j <= from
      BY <2>1, <2>2, <3>1 DEF NoneMarked
    <3>2. CASE i > j
      <4>1. SubSeq(log, i, j) = <<>>
        BY <3>2
      <4> QED BY <4>1 DEF Marked
    <3>3. CASE from < j /\ i <= j
      BY <2>1, <2>2, <3>3, MarkCounted
    <3>4. i \in Nat /\ j \in Nat
      OBVIOUS
    <3> QED BY <3>1, <3>2, <3>3, <3>4
  <2> QED BY <2>2 DEF NoneMarked
<1> HIDE DEF cuts, end
<1>5. end \in Nat /\ end <= to /\ Apart(log, end)
  BY <1>1, <1>2
<1>6. final => end = to
  BY <1>1, <1>2, <1>5
<1>7. marks + MarkedLines(log, from, cuts) \in Nat
  BY <1>3
<1> QED BY <1>1, <1>4, <1>5, <1>6, <1>7 DEF cuts, end

\* A log that was read to its end and has no mark is unmarked.
LEMMA CleanToTheEnd ==
    ASSUME NEW log \in Seq(STRING), Len(log) <= MaxScan, NoneMarked(log, Len(log))
    PROVE  Unmarked(log)
<1>1. Len(log) \in Nat
  BY LenProperties
<1> QED BY <1>1 DEF NoneMarked, Unmarked, Short

\* What the assumption on the inputs says of the one that is extracted.
LEMMA InputIs ==
    ASSUME input \in Inputs
    PROVE  /\ \A t \in Tools : input.logs[t] \in Seq(STRING) /\ Len(input.logs[t]) \in Nat
           /\ \A dir \in DOMAIN input.tree : input.tree[dir] \in Seq(Seq(STRING))
           /\ \A f \in {"given", "other"} : input[f].members \in Seq(Member(input.kind))
<1>1. \A t \in Tools : input.logs[t] \in Seq(STRING)
  BY ExtractionInputs
<1>2. \A t \in Tools : Len(input.logs[t]) \in Nat
  BY <1>1, LenProperties
<1>3. \A dir \in DOMAIN input.tree : input.tree[dir] \in Seq(Seq(STRING))
  BY ExtractionInputs
<1>4. \A f \in {"given", "other"} : input[f].members \in Seq(Member(input.kind))
  BY ExtractionInputs
<1> QED BY <1>1, <1>2, <1>3, <1>4

\* With at most one replacement, a file that is still the bound one is the only one
\* that anybody has read.
LEMMA OnlyBoundSeen ==
    ASSUME exTypeOK, FilesHonest, now = bound
    PROVE  \A r \in DOMAIN saw : saw[r] \subseteq {bound}
BY DEF exTypeOK, FilesHonest

\* An invariant says what is claimed of an extraction.
LEMMA HonestAtTheEnd ==
    ASSUME ExtractionInv
    PROVE  ExtractionHonest
<1> SUFFICES ASSUME report.end = "recorded"
             PROVE  /\ saw["inventory"] = {bound} /\ Valid(input[bound], input.kind)
                    /\ IF input.kind = "apk" THEN ApkHonest ELSE BundleHonest
  BY DEF ExtractionHonest
<1>1. RecordOf(bound) /\ at = "done"
  BY DEF ExtractionInv, RecordHonest
<1>2. bound \in {"given", "other"}
  <2>1. saw["inventory"] = {bound}
    BY <1>1 DEF RecordOf
  <2>2. saw["inventory"] \subseteq {"given", "other"}
    BY DEF ExtractionInv, exTypeOK
  <2> QED BY <2>1, <2>2
<1>3. /\ input[bound].members \in Seq(Member(input.kind))
      /\ \A dir \in DOMAIN input.tree : input.tree[dir] \in Seq(Seq(STRING))
  BY <1>2, InputIs DEF ExtractionInv
<1>4. CASE input.kind = "apk"
  <2>1. /\ saw["apktool"] = {bound} /\ saw["jadx"] = {bound}
        /\ report.inventory = Inventory(input[bound], input.tree) /\ report.review = ReviewState
    BY <1>1, <1>4 DEF RecordOf
  <2>2. InventoryTrue(input[bound], input.tree, report.inventory)
    BY <1>3, <1>4, <2>1, InventoryTold
  <2>3. report.review = "completed" => \A t \in Tools : Unmarked(input.logs[t])
    <3>1. ReviewState = "completed" => \A t \in Tools : logs[t].complete /\ logs[t].marks = 0
      BY DEF ReviewState
    <3> QED BY <2>1, <3>1 DEF ExtractionInv, LogsHonest
  <2>4. ApkHonest
    BY <2>1, <2>2, <2>3 DEF ApkHonest
  <2> QED BY <1>1, <1>4, <2>4 DEF RecordOf
<1>5. CASE input.kind # "apk"
  <2>1. input.kind = "bundle"
    BY <1>5, ExtractionInputs DEF ExtractionInv
  <2>2. report.status = BundleStatus(input[bound]) /\ report.rows = BundleRows(input[bound])
    BY <1>1, <1>5 DEF RecordOf
  <2>3. BundleStatus(input[bound]) = "complete" => BundleTrue(input[bound], BundleRows(input[bound]))
    BY <1>3, <2>1, BundleTold
  <2>4. BundleHonest
    BY <2>2, <2>3 DEF BundleHonest
  <2> QED BY <1>1, <1>5, <2>4 DEF RecordOf
<1> QED BY <1>4, <1>5

\* A chunk leaves the reader of a log between its lines.
LEMMA ChunkKeeps ==
    ASSUME ExtractionInv, NEW tool \in Tools, ReadChunk(tool)
    PROVE  ExtractionInv'
<1> USE DEF ExtractionInv
<1> DEFINE log == input.logs[tool]
<1>1. log \in Seq(STRING) /\ Len(log) \in Nat
  BY InputIs
<1>2. PICK size \in 1 .. Min({MaxChunk, Len(log) - pipe.read}) :
        pipe' = [pipe EXCEPT !.read = pipe.read + size,
                             !.cut = Max({@} \cup Cuts(log, pipe.cut, Scanned(pipe.read + size), FALSE)),
                             !.marks = @ + MarkedLines(log, pipe.cut,
                                             Cuts(log, pipe.cut, Scanned(pipe.read + size), FALSE))]
  BY DEF ReadChunk
<1>3. at = tool /\ saw[tool] # {} /\ UNCHANGED <<input, now, bound, at, saw, logs, report>>
  BY DEF ReadChunk
<1> DEFINE read == pipe.read + size
           cuts == Cuts(log, pipe.cut, Scanned(read), FALSE)
           end == Max({pipe.cut} \cup cuts)
           more == pipe.marks + MarkedLines(log, pipe.cut, cuts)
<1>4. /\ pipe.read \in Nat /\ pipe.cut \in Nat /\ pipe.marks \in Nat /\ pipe.exited \in BOOLEAN
      /\ pipe = [read |-> pipe.read, cut |-> pipe.cut, marks |-> pipe.marks, exited |-> pipe.exited]
      /\ pipe.cut <= Scanned(pipe.read)
  BY DEF exTypeOK
<1>5. /\ pipe.read <= Len(log) /\ Apart(log, pipe.cut) /\ (pipe.marks = 0 => NoneMarked(log, pipe.cut))
      /\ input.kind = "apk"
  BY <1>3 DEF PipeHonest
<1>6. size \in Nat /\ read \in Nat /\ pipe.read <= read /\ read <= Len(log)
  <2>1. MaxChunk \in Nat /\ Len(log) - pipe.read \in Nat
    BY <1>1, <1>4, <1>5, ExtractionInputs
  <2>2. Min({MaxChunk, Len(log) - pipe.read}) \in Nat
        /\ Min({MaxChunk, Len(log) - pipe.read}) <= Len(log) - pipe.read
    <3> DEFINE rest == Len(log) - pipe.read
    <3> HIDE DEF rest
    <3>1. rest \in Nat
      BY <2>1 DEF rest
    <3>2. Min({MaxChunk, rest}) = IF MaxChunk <= rest THEN MaxChunk ELSE rest
      BY <2>1, <3>1 DEF Min
    <3> QED BY <2>1, <3>1, <3>2 DEF rest
  <2> HIDE DEF log
  <2> QED BY <1>1, <1>4, <1>5, <2>1, <2>2
<1>7. Scanned(read) \in Nat /\ Scanned(read) <= read /\ Scanned(pipe.read) <= Scanned(read)
      /\ Scanned(pipe.read) \in Nat
  BY <1>4, <1>6, ScannedIs
<1>8. pipe.cut <= Scanned(read) /\ Scanned(read) <= Len(log)
  BY <1>1, <1>4, <1>6, <1>7
<1>9. /\ end \in Nat /\ end <= Scanned(read) /\ Scanned(read) - end <= MaxLine /\ Apart(log, end)
      /\ more \in Nat /\ (more = 0 => NoneMarked(log, end))
  <2> DEFINE parts(final) == Cuts(log, pipe.cut, Scanned(read), final)
  <2>1. ASSUME NEW final \in BOOLEAN, ~final
        PROVE  /\ Max({pipe.cut} \cup parts(final)) \in Nat
               /\ Max({pipe.cut} \cup parts(final)) <= Scanned(read)
               /\ Scanned(read) - Max({pipe.cut} \cup parts(final)) <= MaxLine
               /\ Apart(log, Max({pipe.cut} \cup parts(final)))
               /\ pipe.marks + MarkedLines(log, pipe.cut, parts(final)) \in Nat
               /\ pipe.marks + MarkedLines(log, pipe.cut, parts(final)) = 0 =>
                    NoneMarked(log, Max({pipe.cut} \cup parts(final)))
    <3> HIDE DEF log, read
    <3> DEFINE from == pipe.cut
               to == Scanned(read)
               marks == pipe.marks
    <3>1. /\ log \in Seq(STRING) /\ from \in Nat /\ to \in Nat /\ from <= to /\ to <= Len(log)
          /\ (final => to = Len(log)) /\ Apart(log, from) /\ marks \in Nat /\ (marks = 0 => NoneMarked(log, from))
      BY <1>1, <1>4, <1>5, <1>7, <1>8, <2>1
    <3> HIDE DEF from, to, marks
    <3>2. LET some == Cuts(log, from, to, final)
              last == Max({from} \cup some)
              sum == marks + MarkedLines(log, from, some)
          IN /\ last \in Nat /\ last <= to /\ to - last <= MaxLine /\ Apart(log, last)
             /\ final => last = to
             /\ sum \in Nat /\ (sum = 0 => NoneMarked(log, last))
      BY <3>1, ClassifiedPart
    <3> QED BY <3>2 DEF from, to, marks
  <2> QED BY <2>1, Zenon
<1>10. pipe' = [read |-> read, cut |-> end, marks |-> more, exited |-> pipe.exited]
  BY <1>2, <1>4
<1> HIDE DEF read, cuts, end, more
<1>11. /\ pipe'.read = read /\ pipe'.cut = end /\ pipe'.marks = more
       /\ pipe' \in [read : Nat, cut : Nat, marks : Nat, exited : BOOLEAN]
  BY <1>4, <1>6, <1>9, <1>10
<1>12. exTypeOK'
  BY <1>3, <1>9, <1>11 DEF exTypeOK, Scanned
<1>13. PipeHonest'
  <2>1. input'.logs[at'] = log
    BY <1>3
  <2> HIDE DEF log
  <2> QED BY <1>3, <1>5, <1>6, <1>9, <1>11, <2>1 DEF PipeHonest
<1>14. LogsHonest'
  BY <1>3 DEF LogsHonest
<1>15. FilesHonest'
  BY <1>3 DEF FilesHonest
<1>16. RecordHonest'
  BY <1>3 DEF RecordHonest, Tools
<1> QED BY <1>3, <1>12, <1>13, <1>14, <1>15, <1>16

\* The invariant holds when an extraction starts.
LEMMA ExtractionStarts ==
    ASSUME exInit
    PROVE  ExtractionInv
<1>1. PICK in \in Inputs : exStart(in)
  BY DEF exInit
<1>2. /\ input = in /\ now = "given" /\ bound = "none" /\ at = "hash"
      /\ saw = [t \in Tools \cup {"inventory"} |-> {}]
      /\ pipe = NoPipe /\ logs = [t \in Tools |-> NotRecorded] /\ report = NoReport
  BY <1>1 DEF exStart
<1>3. exTypeOK
  <2>1. pipe.cut = 0 /\ pipe.read = 0 /\ pipe \in [read : Nat, cut : Nat, marks : Nat, exited : BOOLEAN]
    BY <1>2 DEF NoPipe
  <2>2. Scanned(0) = 0 /\ MaxLine \in Nat
    BY ScannedIs, ExtractionInputs
  <2>3. logs \in [Tools -> [complete : BOOLEAN, marks : Nat]]
    BY <1>2 DEF NotRecorded
  <2>4. saw \in [Tools \cup {"inventory"} -> SUBSET {"given", "other"}]
    BY <1>2
  <2> QED BY <1>2, <2>1, <2>2, <2>3, <2>4 DEF exTypeOK, NoReport
<1>4. PipeHonest
  BY <1>2 DEF PipeHonest, Tools
<1>5. LogsHonest
  BY <1>2 DEF LogsHonest, NotRecorded
<1>6. FilesHonest
  BY <1>2 DEF FilesHonest, Later
<1>7. RecordHonest
  BY <1>2 DEF RecordHonest, NoReport
<1> QED BY <1>1, <1>2, <1>3, <1>4, <1>5, <1>6, <1>7 DEF ExtractionInv

\* A replacement of the file, while it is not told, is not of the file that is bound.
LEMMA ReplaceKeeps ==
    ASSUME ExtractionInv, Replace
    PROVE  ExtractionInv'
<1> USE DEF ExtractionInv
<1>1. at # "done" /\ now = "given" /\ now' = "other" /\ UNCHANGED <<input, bound, at, saw, pipe, logs, report>>
  BY DEF Replace
<1>2. exTypeOK'
  BY <1>1 DEF exTypeOK, Scanned
<1>3. PipeHonest' /\ LogsHonest'
  BY <1>1 DEF PipeHonest, LogsHonest
<1>4. bound # "other"
  BY <1>1 DEF FilesHonest
<1>5. FilesHonest'
  BY <1>1, <1>4 DEF FilesHonest
<1>6. RecordHonest'
  BY <1>1, <1>4 DEF RecordHonest, RecordOf, ReviewState
<1> QED BY <1>1, <1>2, <1>3, <1>5, <1>6

\* Whoever binds a file finds that only that one was there, or that nobody has read.
LEMMA HashKeeps ==
    ASSUME ExtractionInv, Hash
    PROVE  ExtractionInv'
<1> USE DEF ExtractionInv
<1>1. at = "hash" /\ bound' = now /\ at' = "validate" /\ UNCHANGED <<input, now, saw, pipe, logs, report>>
  BY DEF Hash
<1>2. exTypeOK'
  BY <1>1 DEF exTypeOK, Scanned
<1>3. PipeHonest' /\ LogsHonest'
  BY <1>1 DEF PipeHonest, LogsHonest, Tools
<1>4. FilesHonest'
  BY <1>1 DEF FilesHonest, Later, exTypeOK
<1>5. RecordHonest'
  BY <1>1 DEF RecordHonest
<1> QED BY <1>1, <1>2, <1>3, <1>4, <1>5

\* A tool begins with a log of which nothing is read.
LEMMA ToolBegins ==
    ASSUME input \in Inputs, input.kind = "apk", NEW tool \in Tools
    PROVE  LET log == input.logs[tool]
           IN NoPipe.read <= Len(log) /\ Apart(log, NoPipe.cut) /\ NoneMarked(log, NoPipe.cut)
<1>1. input.logs[tool] \in Seq(STRING) /\ Len(input.logs[tool]) \in Nat
  BY InputIs
<1>2. NoPipe.read = 0 /\ NoPipe.cut = 0
  BY DEF NoPipe
<1> QED BY <1>1, <1>2, CleanAtStart

\* A file that is validated while it is the bound one is valid.
LEMMA ValidateKeeps ==
    ASSUME ExtractionInv, Validate
    PROVE  ExtractionInv'
<1> USE DEF ExtractionInv
<1>1. at = "validate" /\ UNCHANGED <<input, now, bound, saw, pipe, logs>>
  BY DEF Validate
<1>2. pipe = NoPipe /\ bound # "none" /\ report.end # "recorded"
  BY <1>1 DEF PipeHonest, FilesHonest, RecordHonest, Tools
<1>3. CASE Valid(Present, input.kind)
  <2>1. at' = (IF input.kind = "apk" THEN "apktool" ELSE "inventory") /\ UNCHANGED report
    BY <1>3 DEF Validate
  <2>2. exTypeOK'
    BY <1>1, <2>1 DEF exTypeOK, Scanned, Tools
  <2>3. LogsHonest'
    BY <1>1 DEF LogsHonest
  <2>4. PipeHonest'
    <3>1. CASE input.kind = "apk"
      <4>1. at' = "apktool" /\ "apktool" \in Tools
        BY <2>1, <3>1 DEF Tools
      <4> QED BY <1>1, <1>2, <3>1, <4>1, ToolBegins DEF PipeHonest
    <3>2. CASE input.kind # "apk"
      BY <1>1, <1>2, <2>1, <3>2 DEF PipeHonest, Tools
    <3> QED BY <3>1, <3>2
  <2>5. FilesHonest'
    BY <1>1, <1>2, <1>3, <2>1 DEF FilesHonest, Present
  <2>6. RecordHonest'
    BY <1>1, <1>2, <2>1 DEF RecordHonest
  <2> QED BY <1>1, <2>2, <2>3, <2>4, <2>5, <2>6
<1>4. CASE ~Valid(Present, input.kind)
  <2>1. at' = "done" /\ report' = Refused
    BY <1>4 DEF Validate
  <2>2. exTypeOK'
    BY <1>1, <2>1 DEF exTypeOK, Scanned, Refused, NoReport
  <2>3. LogsHonest' /\ PipeHonest'
    BY <1>1, <1>2, <2>1 DEF LogsHonest, PipeHonest, Tools
  <2>4. FilesHonest'
    BY <1>1, <2>1 DEF FilesHonest, Later
  <2>5. RecordHonest'
    BY <1>1, <2>1 DEF RecordHonest, Refused, NoReport
  <2> QED BY <1>1, <2>2, <2>3, <2>4, <2>5
<1> QED BY <1>3, <1>4

\* A tool reads what is there.
LEMMA ToolReadsKeeps ==
    ASSUME ExtractionInv, NEW tool \in Tools, ToolReads(tool)
    PROVE  ExtractionInv'
<1> USE DEF ExtractionInv
<1>1. /\ at = tool /\ saw' = [saw EXCEPT ![tool] = @ \cup {now}]
      /\ UNCHANGED <<input, now, bound, at, pipe, logs, report>>
  BY DEF ToolReads
<1>2. at \in Tools /\ at \notin {"hash", "compare", "record", "done"} /\ report.end # "recorded"
  BY <1>1 DEF Tools, RecordHonest
<1>3. /\ DOMAIN saw' = DOMAIN saw /\ tool \in DOMAIN saw
      /\ \A r \in DOMAIN saw : saw'[r] = IF r = tool THEN saw[r] \cup {now} ELSE saw[r]
  BY <1>1 DEF exTypeOK
<1>4. exTypeOK'
  BY <1>1 DEF exTypeOK, Scanned
<1>5. PipeHonest'
  BY <1>1, <1>2, <1>3 DEF PipeHonest
<1>6. LogsHonest'
  BY <1>1 DEF LogsHonest
<1>7. FilesHonest'
  <2>1. \A f \in {"given", "other"} : now = f /\ (\A r \in DOMAIN saw : saw[r] \subseteq {f})
                                        => \A r \in DOMAIN saw' : saw'[r] \subseteq {f}
    BY <1>3
  <2>2. \A r \in DOMAIN saw : saw[r] # {} => saw'[r] # {}
    BY <1>3
  <2>3. "apktool" \in DOMAIN saw
    BY DEF exTypeOK, Tools
  <2> QED BY <1>1, <1>2, <2>1, <2>2, <2>3 DEF FilesHonest, Tools
<1>8. RecordHonest'
  BY <1>1, <1>2 DEF RecordHonest
<1> QED BY <1>1, <1>4, <1>5, <1>6, <1>7, <1>8

\* A tool that exits has read a file.
LEMMA ToolExitsKeeps ==
    ASSUME ExtractionInv, NEW tool \in Tools, ToolExits(tool)
    PROVE  ExtractionInv'
<1> USE DEF ExtractionInv
<1>1. /\ at = tool /\ saw[tool] # {} /\ pipe' = [pipe EXCEPT !.exited = TRUE]
      /\ UNCHANGED <<input, now, bound, at, saw, logs, report>>
  BY DEF ToolExits
<1>2. /\ pipe'.read = pipe.read /\ pipe'.cut = pipe.cut /\ pipe'.marks = pipe.marks
      /\ pipe' \in [read : Nat, cut : Nat, marks : Nat, exited : BOOLEAN]
  BY <1>1 DEF exTypeOK
<1>3. exTypeOK'
  BY <1>1, <1>2 DEF exTypeOK, Scanned
<1>4. PipeHonest'
  BY <1>1, <1>2 DEF PipeHonest
<1>5. LogsHonest'
  BY <1>1 DEF LogsHonest
<1>6. FilesHonest'
  BY <1>1 DEF FilesHonest
<1>7. RecordHonest'
  BY <1>1 DEF RecordHonest, Tools
<1> QED BY <1>1, <1>3, <1>4, <1>5, <1>6, <1>7

\* An extraction that is refused records nothing.
LEMMA RefusalKeeps ==
    ASSUME ExtractionInv, at # "hash", at' = "done", report' = Refused, pipe' = NoPipe,
           UNCHANGED <<input, now, bound, saw, logs>>
    PROVE  ExtractionInv'
<1> USE DEF ExtractionInv
<1>1. exTypeOK'
  <2>1. Scanned(0) = 0 /\ MaxLine \in Nat
    BY ScannedIs, ExtractionInputs
  <2>2. pipe'.cut = 0 /\ pipe'.read = 0 /\ pipe' \in [read : Nat, cut : Nat, marks : Nat, exited : BOOLEAN]
    BY DEF NoPipe
  <2> QED BY <2>1, <2>2 DEF exTypeOK, Refused, NoReport
<1>2. PipeHonest' /\ LogsHonest'
  BY DEF PipeHonest, LogsHonest, Tools
<1>3. FilesHonest'
  BY DEF FilesHonest, Later
<1>4. RecordHonest'
  BY DEF RecordHonest, Refused, NoReport
<1> QED BY <1>1, <1>2, <1>3, <1>4

\* A tool whose log is over has read a file, and the next one begins with a log of
\* which nothing is read.
LEMMA NextToolKeeps ==
    ASSUME ExtractionInv, NEW tool \in Tools, at = tool, pipe.exited, NEW log,
           logs' = [logs EXCEPT ![tool] = log], log \in [complete : BOOLEAN, marks : Nat],
           log.complete /\ log.marks = 0 => Unmarked(input.logs[tool]),
           pipe' = NoPipe, at' = Following(tool), UNCHANGED <<input, now, bound, saw, report>>
    PROVE  ExtractionInv'
<1> USE DEF ExtractionInv
<1>1. input.kind = "apk" /\ saw[tool] # {} /\ report.end # "recorded"
  <2>1. pipe # NoPipe
    BY DEF NoPipe
  <2> QED BY <2>1 DEF PipeHonest, RecordHonest, Tools
<1>2. (tool = "apktool" /\ at' = "jadx") \/ (tool = "jadx" /\ at' = "check")
  BY DEF Following, Tools
<1>3. /\ logs' \in [Tools -> [complete : BOOLEAN, marks : Nat]]
      /\ \A t \in Tools : logs'[t] = IF t = tool THEN log ELSE logs[t]
  BY DEF exTypeOK
<1>4. exTypeOK'
  <2>1. Scanned(0) = 0 /\ MaxLine \in Nat
    BY ScannedIs, ExtractionInputs
  <2>2. pipe'.cut = 0 /\ pipe'.read = 0 /\ pipe' \in [read : Nat, cut : Nat, marks : Nat, exited : BOOLEAN]
    BY DEF NoPipe
  <2> QED BY <1>2, <1>3, <2>1, <2>2 DEF exTypeOK, Tools
<1>5. PipeHonest'
  <2>1. at' \in Tools => NoPipe.read <= Len(input'.logs[at']) /\ Apart(input'.logs[at'], NoPipe.cut)
                         /\ NoneMarked(input'.logs[at'], NoPipe.cut)
    BY <1>1, ToolBegins
  <2> QED BY <1>1, <1>2, <2>1 DEF PipeHonest
<1>6. LogsHonest'
  BY <1>3 DEF LogsHonest
<1>7. FilesHonest'
  BY <1>1, <1>2 DEF FilesHonest, Tools, Later
<1>8. RecordHonest'
  BY <1>1, <1>2 DEF RecordHonest
<1> QED BY <1>4, <1>5, <1>6, <1>7, <1>8

\* A log whose pipe stays open is not complete.
LEMMA AbandonedKeeps ==
    ASSUME ExtractionInv, NEW tool \in Tools, DrainAbandoned(tool)
    PROVE  ExtractionInv'
<1>1. NotRecorded \in [complete : BOOLEAN, marks : Nat] /\ ~NotRecorded.complete
  BY DEF NotRecorded
<1> HIDE DEF NotRecorded
<1> QED BY <1>1, NextToolKeeps DEF DrainAbandoned

\* A log that is read to its end is classified to its end, unless it is over the limit.
LEMMA DrainKeeps ==
    ASSUME ExtractionInv, NEW tool \in Tools, DrainEnds(tool)
    PROVE  ExtractionInv'
<1> DEFINE log == input.logs[tool]
           to == Scanned(pipe.read)
           parts(final) == Cuts(log, pipe.cut, to, final)
           end(final) == [complete |-> pipe.read <= MaxScan,
                          marks |-> pipe.marks + MarkedLines(log, pipe.cut, parts(final))]
<1>1. log \in Seq(STRING) /\ Len(log) \in Nat
  BY InputIs DEF ExtractionInv
<1>2. at = tool /\ pipe.exited /\ pipe.read = Len(log) /\ pipe' = NoPipe /\ at' = Following(tool)
      /\ UNCHANGED <<input, now, bound, saw, report>>
  BY DEF DrainEnds, AtEnd
<1>3. pipe.cut \in Nat /\ pipe.marks \in Nat /\ pipe.cut <= to
  BY DEF ExtractionInv, exTypeOK
<1>4. Apart(log, pipe.cut) /\ (pipe.marks = 0 => NoneMarked(log, pipe.cut))
  BY <1>2 DEF ExtractionInv, PipeHonest
<1>5. to \in Nat /\ to <= Len(log) /\ (Len(log) <= MaxScan => to = Len(log))
  BY <1>1, <1>2, ScannedIs
<1> DEFINE from == pipe.cut
           marks == pipe.marks
<1> HIDE DEF log, to, from, marks
<1>6. /\ log \in Seq(STRING) /\ from \in Nat /\ to \in Nat /\ from <= to /\ to <= Len(log)
      /\ Apart(log, from) /\ marks \in Nat /\ (marks = 0 => NoneMarked(log, from))
  BY <1>1, <1>3, <1>4, <1>5 DEF from, marks
<1>7. ASSUME NEW final \in BOOLEAN, final
      PROVE  /\ marks + MarkedLines(log, from, Cuts(log, from, to, final)) \in Nat
             /\ marks + MarkedLines(log, from, Cuts(log, from, to, final)) = 0 /\ Len(log) <= MaxScan
                  => Unmarked(log)
  <2> DEFINE cuts == Cuts(log, from, to, final)
  <2>1. cuts \in SUBSET (from + 1 .. to)
    BY <1>6, CutsAre
  <2>2. MarkedLines(log, from, cuts) \in Nat
    BY <1>6, <2>1, MarkedLinesCounted
  <2>3. ASSUME Len(log) <= MaxScan, marks + MarkedLines(log, from, cuts) = 0
        PROVE  Unmarked(log)
    <3>1. final => to = Len(log)
      BY <1>5, <2>3
    <3>2. LET some == Cuts(log, from, to, final)
              last == Max({from} \cup some)
              sum == marks + MarkedLines(log, from, some)
          IN /\ last \in Nat /\ last <= to /\ to - last <= MaxLine /\ Apart(log, last)
             /\ final => last = to
             /\ sum \in Nat /\ (sum = 0 => NoneMarked(log, last))
      BY <1>6, <3>1, ClassifiedPart
    <3>3. NoneMarked(log, Len(log))
      BY <1>7, <2>3, <3>1, <3>2
    <3> QED BY <1>6, <2>3, <3>3, CleanToTheEnd
  <2> HIDE DEF cuts
  <2>4. marks + MarkedLines(log, from, cuts) \in Nat
    BY <1>6, <2>2
  <2> QED BY <2>3, <2>4 DEF cuts
<1>8. ASSUME NEW final \in BOOLEAN, final
      PROVE  /\ end(final) \in [complete : BOOLEAN, marks : Nat]
             /\ end(final).complete /\ end(final).marks = 0 => Unmarked(log)
  <2>1. (pipe.read <= MaxScan) \in BOOLEAN /\ (pipe.read <= MaxScan <=> Len(log) <= MaxScan)
    BY <1>2 DEF log
  <2>2. parts(final) = Cuts(log, from, to, final)
    BY DEF from
  <2> HIDE DEF parts
  <2>3. /\ pipe.marks + MarkedLines(log, pipe.cut, parts(final)) \in Nat
        /\ pipe.marks + MarkedLines(log, pipe.cut, parts(final)) = 0 /\ Len(log) <= MaxScan => Unmarked(log)
    BY <1>7, <1>8, <2>2 DEF from, marks
  <2> QED BY <2>1, <2>3
<1>9. end(TRUE) \in [complete : BOOLEAN, marks : Nat] /\ (end(TRUE).complete /\ end(TRUE).marks = 0 => Unmarked(log))
  BY <1>8, Zenon
<1>10. logs' = [logs EXCEPT ![tool] = end(TRUE)]
  BY DEF DrainEnds, log, to
<1> HIDE DEF end
<1> QED BY <1>2, <1>9, <1>10, NextToolKeeps DEF log

\* A comparison of the digests that finds none has the file that is bound at the path.
LEMMA DigestKeeps ==
    ASSUME ExtractionInv, CheckTools \/ CheckInventory
    PROVE  ExtractionInv'
<1>1. CASE now = bound
  <2> USE DEF ExtractionInv
  <2>1. /\ (at = "check" /\ at' = "inventory") \/ (at = "compare" /\ at' = "record")
        /\ UNCHANGED <<input, now, bound, saw, pipe, logs, report>>
    BY <1>1 DEF CheckTools, CheckInventory, SameDigest
  <2>2. exTypeOK'
    BY <2>1 DEF exTypeOK, Scanned
  <2>3. PipeHonest' /\ LogsHonest'
    BY <2>1 DEF PipeHonest, LogsHonest, Tools
  <2>4. FilesHonest'
    BY <2>1 DEF FilesHonest, Later
  <2>5. RecordHonest'
    BY <1>1, <2>1 DEF RecordHonest, RecordOf, ReviewState
  <2> QED BY <2>1, <2>2, <2>3, <2>4, <2>5
<1>2. CASE now # bound
  <2>1. at \in {"check", "compare"} /\ at' = "done" /\ report' = Refused /\ UNCHANGED <<input, now, bound, saw, pipe, logs>>
    BY <1>2 DEF CheckTools, CheckInventory, SameDigest
  <2>2. pipe = NoPipe
    BY <2>1 DEF ExtractionInv, PipeHonest, Tools
  <2> QED BY <2>1, <2>2, RefusalKeeps
<1> QED BY <1>1, <1>2

\* An inventory that is taken of the bound file is of the file that the tools read.
LEMMA InventoryKeeps ==
    ASSUME ExtractionInv, TakeInventory
    PROVE  ExtractionInv'
<1> USE DEF ExtractionInv
<1>1. /\ at = "inventory" /\ at' = "compare" /\ saw' = [saw EXCEPT !["inventory"] = {now}]
      /\ UNCHANGED <<input, now, bound, pipe, logs>>
  BY DEF TakeInventory
<1>2. /\ input.kind = "apk" =>
           report' = [report EXCEPT !.inventory = Inventory(Present, input.tree), !.review = ReviewState]
      /\ input.kind # "apk" =>
           report' = [report EXCEPT !.status = BundleStatus(Present), !.rows = BundleRows(Present)]
  BY DEF TakeInventory
<1>3. DOMAIN report = {"end", "inventory", "review", "status", "rows"} /\ report.end # "recorded"
  BY <1>1 DEF RecordHonest, NoReport
<1>4. /\ DOMAIN report' = DOMAIN report /\ report'.end = report.end
      /\ input.kind = "apk" =>
           report'.inventory = Inventory(Present, input.tree) /\ report'.review = ReviewState
      /\ input.kind # "apk" =>
           report'.status = BundleStatus(Present) /\ report'.rows = BundleRows(Present)
  BY <1>2, <1>3
<1>5. /\ DOMAIN saw' = DOMAIN saw /\ "inventory" \in DOMAIN saw /\ Tools \in SUBSET DOMAIN saw
      /\ \A r \in DOMAIN saw : saw'[r] = IF r = "inventory" THEN {now} ELSE saw[r]
      /\ \A t \in Tools : saw'[t] = saw[t]
  BY <1>1 DEF exTypeOK, Tools
<1>6. exTypeOK'
  <2>1. now \in {"given", "other"} /\ saw' \in [Tools \cup {"inventory"} -> SUBSET {"given", "other"}]
    BY <1>1 DEF exTypeOK
  <2> QED BY <1>1, <1>4, <2>1 DEF exTypeOK, Scanned
<1>7. PipeHonest' /\ LogsHonest'
  BY <1>1 DEF PipeHonest, LogsHonest, Tools
<1>8. FilesHonest'
  BY <1>1, <1>5 DEF FilesHonest, Later
<1>9. RecordHonest'
  <2>1. ASSUME now = bound
        PROVE  /\ saw'["inventory"] = {bound} /\ Valid(input[bound], input.kind)
               /\ input.kind = "apk" => \A t \in Tools : saw'[t] = {bound}
    <3>1. \A r \in DOMAIN saw : saw[r] \subseteq {bound}
      BY <2>1, OnlyBoundSeen
    <3>2. input.kind = "apk" => \A t \in Tools : saw[t] # {}
      BY <1>1 DEF FilesHonest
    <3>3. Valid(input[bound], input.kind)
      BY <1>1, <2>1 DEF FilesHonest, Later
    <3> QED BY <1>5, <2>1, <3>1, <3>2, <3>3
  <2>2. ReviewState' = ReviewState
    BY <1>1 DEF ReviewState
  <2>3. now = bound => RecordOf(bound)'
    BY <1>1, <1>4, <2>1, <2>2 DEF RecordOf, Present, Tools
  <2> QED BY <1>1, <1>3, <1>4, <2>3 DEF RecordHonest
<1> QED BY <1>1, <1>6, <1>7, <1>8, <1>9

\* The record is made of what was compared.
LEMMA RecordKeeps ==
    ASSUME ExtractionInv, RecordProvenance
    PROVE  ExtractionInv'
<1> USE DEF ExtractionInv
<1>1. /\ at = "record" /\ at' = "done" /\ report' = [report EXCEPT !.end = "recorded"]
      /\ UNCHANGED <<input, now, bound, saw, pipe, logs>>
  BY DEF RecordProvenance
<1>2. DOMAIN report = {"end", "inventory", "review", "status", "rows"}
  BY DEF RecordHonest, NoReport
<1>3. /\ DOMAIN report' = DOMAIN report /\ report'.end = "recorded"
      /\ report'.inventory = report.inventory /\ report'.review = report.review
      /\ report'.status = report.status /\ report'.rows = report.rows
  BY <1>1, <1>2
<1>4. exTypeOK'
  BY <1>1, <1>3 DEF exTypeOK, Scanned
<1>5. PipeHonest' /\ LogsHonest' /\ FilesHonest'
  BY <1>1 DEF PipeHonest, LogsHonest, FilesHonest, Tools, Later
<1>6. RecordHonest'
  <2>1. RecordOf(bound) /\ ReviewState' = ReviewState
    BY <1>1 DEF RecordHonest, ReviewState
  <2>2. RecordOf(bound)'
    BY <1>1, <1>3, <2>1 DEF RecordOf
  <2> QED BY <1>1, <1>3, <2>2 DEF RecordHonest
<1> QED BY <1>1, <1>4, <1>5, <1>6

\* Every step of an extraction keeps the invariant.
LEMMA ExtractionStep ==
    ASSUME ExtractionInv, exNext \/ UNCHANGED exVars
    PROVE  ExtractionInv'
<1>1. CASE UNCHANGED exVars
  <2> USE <1>1 DEF exVars
  <2>1. exTypeOK'
    BY DEF ExtractionInv, exTypeOK, Scanned
  <2>2. PipeHonest' /\ LogsHonest' /\ FilesHonest'
    BY DEF ExtractionInv, PipeHonest, LogsHonest, FilesHonest
  <2>3. RecordHonest'
    BY DEF ExtractionInv, RecordHonest, RecordOf, ReviewState
  <2> QED BY <2>1, <2>2, <2>3 DEF ExtractionInv
<1>2. CASE Replace
  BY <1>2, ReplaceKeeps
<1>3. CASE Hash
  BY <1>3, HashKeeps
<1>4. CASE Validate
  BY <1>4, ValidateKeeps
<1>5. ASSUME NEW tool \in Tools, ToolReads(tool) PROVE ExtractionInv'
  BY <1>5, ToolReadsKeeps
<1>6. ASSUME NEW tool \in Tools, ReadChunk(tool) PROVE ExtractionInv'
  BY <1>6, ChunkKeeps
<1>7. ASSUME NEW tool \in Tools, ToolExits(tool) PROVE ExtractionInv'
  BY <1>7, ToolExitsKeeps
<1>8. ASSUME NEW tool \in Tools, ToolFails(tool) PROVE ExtractionInv'
  BY <1>8, RefusalKeeps DEF ToolFails, Tools
<1>9. ASSUME NEW tool \in Tools, DrainEnds(tool) PROVE ExtractionInv'
  BY <1>9, DrainKeeps
<1>10. ASSUME NEW tool \in Tools, DrainAbandoned(tool) PROVE ExtractionInv'
  BY <1>10, AbandonedKeeps
<1>11. CASE CheckTools \/ CheckInventory
  BY <1>11, DigestKeeps
<1>12. CASE TakeInventory
  BY <1>12, InventoryKeeps
<1>13. CASE RecordProvenance
  BY <1>13, RecordKeeps
<1> QED BY <1>1, <1>2, <1>3, <1>4, <1>5, <1>6, <1>7, <1>8, <1>9, <1>10, <1>11, <1>12, <1>13 DEF exNext

\* The types of an extraction, with the reader of a log never more than a line behind
\* what it has read (_drain_tool_log).
THEOREM ExtractionTyped == exSpec => []exTypeOK
<1>1. exInit => ExtractionInv
  BY ExtractionStarts
<1>2. ExtractionInv /\ [exNext]_exVars => ExtractionInv'
  BY ExtractionStep
<1>3. ExtractionInv => exTypeOK
  BY DEF ExtractionInv
<1> QED BY <1>1, <1>2, <1>3, PTL DEF exSpec

\* What an extraction records is true of the file whose digest it carries, for every
\* file, every pair of logs and every moment of the one replacement (apk_extractor.py:696).
THEOREM ExtractionTrue == exSpec => []ExtractionHonest
<1>1. exInit => ExtractionInv
  BY ExtractionStarts
<1>2. ExtractionInv /\ [exNext]_exVars => ExtractionInv'
  BY ExtractionStep
<1>3. ExtractionInv => ExtractionHonest
  BY HonestAtTheEnd
<1> QED BY <1>1, <1>2, <1>3, PTL DEF exSpec

-----------------------------------------------------------------------------
(***************************************************************************)
(* Lists of names: the order of their places, and what is kept of them.    *)
(***************************************************************************)
Place == Int \X Int \X Int

\* The places stand in one order.
LEMMA PlacesInOrder ==
    ASSUME NEW p \in Place, NEW q \in Place
    PROVE  /\ ~Before(p, p) /\ ~(Before(p, q) /\ Before(q, p))
           /\ p # q => Before(p, q) \/ Before(q, p)
           /\ \A r \in Place : Before(p, q) /\ Before(q, r) => Before(p, r)
<1>1. \A r \in Place : r[1] \in Int /\ r[2] \in Int /\ r[3] \in Int /\ r = <<r[1], r[2], r[3]>>
  BY DEF Place
<1>2. p # q => p[1] # q[1] \/ p[2] # q[2] \/ p[3] # q[3]
  BY <1>1
<1>3. ASSUME NEW r \in Place, Before(p, q), Before(q, r) PROVE Before(p, r)
  <2>1. /\ p[1] \in Int /\ p[2] \in Int /\ p[3] \in Int /\ q[1] \in Int /\ q[2] \in Int /\ q[3] \in Int
        /\ r[1] \in Int /\ r[2] \in Int /\ r[3] \in Int
    BY <1>1
  <2> QED BY <1>3, <2>1, SMT DEF Before
<1>4. /\ p[1] \in Int /\ p[2] \in Int /\ p[3] \in Int /\ q[1] \in Int /\ q[2] \in Int /\ q[3] \in Int
  BY <1>1
<1>5. ~Before(p, p) /\ ~(Before(p, q) /\ Before(q, p))
  BY <1>4 DEF Before
<1>6. p # q => Before(p, q) \/ Before(q, p)
  BY <1>2, <1>4 DEF Before
<1> QED BY <1>3, <1>5, <1>6

\* The places up to one are fewer than those up to a later one.
LEMMA UptoGrows ==
    ASSUME NEW P \in SUBSET Place, IsFiniteSet(P), NEW p \in P
    PROVE  /\ p \in Upto(P, p) /\ IsFiniteSet(Upto(P, p)) /\ Cardinality(Upto(P, p)) \in Nat
           /\ Cardinality(Upto(P, p)) <= Cardinality(P)
           /\ \A q \in P : Before(q, p) => Cardinality(Upto(P, q)) < Cardinality(Upto(P, p))
<1>1. \A q \in P : Upto(P, q) \in SUBSET P
  BY DEF Upto
<1>2. \A q \in P : IsFiniteSet(Upto(P, q)) /\ Cardinality(Upto(P, q)) \in Nat
                   /\ Cardinality(Upto(P, q)) <= Cardinality(P)
  BY <1>1, FS_Subset, FS_CardinalityType
<1>3. p \in Upto(P, p)
  BY PlacesInOrder DEF Upto
<1>4. ASSUME NEW q \in P, Before(q, p) PROVE Cardinality(Upto(P, q)) < Cardinality(Upto(P, p))
  <2>1. p \notin Upto(P, q)
    BY <1>4 DEF Upto
  <2>2. ASSUME NEW r \in Upto(P, q) PROVE r \in Upto(P, p)
    <3>1. r \in P /\ ~Before(q, r)
      BY DEF Upto
    <3>2. r = q \/ Before(r, q)
      BY <3>1, PlacesInOrder
    <3>3. Before(r, p)
      BY <1>4, <3>1, <3>2, PlacesInOrder
    <3>4. ~Before(p, r)
      BY <3>1, <3>3, PlacesInOrder
    <3> QED BY <3>1, <3>4 DEF Upto
  <2>3. Upto(P, q) \in SUBSET Upto(P, p) /\ Upto(P, q) # Upto(P, p)
    BY <1>3, <2>1, <2>2
  <2>4. IsFiniteSet(Upto(P, p)) /\ Cardinality(Upto(P, p)) \in Nat /\ Cardinality(Upto(P, q)) \in Nat
    BY <1>2
  <2>5. Cardinality(Upto(P, q)) <= Cardinality(Upto(P, p)) /\ Cardinality(Upto(P, q)) # Cardinality(Upto(P, p))
    BY <2>3, <2>4, FS_Subset
  <2> QED BY <2>4, <2>5
<1> QED BY <1>2, <1>3, <1>4

\* Among places there is a first and a last one.
LEMMA FirstAndLast ==
    ASSUME NEW P \in SUBSET Place, IsFiniteSet(P), NEW T \in SUBSET P, T # {}
    PROVE  /\ \E p \in T : \A q \in T : q = p \/ Before(p, q)
           /\ \E p \in T : \A q \in T : q = p \/ Before(q, p)
<1> DEFINE size == [p \in P |-> Cardinality(Upto(P, p))]
           sizes == {size[p] : p \in T}
<1>1. \A p \in P : size[p] \in Nat /\ size[p] <= Cardinality(P)
  BY UptoGrows
<1>2. \A p, q \in P : Before(q, p) => size[q] < size[p]
  BY UptoGrows
<1>3. Cardinality(P) \in Nat
  BY FS_CardinalityType
<1> HIDE DEF size
<1>4. sizes \in SUBSET Nat /\ sizes # {} /\ \A m \in sizes : m <= Cardinality(P)
  BY <1>1
<1>5. PICK m \in sizes : \A n \in sizes : m <= n
  BY <1>4, Least
<1>6. Max(sizes) \in sizes /\ \A n \in sizes : n <= Max(sizes)
  BY <1>3, <1>4, Greatest
<1>7. \E p \in T : \A q \in T : q = p \/ Before(p, q)
  <2>1. PICK p \in T : m = size[p]
    OBVIOUS
  <2>2. ASSUME NEW q \in T PROVE q = p \/ Before(p, q)
    <3>1. size[p] <= size[q] /\ size[p] \in Nat /\ size[q] \in Nat
      BY <1>1, <1>5, <2>1
    <3>2. ~Before(q, p)
      BY <1>2, <3>1
    <3> QED BY <3>2, PlacesInOrder
  <2> QED BY <2>2
<1>8. \E p \in T : \A q \in T : q = p \/ Before(q, p)
  <2>1. PICK p \in T : Max(sizes) = size[p]
    BY <1>6
  <2>2. ASSUME NEW q \in T PROVE q = p \/ Before(q, p)
    <3>1. size[q] <= size[p] /\ size[p] \in Nat /\ size[q] \in Nat
      BY <1>1, <1>6, <2>1
    <3>2. ~Before(p, q)
      BY <1>2, <3>1
    <3> QED BY <3>2, PlacesInOrder
  <2> QED BY <2>2
<1> QED BY <1>7, <1>8

\* What is kept of a list is all of it, or as many names as the limit allows.
LEMMA CutIs ==
    ASSUME NEW list, DOMAIN list \in SUBSET Place, IsFiniteSet(DOMAIN list), NEW n \in Nat
    PROVE  /\ DOMAIN Cut(list, n) \in SUBSET DOMAIN list /\ IsFiniteSet(DOMAIN Cut(list, n))
           /\ Range(Cut(list, n)) \subseteq Range(list)
           /\ IsFiniteSet(Range(Cut(list, n)))
           /\ NamesKept(Cut(list, n)) \in Nat /\ NamesKept(Cut(list, n)) <= n
           /\ Range(Cut(list, n)) = Range(list) \/ NamesKept(Cut(list, n)) = n
<1> DEFINE D == DOMAIN list
           kept == {p \in D : Cardinality(NamesUpto(list, p)) <= n}
           some == {list[p] : p \in kept}
<1>1. Cut(list, n) = [p \in kept |-> list[p]]
  BY DEF Cut, Restrict
<1>2. DOMAIN Cut(list, n) = kept /\ Range(Cut(list, n)) = some /\ Range(list) = {list[p] : p \in D}
  BY <1>1 DEF Range
<1>3. IsFiniteSet(kept) /\ kept \in SUBSET D
  BY FS_Subset
<1>4. IsFiniteSet(some)
  <2> HIDE DEF kept
  <2> QED BY <1>3, ImageFinite
<1>5. \A p \in D : NamesUpto(list, p) = {list[q] : q \in Upto(D, p)}
  BY DEF NamesUpto
<1>6. \A p \in D : IsFiniteSet(NamesUpto(list, p)) /\ Cardinality(NamesUpto(list, p)) \in Nat
  <2>1. ASSUME NEW p \in D PROVE IsFiniteSet(NamesUpto(list, p))
    <3>1. IsFiniteSet(Upto(D, p))
      BY UptoGrows
    <3> QED BY <1>5, <3>1, ImageFinite
  <2> QED BY <2>1, FS_CardinalityType
<1>7. Cardinality(some) \in Nat
  BY <1>4, FS_CardinalityType
<1>8. Cardinality(some) <= n
  <2>1. CASE kept = {}
    <3>1. some = {}
      BY <2>1
    <3> QED BY <3>1, FS_EmptySet
  <2>2. CASE kept # {}
    <3>1. PICK p \in kept : \A q \in kept : q = p \/ Before(q, p)
      <4> HIDE DEF kept
      <4> QED BY <1>3, <2>2, FirstAndLast
    <3>2. p \in D /\ Cardinality(NamesUpto(list, p)) <= n
      OBVIOUS
    <3>3. \A q \in kept : q \in Upto(D, p)
      BY <1>3, <3>1, PlacesInOrder DEF Upto
    <3>4. some \in SUBSET NamesUpto(list, p)
      BY <1>5, <3>2, <3>3
    <3>5. Cardinality(some) <= Cardinality(NamesUpto(list, p))
      <4> HIDE DEF some
      <4> QED BY <1>6, <3>2, <3>4, FS_Subset
    <3> QED BY <1>6, <1>7, <3>2, <3>5
  <2> QED BY <2>1, <2>2
<1>9. some = {list[p] : p \in D} \/ Cardinality(some) = n
  <2> DEFINE rest == D \ kept
  <2>1. CASE rest = {}
    BY <2>1
  <2>2. CASE rest # {}
    <3>1. PICK p \in rest : \A q \in rest : q = p \/ Before(p, q)
      <4> HIDE DEF rest
      <4>1. rest \in SUBSET D
        BY DEF rest
      <4> QED BY <2>2, <4>1, FirstAndLast
    <3>2. p \in D /\ ~(Cardinality(NamesUpto(list, p)) <= n)
      OBVIOUS
    <3>3. ASSUME NEW q \in Upto(D, p) PROVE list[q] \in some \cup {list[p]}
      <4>1. q \in D /\ ~Before(p, q)
        BY DEF Upto
      <4>2. q = p \/ q \in kept
        BY <3>1, <4>1
      <4> QED BY <4>2
    <3>4. NamesUpto(list, p) \in SUBSET (some \cup {list[p]})
      BY <1>5, <3>2, <3>3
    <3>5. IsFiniteSet(some \cup {list[p]}) /\ Cardinality(some \cup {list[p]}) <= Cardinality(some) + 1
      <4> HIDE DEF some
      <4>1. /\ IsFiniteSet(some \cup {list[p]})
            /\ Cardinality(some \cup {list[p]}) =
                 IF list[p] \in some THEN Cardinality(some) ELSE Cardinality(some) + 1
        BY <1>4, FS_AddElement
      <4> QED BY <1>7, <4>1
    <3>6. Cardinality(NamesUpto(list, p)) <= Cardinality(some \cup {list[p]})
          /\ Cardinality(some \cup {list[p]}) \in Nat
      <4> HIDE DEF some
      <4> QED BY <3>4, <3>5, FS_Subset, FS_CardinalityType
    <3> QED BY <1>6, <1>7, <1>8, <3>2, <3>5, <3>6
  <2> QED BY <2>1, <2>2
<1>10. Range(Cut(list, n)) \subseteq Range(list)
  BY <1>2, <1>3
<1> HIDE DEF some, kept
<1> QED BY <1>2, <1>3, <1>4, <1>7, <1>8, <1>9, <1>10 DEF NamesKept

\* A joined list has the names of its parts.
LEMMA JoinedIs ==
    ASSUME NEW lists, DOMAIN lists \in SUBSET Nat, IsFiniteSet(DOMAIN lists),
           \A i \in DOMAIN lists : /\ DOMAIN lists[i] \in SUBSET ({i} \X Nat \X Nat)
                                   /\ IsFiniteSet(DOMAIN lists[i])
    PROVE  /\ DOMAIN Joined(lists) \in SUBSET Place /\ IsFiniteSet(DOMAIN Joined(lists))
           /\ Range(Joined(lists)) = UNION {Range(lists[i]) : i \in DOMAIN lists}
<1> DEFINE parts == {DOMAIN lists[i] : i \in DOMAIN lists}
           places == UNION parts
<1>1. Joined(lists) = [p \in places |-> lists[p[1]][p]]
  BY DEF Joined
<1>2. DOMAIN Joined(lists) = places /\ Range(Joined(lists)) = {lists[p[1]][p] : p \in places}
  BY <1>1 DEF Range
<1>3. places \in SUBSET Place
  BY DEF Place
<1>4. IsFiniteSet(parts)
  <2> DEFINE part == [i \in DOMAIN lists |-> DOMAIN lists[i]]
  <2>1. parts = {part[i] : i \in DOMAIN lists}
    OBVIOUS
  <2> HIDE DEF parts, part
  <2> QED BY <2>1, ImageFinite
<1>5. IsFiniteSet(places)
  <2>1. \A part \in parts : IsFiniteSet(part)
    OBVIOUS
  <2> HIDE DEF parts
  <2> QED BY <1>4, <2>1, FS_UNION
<1>6. \A i \in DOMAIN lists : \A p \in DOMAIN lists[i] : p[1] = i
  OBVIOUS
<1>7. \A i \in DOMAIN lists : Range(lists[i]) = {lists[i][p] : p \in DOMAIN lists[i]}
  BY DEF Range
<1>8. ASSUME NEW x PROVE x \in Range(Joined(lists)) <=> x \in UNION {Range(lists[i]) : i \in DOMAIN lists}
  <2>1. ASSUME x \in Range(Joined(lists)) PROVE x \in UNION {Range(lists[i]) : i \in DOMAIN lists}
    <3>1. PICK p \in places : x = lists[p[1]][p]
      BY <1>2, <2>1
    <3>2. PICK i \in DOMAIN lists : p \in DOMAIN lists[i]
      OBVIOUS
    <3>3. x \in Range(lists[i])
      BY <1>6, <1>7, <3>1, <3>2
    <3> QED BY <3>3
  <2>2. ASSUME NEW i \in DOMAIN lists, x \in Range(lists[i]) PROVE x \in Range(Joined(lists))
    <3>1. PICK p \in DOMAIN lists[i] : x = lists[i][p]
      BY <1>7, <2>2
    <3>2. p \in places /\ p[1] = i
      BY <1>6
    <3> QED BY <1>2, <3>1, <3>2
  <2> QED BY <2>1, <2>2
<1>9. Range(Joined(lists)) = UNION {Range(lists[i]) : i \in DOMAIN lists}
  BY <1>8
<1> HIDE DEF places
<1> QED BY <1>2, <1>3, <1>5, <1>9

-----------------------------------------------------------------------------
(***************************************************************************)
(* What is read of a slice of a Mach-O file.                               *)
(***************************************************************************)
\* The commands of a slice are numbered, and hold what their type says.
LEMMA CommandsAre ==
    ASSUME NEW slice \in MachoSlice
    PROVE  /\ DOMAIN slice.cmds = 1 .. Len(slice.cmds) /\ Len(slice.cmds) \in Nat
           /\ Range(slice.cmds) = {slice.cmds[c] : c \in DOMAIN slice.cmds}
           /\ \A c \in DOMAIN slice.cmds :
                LET command == slice.cmds[c]
                IN /\ command \in LoadCommand
                   /\ command.type = "segment" =>
                        command.entries \in Seq([name : STRING, fields : BOOLEAN])
                   /\ command.type = "symtab" => command.names \in Seq(STRING) /\ command.good \in BOOLEAN
           /\ LoadCommands(slice) \in SUBSET DOMAIN slice.cmds
<1>1. slice.cmds \in Seq(LoadCommand)
  BY DEF MachoSlice
<1>2. DOMAIN slice.cmds = 1 .. Len(slice.cmds) /\ Len(slice.cmds) \in Nat
  BY <1>1, LenProperties
<1>3. \A c \in DOMAIN slice.cmds : slice.cmds[c] \in LoadCommand
  BY <1>1, ElementOfSeq, LenProperties
<1>4. ASSUME NEW command \in LoadCommand
      PROVE  /\ command.type = "segment" => command.entries \in Seq([name : STRING, fields : BOOLEAN])
             /\ command.type = "symtab" => command.names \in Seq(STRING) /\ command.good \in BOOLEAN
  BY DEF LoadCommand
<1>5. LoadCommands(slice) \in SUBSET DOMAIN slice.cmds
  BY DEF LoadCommands
<1>6. Range(slice.cmds) = {slice.cmds[c] : c \in DOMAIN slice.cmds}
  BY DEF Range
<1> QED BY <1>2, <1>3, <1>4, <1>5, <1>6

\* The places of a command are finitely many.
LEMMA PlacesFinite ==
    ASSUME NEW i, NEW c, NEW K, IsFiniteSet(K)
    PROVE  IsFiniteSet({i} \X {c} \X K)
<1> DEFINE place == [k \in K |-> <<i, c, k>>]
<1>1. {i} \X {c} \X K = {place[k] : k \in K}
  OBVIOUS
<1> HIDE DEF place
<1> QED BY <1>1, ImageFinite

\* A set of numbers up to a bound is finite.
LEMMA UpToFinite ==
    ASSUME NEW n \in Nat, NEW K \in SUBSET (1 .. n)
    PROVE  IsFiniteSet(K)
<1>1. IsFiniteSet(1 .. n)
  BY FS_Interval
<1> QED BY <1>1, FS_Subset

TableNames(slice) == (UNION {Range(c.names) : c \in LastTable(slice)}) \ {"bad"}
AnyNames(slice) ==
    (UNION {Range(c.names) : c \in {d \in Range(slice.cmds) : d.type = "symtab"}}) \ {"bad"}

\* The names of one table among the names of all, and of the last one alone.
LEMMA NamesOfTable ==
    ASSUME NEW slice, NEW d \in Range(slice.cmds), d.type = "symtab"
    PROVE  /\ Range(d.names) \ {"bad"} \subseteq AnyNames(slice)
           /\ LastTable(slice) = {d} => TableNames(slice) = Range(d.names) \ {"bad"}
<1> DEFINE tables == {e \in Range(slice.cmds) : e.type = "symtab"}
           R == Range(d.names)
           every == {Range(e.names) : e \in tables}
           last == {Range(e.names) : e \in LastTable(slice)}
<1>1. R \in every
  <2>1. d \in tables
    OBVIOUS
  <2> HIDE DEF tables
  <2> QED BY <2>1
<1>2. AnyNames(slice) = (UNION every) \ {"bad"} /\ TableNames(slice) = (UNION last) \ {"bad"}
  BY DEF AnyNames, TableNames
<1>3. LastTable(slice) = {d} => last = {R}
  OBVIOUS
<1> HIDE DEF R, every, last
<1>4. R \subseteq UNION every
  BY <1>1
<1>5. last = {R} => UNION last = R
  OBVIOUS
<1>6. R \ {"bad"} \subseteq AnyNames(slice)
  BY <1>2, <1>4
<1>7. LastTable(slice) = {d} => TableNames(slice) = R \ {"bad"}
  BY <1>2, <1>3, <1>5
<1> QED BY <1>6, <1>7 DEF R

\* The symbols of a slice are names of its tables; of a slice that is read to its
\* end they are those of the last table, up to the limit.
LEMMA SymbolsTold ==
    ASSUME NEW slice \in MachoSlice, NEW i \in Nat
    PROVE  /\ DOMAIN Symbols(slice, i) \in SUBSET ({i} \X Nat \X Nat)
           /\ IsFiniteSet(DOMAIN Symbols(slice, i))
           /\ NamesKept(Symbols(slice, i)) \in Nat /\ NamesKept(Symbols(slice, i)) <= MaxSymbols
           /\ Range(Symbols(slice, i)) \subseteq AnyNames(slice)
           /\ LoadCommands(slice) = DOMAIN slice.cmds /\ (Tables(slice) # {} => LastGood(slice)) =>
                /\ Range(Symbols(slice, i)) = TableNames(slice) \/ NamesKept(Symbols(slice, i)) = MaxSymbols
                /\ \A c \in LastTable(slice) : c.good
<1>1. /\ DOMAIN slice.cmds = 1 .. Len(slice.cmds) /\ Len(slice.cmds) \in Nat
      /\ Range(slice.cmds) = {slice.cmds[c] : c \in DOMAIN slice.cmds}
      /\ \A c \in DOMAIN slice.cmds : slice.cmds[c].type = "symtab" => slice.cmds[c].names \in Seq(STRING)
      /\ LoadCommands(slice) \in SUBSET DOMAIN slice.cmds
  BY CommandsAre
<1>2. Tables(slice) = {c \in LoadCommands(slice) : slice.cmds[c].type = "symtab"}
  BY DEF Tables, OfType
<1>3. MaxSymbols \in Nat
  BY ArchiveInputs
<1> DEFINE list == SymbolsAt(slice, i)
<1>4. Symbols(slice, i) = Cut(list, MaxSymbols)
  BY DEF Symbols
<1>5. CASE ~LastGood(slice)
  <2>1. list = <<>>
    BY <1>5 DEF SymbolsAt
  <2>2. DOMAIN list = {} /\ Range(list) = {}
    BY <2>1 DEF Range
  <2> HIDE DEF list
  <2>3. DOMAIN list \in SUBSET Place /\ IsFiniteSet(DOMAIN list)
    BY <2>2, FS_EmptySet
  <2>4. /\ DOMAIN Cut(list, MaxSymbols) \in SUBSET DOMAIN list /\ IsFiniteSet(DOMAIN Cut(list, MaxSymbols))
        /\ Range(Cut(list, MaxSymbols)) \subseteq Range(list)
        /\ NamesKept(Cut(list, MaxSymbols)) \in Nat /\ NamesKept(Cut(list, MaxSymbols)) <= MaxSymbols
    BY <1>3, <2>3, CutIs
  <2>5. ASSUME LoadCommands(slice) = DOMAIN slice.cmds, Tables(slice) # {} => LastGood(slice)
        PROVE  LastTable(slice) = {}
    BY <1>2, <1>5, <2>5 DEF LastTable
  <2> QED BY <1>4, <2>2, <2>4, <2>5 DEF TableNames
<1>6. CASE LastGood(slice)
  <2> DEFINE c == Max(Tables(slice))
             names == slice.cmds[c].names
             K == {k \in DOMAIN names : names[k] # "bad"}
  <2>1. c \in Tables(slice) /\ (\A d \in Tables(slice) : d <= c) /\ slice.cmds[c].good
    <3>1. Tables(slice) \in SUBSET Nat /\ Tables(slice) # {} /\ \A d \in Tables(slice) : d <= Len(slice.cmds)
      BY <1>1, <1>2, <1>6 DEF LastGood
    <3>2. c \in Tables(slice) /\ \A d \in Tables(slice) : d <= c
      BY <1>1, <3>1, Greatest
    <3> QED BY <1>6, <3>2 DEF LastGood
  <2>2. c \in DOMAIN slice.cmds /\ c \in Nat /\ slice.cmds[c].type = "symtab" /\ names \in Seq(STRING)
    <3> HIDE DEF c
    <3>1. c \in DOMAIN slice.cmds /\ slice.cmds[c].type = "symtab"
      BY <1>1, <1>2, <2>1
    <3> QED BY <1>1, <3>1
  <2>3. DOMAIN names = 1 .. Len(names) /\ Len(names) \in Nat
    BY <2>2, LenProperties
  <2>4. list = [p \in {i} \X {c} \X K |-> names[p[3]]]
    BY <1>6 DEF SymbolsAt
  <2> HIDE DEF list, c
  <2>5. K \in SUBSET (1 .. Len(names)) /\ IsFiniteSet(K)
    <3> HIDE DEF names
    <3> QED BY <2>3, UpToFinite
  <2>6. DOMAIN list = {i} \X {c} \X K /\ Range(list) = {names[k] : k \in K}
    <3> HIDE DEF names, K
    <3>1. DOMAIN list = {i} \X {c} \X K /\ Range(list) = {names[p[3]] : p \in {i} \X {c} \X K}
      BY <2>4 DEF Range
    <3>2. \A k \in K : <<i, c, k>> \in {i} \X {c} \X K /\ <<i, c, k>>[3] = k
      OBVIOUS
    <3>3. \A p \in {i} \X {c} \X K : p[3] \in K
      OBVIOUS
    <3>4. {names[p[3]] : p \in {i} \X {c} \X K} \subseteq {names[k] : k \in K}
      BY <3>3
    <3>5. ASSUME NEW k \in K PROVE names[k] \in {names[p[3]] : p \in {i} \X {c} \X K}
      BY <3>2
    <3> QED BY <3>1, <3>4, <3>5
  <2>7. Range(list) = Range(names) \ {"bad"}
    BY <2>6 DEF Range
  <2>8. IsFiniteSet(DOMAIN list) /\ DOMAIN list \in SUBSET ({i} \X Nat \X Nat) /\ DOMAIN list \in SUBSET Place
    <3> HIDE DEF names, K
    <3>1. IsFiniteSet({i} \X {c} \X K)
      BY <2>5, PlacesFinite
    <3>2. K \in SUBSET Nat
      BY <2>5
    <3>3. IsFiniteSet(DOMAIN list) /\ DOMAIN list \in SUBSET ({i} \X Nat \X Nat)
      BY <2>2, <2>6, <3>1, <3>2
    <3>4. ({i} \X Nat \X Nat) \in SUBSET Place
      BY DEF Place
    <3> QED BY <3>3, <3>4
  <2>9. /\ DOMAIN Cut(list, MaxSymbols) \in SUBSET DOMAIN list /\ IsFiniteSet(DOMAIN Cut(list, MaxSymbols))
        /\ Range(Cut(list, MaxSymbols)) \subseteq Range(list)
        /\ NamesKept(Cut(list, MaxSymbols)) \in Nat /\ NamesKept(Cut(list, MaxSymbols)) <= MaxSymbols
        /\ Range(Cut(list, MaxSymbols)) = Range(list) \/ NamesKept(Cut(list, MaxSymbols)) = MaxSymbols
    BY <1>3, <2>8, CutIs
  <2>10. Range(list) \subseteq AnyNames(slice)
    <3>1. slice.cmds[c] \in {d \in Range(slice.cmds) : d.type = "symtab"}
      BY <1>1, <2>2
    <3>2. slice.cmds[c] \in Range(slice.cmds) /\ slice.cmds[c].type = "symtab"
      BY <3>1
    <3>3. Range(slice.cmds[c].names) \ {"bad"} \subseteq AnyNames(slice)
      BY <3>2, NamesOfTable
    <3> QED BY <2>7, <3>3
  <2>11. ASSUME LoadCommands(slice) = DOMAIN slice.cmds
         PROVE  LastTable(slice) = {slice.cmds[c]}
    <3>1. \A d \in DOMAIN slice.cmds : slice.cmds[d].type = "symtab" => d <= c
      BY <1>2, <2>1, <2>11
    <3>2. {d \in DOMAIN slice.cmds : slice.cmds[d].type = "symtab"
             /\ \A e \in DOMAIN slice.cmds : e > d => slice.cmds[e].type # "symtab"} = {c}
      BY <1>1, <2>2, <3>1
    <3> QED BY <3>2 DEF LastTable
  <2>12. LoadCommands(slice) = DOMAIN slice.cmds => TableNames(slice) = Range(list)
    <3>1. slice.cmds[c] \in Range(slice.cmds) /\ slice.cmds[c].type = "symtab"
      BY <1>1, <2>2
    <3>2. LastTable(slice) = {slice.cmds[c]} => TableNames(slice) = Range(slice.cmds[c].names) \ {"bad"}
      BY <3>1, NamesOfTable
    <3> QED BY <2>7, <2>11, <3>2
  <2> QED BY <1>4, <2>1, <2>8, <2>9, <2>10, <2>11, <2>12
<1> QED BY <1>5, <1>6

\* The names of the Swift sections of a kind are those of the entries; of a slice
\* that is read to its end they are all, up to the limit, and nothing was passed over.
LEMMA SwiftTold ==
    ASSUME NEW slice \in MachoSlice, NEW i \in Nat, NEW kind \in SwiftSections
    PROVE  LET taken == Swift(slice, i, kind)
           IN /\ DOMAIN taken.names \in SUBSET ({i} \X Nat \X Nat) /\ IsFiniteSet(DOMAIN taken.names)
              /\ NamesKept(taken.names) \in Nat /\ NamesKept(taken.names) <= MaxNames
              /\ LoadCommands(slice) = DOMAIN slice.cmds =>
                   \A c \in Range(slice.cmds) : c.type = "segment" /\ c.name = kind =>
                     /\ taken.status # "not_attempted"
                     /\ taken.status = "parsed" => EntriesListed(c, kind, taken.names)
<1>1. /\ DOMAIN slice.cmds = 1 .. Len(slice.cmds) /\ Len(slice.cmds) \in Nat
      /\ Range(slice.cmds) = {slice.cmds[c] : c \in DOMAIN slice.cmds}
      /\ \A c \in DOMAIN slice.cmds :
           slice.cmds[c].type = "segment" => slice.cmds[c].entries \in Seq([name : STRING, fields : BOOLEAN])
      /\ LoadCommands(slice) \in SUBSET DOMAIN slice.cmds
  BY CommandsAre
<1> DEFINE inside == {d \in OfKind(slice, kind) : slice.cmds[d].inside}
           spans == [c \in inside |-> {i} \X {c} \X DOMAIN slice.cmds[c].entries]
           places == EntriesOf(slice, i, kind)
           list == SwiftNamesAt(slice, i, kind)
<1>2. OfKind(slice, kind) = {c \in LoadCommands(slice) : slice.cmds[c].type = "segment" /\ slice.cmds[c].name = kind}
  BY DEF OfKind, OfType
<1>3. \A c \in inside : /\ c \in Nat /\ slice.cmds[c].entries \in Seq([name : STRING, fields : BOOLEAN])
                        /\ c \in DOMAIN slice.cmds
  BY <1>1, <1>2
<1>4. places = UNION {spans[c] : c \in inside}
  BY DEF EntriesOf
<1>5. IsFiniteSet(inside)
  <2>1. inside \in SUBSET (1 .. Len(slice.cmds))
    BY <1>1, <1>2
  <2> QED BY <1>1, <2>1, UpToFinite
<1>6. \A c \in inside : IsFiniteSet(spans[c]) /\ spans[c] \in SUBSET ({i} \X Nat \X Nat)
  <2>1. ASSUME NEW c \in inside
        PROVE  IsFiniteSet(spans[c]) /\ spans[c] \in SUBSET ({i} \X Nat \X Nat)
    <3> DEFINE K == DOMAIN slice.cmds[c].entries
    <3>1. K = 1 .. Len(slice.cmds[c].entries) /\ Len(slice.cmds[c].entries) \in Nat
      BY <1>3, LenProperties
    <3>2. spans[c] = {i} \X {c} \X K /\ c \in Nat
      BY <1>3
    <3> HIDE DEF K, spans, inside
    <3>3. K \in SUBSET Nat /\ IsFiniteSet(K)
      <4>1. IsFiniteSet(K)
        BY <3>1, FS_Interval
      <4> QED BY <3>1, <4>1
    <3>4. IsFiniteSet({i} \X {c} \X K)
      BY <3>3, PlacesFinite
    <3> QED BY <3>2, <3>3, <3>4
  <2> QED BY <2>1
<1>7. IsFiniteSet(places) /\ places \in SUBSET ({i} \X Nat \X Nat)
  <2> DEFINE some == {spans[c] : c \in inside}
  <2> HIDE DEF spans, inside
  <2>1. IsFiniteSet(some)
    <3> HIDE DEF some
    <3> QED BY <1>5, ImageFinite DEF some
  <2>2. \A S \in some : IsFiniteSet(S)
    BY <1>6
  <2>3. IsFiniteSet(UNION some)
    <3> HIDE DEF some
    <3> QED BY <2>1, <2>2, FS_UNION
  <2> QED BY <1>4, <1>6, <2>3
<1>8. /\ DOMAIN list = {q \in Examined(places) : EntryAt(slice, q).name \notin {"broken", "other"}}
      /\ \A p \in DOMAIN list : list[p] = EntryAt(slice, p).name
  BY DEF SwiftNamesAt
<1>9. MaxNames \in Nat /\ MaxEntries \in Nat
  BY ArchiveInputs
<1> HIDE DEF list
<1>10. DOMAIN list \in SUBSET places /\ DOMAIN list \in SUBSET Place /\ IsFiniteSet(DOMAIN list)
  <2>1. DOMAIN list \in SUBSET places
    BY <1>8 DEF Examined
  <2>2. places \in SUBSET Place
    BY <1>7 DEF Place
  <2> HIDE DEF places
  <2> QED BY <1>7, <2>1, <2>2, FS_Subset
<1>11. /\ DOMAIN Cut(list, MaxNames) \in SUBSET DOMAIN list /\ IsFiniteSet(DOMAIN Cut(list, MaxNames))
       /\ NamesKept(Cut(list, MaxNames)) \in Nat /\ NamesKept(Cut(list, MaxNames)) <= MaxNames
       /\ Range(Cut(list, MaxNames)) = Range(list) \/ NamesKept(Cut(list, MaxNames)) = MaxNames
  BY <1>9, <1>10, CutIs
<1> DEFINE result == Swift(slice, i, kind)
<1>12. /\ result.names = Cut(list, MaxNames)
       /\ result.status =
            IF OfKind(slice, kind) = {} THEN "not_attempted"
            ELSE IF \/ \E c \in OfKind(slice, kind) : ~slice.cmds[c].inside
                    \/ Cardinality(places) > MaxEntries
                    \/ \E p \in Examined(places) : Wrong(kind, EntryAt(slice, p))
                    \/ Fullness(kind, list)
                 THEN "partial" ELSE "parsed"
  BY DEF Swift, list
<1> HIDE DEF result
<1>13. ASSUME LoadCommands(slice) = DOMAIN slice.cmds, NEW c \in DOMAIN slice.cmds,
              slice.cmds[c].type = "segment", slice.cmds[c].name = kind
       PROVE  /\ result.status # "not_attempted"
              /\ result.status = "parsed" => EntriesListed(slice.cmds[c], kind, result.names)
  <2>1. c \in OfKind(slice, kind)
    BY <1>2, <1>13
  <2>2. result.status # "not_attempted"
    BY <1>12, <2>1
  <2>3. ASSUME result.status = "parsed" PROVE EntriesListed(slice.cmds[c], kind, result.names)
    <3>1. /\ slice.cmds[c].inside /\ ~(Cardinality(places) > MaxEntries)
          /\ \A p \in Examined(places) : ~Wrong(kind, EntryAt(slice, p))
      BY <1>12, <2>1, <2>3
    <3>2. Examined(places) = places
      <4>1. places \in SUBSET Place /\ Cardinality(places) \in Nat
        BY <1>7, FS_CardinalityType DEF Place
      <4> HIDE DEF places
      <4>2. \A p \in places : Cardinality(Upto(places, p)) \in Nat /\ Cardinality(Upto(places, p)) <= Cardinality(places)
        BY <1>7, <4>1, UptoGrows
      <4> QED BY <1>9, <3>1, <4>1, <4>2 DEF Examined
    <3>3. ASSUME NEW e \in Range(slice.cmds[c].entries)
          PROVE  /\ e.name # "broken"
                 /\ e.name # "other" => /\ kind = "__swift5_types" => e.fields
                                        /\ e.name \in Range(result.names) \/ NamesKept(result.names) = MaxNames
      <4>1. PICK k \in DOMAIN slice.cmds[c].entries : e = slice.cmds[c].entries[k]
        BY DEF Range
      <4> DEFINE p == <<i, c, k>>
      <4>2. p \in places /\ EntryAt(slice, p) = e
        <5>1. c \in inside
          BY <2>1, <3>1
        <5>2. p \in spans[c]
          BY <5>1
        <5>3. EntryAt(slice, p) = e
          BY <4>1 DEF EntryAt
        <5> HIDE DEF p, spans
        <5> QED BY <1>4, <5>1, <5>2, <5>3
      <4> HIDE DEF p
      <4>3. ~Wrong(kind, e)
        BY <3>1, <3>2, <4>2
      <4>4. e.name # "broken" /\ (kind = "__swift5_types" => e.fields)
        BY <4>3 DEF Wrong
      <4>5. ASSUME e.name # "other" PROVE e.name \in Range(list)
        <5>1. p \in DOMAIN list /\ list[p] = e.name
          BY <1>8, <3>2, <4>2, <4>4, <4>5
        <5> QED BY <5>1 DEF Range
      <4> QED BY <1>11, <1>12, <4>4, <4>5
    <3> QED BY <3>1, <3>3 DEF EntriesListed
  <2> QED BY <2>2, <2>3
<1>14. DOMAIN result.names \in SUBSET ({i} \X Nat \X Nat)
  <2> HIDE DEF places
  <2> QED BY <1>7, <1>10, <1>11, <1>12
<1> QED BY <1>1, <1>11, <1>12, <1>13, <1>14 DEF result
SectionIn(slice, kind) == {c \in Range(slice.cmds) : c.type = "segment" /\ c.name = kind}
LibrariesOf(slice) == {c.name : c \in {d \in Range(slice.cmds) : d.type = "dylib"}} \ {"bad"}

\* What the parse of one slice says of it.
ListTold(list, i, limit) ==
    /\ DOMAIN list \in SUBSET ({i} \X Nat \X Nat) /\ IsFiniteSet(DOMAIN list)
    /\ NamesKept(list) \in Nat /\ NamesKept(list) <= limit
SliceTold(parse, slice, i) ==
    /\ parse.macho = TRUE
    /\ ListTold(parse.symbols, i, MaxSymbols) /\ Range(parse.symbols) \subseteq AnyNames(slice)
    /\ \A kind \in SwiftSections : ListTold(parse.swift[kind].names, i, MaxNames)
    /\ parse.status = "complete" =>
         /\ WholeSlice(slice)
         /\ \A s \in SectionIn(slice, "__cstring") : s.inside
         /\ Range(parse.symbols) = TableNames(slice)
         /\ \A kind \in SwiftSections : \A s \in SectionIn(slice, kind) :
              /\ parse.swift[kind].status # "not_attempted"
              /\ parse.swift[kind].status = "parsed" => EntriesListed(s, kind, parse.swift[kind].names)
         /\ parse.dylibs = LibrariesOf(slice)

LEMMA ThinTold ==
    ASSUME NEW slice \in MachoSlice, NEW i \in Nat
    PROVE  SliceTold(ParseThin(slice, i), slice, i)
<1>1. /\ DOMAIN slice.cmds = 1 .. Len(slice.cmds) /\ Len(slice.cmds) \in Nat
      /\ Range(slice.cmds) = {slice.cmds[c] : c \in DOMAIN slice.cmds}
      /\ LoadCommands(slice) \in SUBSET DOMAIN slice.cmds
  BY CommandsAre
<1> DEFINE parse == ParseThin(slice, i)
<1>2. /\ parse.macho = TRUE
      /\ parse.status = IF ReadWhole(slice, i) THEN "complete" ELSE "partial"
      /\ parse.symbols = Symbols(slice, i)
      /\ parse.dylibs = {slice.cmds[c].name : c \in OfType(slice, "dylib")} \ {"bad"}
      /\ \A kind \in SwiftSections : parse.swift[kind] = Swift(slice, i, kind)
  BY DEF ParseThin
<1> HIDE DEF parse
<1>3. ListTold(parse.symbols, i, MaxSymbols) /\ Range(parse.symbols) \subseteq AnyNames(slice)
  BY <1>2, SymbolsTold DEF ListTold
<1>4. \A kind \in SwiftSections : ListTold(parse.swift[kind].names, i, MaxNames)
  BY <1>2, SwiftTold DEF ListTold
<1>5. ASSUME parse.status = "complete"
      PROVE  /\ WholeSlice(slice)
             /\ \A s \in SectionIn(slice, "__cstring") : s.inside
             /\ Range(parse.symbols) = TableNames(slice)
             /\ \A kind \in SwiftSections : \A s \in SectionIn(slice, kind) :
                  /\ parse.swift[kind].status # "not_attempted"
                  /\ parse.swift[kind].status = "parsed" => EntriesListed(s, kind, parse.swift[kind].names)
             /\ parse.dylibs = LibrariesOf(slice)
  <2>1. ReadWhole(slice, i)
    BY <1>2, <1>5
  <2>2. /\ slice.region /\ LoadCommands(slice) = DOMAIN slice.cmds
        /\ OfType(slice, "stub") = {} /\ (Tables(slice) # {} => LastGood(slice))
        /\ StringsInside(slice) /\ NamesKept(Symbols(slice, i)) < MaxSymbols
    BY <2>1 DEF ReadWhole
  <2>3. \A type : OfType(slice, type) = {c \in DOMAIN slice.cmds : slice.cmds[c].type = type}
    BY <2>2 DEF OfType
  <2>4. \A c \in DOMAIN slice.cmds : slice.cmds[c].sized /\ slice.cmds[c].type # "stub"
    <3>1. ASSUME NEW c \in DOMAIN slice.cmds PROVE slice.cmds[c].sized
      <4>1. c \in LoadCommands(slice) /\ c \in 1 .. c
        BY <1>1, <2>2
      <4> QED BY <4>1 DEF LoadCommands
    <3> QED BY <2>2, <2>3, <3>1
  <2>5. /\ Range(parse.symbols) = TableNames(slice)
        /\ \A c \in LastTable(slice) : c.good
    <3>1. NamesKept(Symbols(slice, i)) \in Nat /\ MaxSymbols \in Nat
      BY SymbolsTold, ArchiveInputs
    <3>2. NamesKept(Symbols(slice, i)) # MaxSymbols
      BY <2>2, <3>1
    <3> QED BY <1>2, <2>2, <3>2, SymbolsTold
  <2>6. WholeSlice(slice)
    BY <1>1, <2>2, <2>4, <2>5 DEF WholeSlice
  <2>7. \A s \in SectionIn(slice, "__cstring") : s.inside
    BY <1>1, <2>2, <2>3 DEF SectionIn, StringsInside, OfKind
  <2>8. \A kind \in SwiftSections : \A s \in SectionIn(slice, kind) :
           /\ parse.swift[kind].status # "not_attempted"
           /\ parse.swift[kind].status = "parsed" => EntriesListed(s, kind, parse.swift[kind].names)
    <3>1. ASSUME NEW kind \in SwiftSections, NEW s \in SectionIn(slice, kind)
          PROVE  /\ parse.swift[kind].status # "not_attempted"
                 /\ parse.swift[kind].status = "parsed" => EntriesListed(s, kind, parse.swift[kind].names)
      <4>1. s \in Range(slice.cmds) /\ s.type = "segment" /\ s.name = kind
        BY DEF SectionIn
      <4> DEFINE taken == Swift(slice, i, kind)
      <4>2. parse.swift[kind] = taken
        BY <1>2
      <4>3. \A c \in Range(slice.cmds) : c.type = "segment" /\ c.name = kind =>
               /\ taken.status # "not_attempted"
               /\ taken.status = "parsed" => EntriesListed(c, kind, taken.names)
        BY <2>2, SwiftTold
      <4> HIDE DEF taken
      <4> QED BY <4>1, <4>2, <4>3
    <3> QED BY <3>1
  <2>9. parse.dylibs = LibrariesOf(slice)
    <3> DEFINE places == {c \in DOMAIN slice.cmds : slice.cmds[c].type = "dylib"}
    <3>1. {slice.cmds[c].name : c \in places} = {c.name : c \in {d \in Range(slice.cmds) : d.type = "dylib"}}
      BY <1>1
    <3>2. OfType(slice, "dylib") = places
      BY <2>3
    <3> QED BY <1>2, <3>1, <3>2 DEF LibrariesOf
  <2> QED BY <2>5, <2>6, <2>7, <2>8, <2>9
<1> QED BY <1>2, <1>3, <1>4, <1>5 DEF SliceTold, parse

\* What is kept of a joined list: every name of its parts, or as many as it can hold;
\* and when a part is full, so is the whole.
LEMMA MergedList ==
    ASSUME NEW lists, DOMAIN lists \in SUBSET Nat, IsFiniteSet(DOMAIN lists), NEW n \in Nat,
           \A i \in DOMAIN lists : ListTold(lists[i], i, n)
    PROVE  LET merged == Cut(Joined(lists), n)
           IN /\ IsFiniteSet(DOMAIN merged) /\ NamesKept(merged) \in Nat /\ NamesKept(merged) <= n
              /\ Range(merged) \subseteq UNION {Range(lists[i]) : i \in DOMAIN lists}
              /\ Range(merged) = UNION {Range(lists[i]) : i \in DOMAIN lists} \/ NamesKept(merged) = n
              /\ \A i \in DOMAIN lists : NamesKept(lists[i]) = n => NamesKept(merged) = n
<1> DEFINE joined == Joined(lists)
           merged == Cut(joined, n)
           every == UNION {Range(lists[i]) : i \in DOMAIN lists}
<1>1. \A i \in DOMAIN lists : /\ DOMAIN lists[i] \in SUBSET ({i} \X Nat \X Nat)
                              /\ IsFiniteSet(DOMAIN lists[i])
  BY DEF ListTold
<1>2. DOMAIN joined \in SUBSET Place /\ IsFiniteSet(DOMAIN joined) /\ Range(joined) = every
  BY <1>1, JoinedIs
<1> HIDE DEF joined
<1>3. /\ IsFiniteSet(DOMAIN merged) /\ Range(merged) \subseteq Range(joined) /\ IsFiniteSet(Range(merged))
      /\ NamesKept(merged) \in Nat /\ NamesKept(merged) <= n
      /\ Range(merged) = Range(joined) \/ NamesKept(merged) = n
  BY <1>2, CutIs
<1> HIDE DEF merged
<1>4. ASSUME NEW i \in DOMAIN lists, NamesKept(lists[i]) = n PROVE NamesKept(merged) = n
  <2>1. CASE Range(merged) = Range(joined)
    <3>1. Range(lists[i]) \in SUBSET Range(merged)
      BY <1>2, <2>1
    <3>2. Cardinality(Range(lists[i])) <= Cardinality(Range(merged))
      BY <1>3, <3>1, FS_Subset
    <3>3. n <= NamesKept(merged)
      BY <1>4, <3>2 DEF NamesKept
    <3> QED BY <1>3, <3>3
  <2> QED BY <1>3, <2>1
<1> HIDE DEF every
<1>5. Range(merged) \subseteq every /\ (Range(merged) = every \/ NamesKept(merged) = n)
  BY <1>2, <1>3
<1> QED BY <1>3, <1>4, <1>5 DEF merged, joined, every

\* What a Mach-O file holds is what its slices hold.
LEMMA Contents ==
    ASSUME NEW binary
    PROVE  LET slices == Range(binary.slices)
           IN /\ SymbolsOf(binary) = UNION {TableNames(slice) : slice \in slices}
              /\ \A kind : \A s \in SectionsOf(binary, kind) : \E slice \in slices : s \in SectionIn(slice, kind)
              /\ (UNION {Range(c.names) : c \in CommandsOf(binary, "symtab")}) \ {"bad"}
                   = UNION {AnyNames(slice) : slice \in slices}
              /\ {c.name : c \in CommandsOf(binary, "dylib")} \ {"bad"}
                   = UNION {LibrariesOf(slice) : slice \in slices}
<1> DEFINE slices == Range(binary.slices)
           Of(type) == CommandsOf(binary, type)
<1>1. \A type : \A c : c \in Of(type) <=> \E slice \in slices : c \in Range(slice.cmds) /\ c.type = type
  BY DEF CommandsOf
<1> HIDE DEF slices, Of
<1>2. \A kind : \A s \in SectionsOf(binary, kind) : \E slice \in slices : s \in SectionIn(slice, kind)
  <2>1. \A kind : \A s \in SectionsOf(binary, kind) : s \in Of("segment") /\ s.name = kind
    BY DEF SectionsOf, Of
  <2> QED BY <1>1, <2>1 DEF SectionIn
<1>3. SymbolsOf(binary) = UNION {TableNames(slice) : slice \in slices}
  <2> DEFINE LastNames(slice) == UNION {Range(c.names) : c \in LastTable(slice)}
  <2>1. SymbolsOf(binary) = (UNION {LastNames(slice) : slice \in slices}) \ {"bad"}
    BY DEF SymbolsOf, slices
  <2>2. \A slice : TableNames(slice) = LastNames(slice) \ {"bad"}
    BY DEF TableNames
  <2> HIDE DEF LastNames
  <2>3. ASSUME NEW x PROVE x \in SymbolsOf(binary) <=> x \in UNION {TableNames(slice) : slice \in slices}
    BY <2>1, <2>2
  <2> QED BY <2>3
<1>4. ASSUME NEW x
      PROVE  x \in (UNION {Range(c.names) : c \in Of("symtab")}) \ {"bad"}
               <=> x \in UNION {AnyNames(slice) : slice \in slices}
  <2> DEFINE TablesIn(slice) == {d \in Range(slice.cmds) : d.type = "symtab"}
             Named(slice) == UNION {Range(c.names) : c \in TablesIn(slice)}
  <2>1. \A slice : AnyNames(slice) = Named(slice) \ {"bad"}
    BY DEF AnyNames
  <2>2. \A c : c \in Of("symtab") <=> \E slice \in slices : c \in TablesIn(slice)
    BY <1>1
  <2>3. \A slice : x \in Named(slice) <=> \E c \in TablesIn(slice) : x \in Range(c.names)
    OBVIOUS
  <2> HIDE DEF TablesIn, Named
  <2>4. x \in UNION {Range(c.names) : c \in Of("symtab")} <=> \E c \in Of("symtab") : x \in Range(c.names)
    OBVIOUS
  <2> QED BY <2>1, <2>2, <2>3, <2>4
<1>5. ASSUME NEW x
      PROVE  x \in {c.name : c \in Of("dylib")} \ {"bad"} <=> x \in UNION {LibrariesOf(slice) : slice \in slices}
  BY <1>1 DEF LibrariesOf
<1>6. /\ (UNION {Range(c.names) : c \in Of("symtab")}) \ {"bad"} = UNION {AnyNames(slice) : slice \in slices}
      /\ {c.name : c \in Of("dylib")} \ {"bad"} = UNION {LibrariesOf(slice) : slice \in slices}
  BY <1>4, <1>5
<1> QED BY <1>2, <1>3, <1>6 DEF slices, Of

\* The parse of a file is honest, and its list of symbols within its limit.
BinaryTold(parse, binary) ==
    /\ ParsedHonestly(parse, binary)
    /\ NamesKept(parse.symbols) \in Nat /\ NamesKept(parse.symbols) <= MaxSymbols

LEMMA ThinHonest ==
    ASSUME NEW binary \in MachoFile, binary.kind # "fat", binary.kind # "other"
    PROVE  BinaryTold(ParseBinary(binary), binary)
<1> DEFINE slice == binary.slices[1]
           thin == ParseThin(slice, 1)
           parse == ParseBinary(binary)
<1>1. binary.slices \in Seq(MachoSlice) /\ Len(binary.slices) = 1
  BY DEF MachoFile
<1>2. slice \in MachoSlice /\ DOMAIN binary.slices = {1}
  BY <1>1
<1>3. Range(binary.slices) = {slice}
  BY <1>2 DEF Range
<1>4. SliceTold(thin, slice, 1)
  <2> HIDE DEF slice
  <2> QED BY <1>2, ThinTold
<1>5. /\ parse.symbols = thin.symbols /\ parse.dylibs = thin.dylibs /\ parse.swift = thin.swift
      /\ parse.status = "complete" => ~binary.over /\ thin.status = "complete"
  <2>1. parse = Bounded(binary.over, thin)
    BY DEF ParseBinary
  <2>2. DOMAIN thin = {"macho", "status", "symbols", "dylibs", "swift"}
    BY DEF ParseThin
  <2>3. parse = IF binary.over THEN [thin EXCEPT !.status = "partial"] ELSE thin
    BY <2>1 DEF Bounded
  <2> HIDE DEF thin, parse
  <2>4. CASE binary.over
    <3>1. parse = [thin EXCEPT !.status = "partial"]
      BY <2>3, <2>4
    <3> QED BY <2>2, <3>1
  <2> QED BY <2>3, <2>4
<1> HIDE DEF slice, thin, parse
<1>6. /\ SymbolsOf(binary) = TableNames(slice)
      /\ \A kind : \A s \in SectionsOf(binary, kind) : s \in SectionIn(slice, kind)
      /\ (UNION {Range(c.names) : c \in CommandsOf(binary, "symtab")}) \ {"bad"} = AnyNames(slice)
      /\ {c.name : c \in CommandsOf(binary, "dylib")} \ {"bad"} = LibrariesOf(slice)
  <2>1. /\ SymbolsOf(binary) = UNION {TableNames(t) : t \in {slice}}
        /\ \A kind : \A s \in SectionsOf(binary, kind) : \E t \in {slice} : s \in SectionIn(t, kind)
        /\ (UNION {Range(c.names) : c \in CommandsOf(binary, "symtab")}) \ {"bad"}
             = UNION {AnyNames(t) : t \in {slice}}
        /\ {c.name : c \in CommandsOf(binary, "dylib")} \ {"bad"} = UNION {LibrariesOf(t) : t \in {slice}}
    BY <1>3, Contents
  <2>2. UNION {TableNames(t) : t \in {slice}} = TableNames(slice)
    OBVIOUS
  <2>3. UNION {AnyNames(t) : t \in {slice}} = AnyNames(slice)
    OBVIOUS
  <2>4. UNION {LibrariesOf(t) : t \in {slice}} = LibrariesOf(slice)
    OBVIOUS
  <2> QED BY <2>1, <2>2, <2>3, <2>4
<1>7. ASSUME parse.status = "complete"
      PROVE  /\ ~binary.over /\ binary.kind # "other"
             /\ \A s \in Range(binary.slices) : WholeSlice(s) /\ (binary.kind = "fat" => Merges(s))
             /\ \A s \in SectionsOf(binary, "__cstring") : s.inside
             /\ Range(parse.symbols) = SymbolsOf(binary) \/ NamesKept(parse.symbols) = MaxSymbols
             /\ \A kind \in SwiftSections :
                  parse.swift[kind].status = "parsed" =>
                    \A s \in SectionsOf(binary, kind) : EntriesListed(s, kind, parse.swift[kind].names)
             /\ parse.dylibs = {c.name : c \in CommandsOf(binary, "dylib")} \ {"bad"}
  <2>1. /\ WholeSlice(slice)
        /\ \A s \in SectionIn(slice, "__cstring") : s.inside
        /\ Range(thin.symbols) = TableNames(slice)
        /\ \A kind \in SwiftSections : \A s \in SectionIn(slice, kind) :
             thin.swift[kind].status = "parsed" => EntriesListed(s, kind, thin.swift[kind].names)
        /\ thin.dylibs = LibrariesOf(slice)
    BY <1>4, <1>5, <1>7 DEF SliceTold
  <2>2. \A s \in Range(binary.slices) : WholeSlice(s) /\ (binary.kind = "fat" => Merges(s))
    BY <1>3, <2>1
  <2> QED BY <1>5, <1>6, <1>7, <2>1, <2>2
<1>8. /\ Range(parse.symbols) \subseteq AnyNames(slice)
      /\ NamesKept(parse.symbols) \in Nat /\ NamesKept(parse.symbols) <= MaxSymbols
  BY <1>4, <1>5 DEF SliceTold, ListTold
<1>9. ParsedHonestly(parse, binary)
  BY <1>6, <1>7, <1>8 DEF ParsedHonestly
<1> QED BY <1>8, <1>9 DEF BinaryTold, parse

\* What the entries of a section are said to be in one slice is so in the joined list.
LEMMA ListedInWhole ==
    ASSUME NEW section, NEW kind, NEW list, NEW whole,
           EntriesListed(section, kind, list),
           Range(list) \subseteq Range(whole) \/ NamesKept(whole) = MaxNames,
           NamesKept(list) = MaxNames => NamesKept(whole) = MaxNames
    PROVE  EntriesListed(section, kind, whole)
BY DEF EntriesListed

LEMMA FatHonest ==
    ASSUME NEW binary \in MachoFile, binary.kind = "fat"
    PROVE  BinaryTold(ParseBinary(binary), binary)
<1> DEFINE slices == binary.slices
           merged == {i \in DOMAIN slices : Merges(slices[i])}
           results == [i \in merged |-> ParseThin(slices[i], i)]
           whole == slices # <<>> /\ merged = DOMAIN slices
           fat == Merge(results, whole)
           parse == ParseBinary(binary)
           symbols == [i \in DOMAIN results |-> results[i].symbols]
           swift(kind) == [i \in DOMAIN results |-> results[i].swift[kind]]
           names(kind) == [i \in DOMAIN swift(kind) |-> swift(kind)[i].names]
<1>1. slices \in Seq(MachoSlice)
  BY DEF MachoFile
<1>2. DOMAIN slices = 1 .. Len(slices) /\ Len(slices) \in Nat /\ \A i \in DOMAIN slices : slices[i] \in MachoSlice
  BY <1>1, LenProperties, ElementOfSeq
<1>3. merged \in SUBSET DOMAIN slices /\ merged \in SUBSET Nat /\ IsFiniteSet(merged)
  <2>1. merged \in SUBSET (1 .. Len(slices))
    BY <1>2
  <2> HIDE DEF merged
  <2>2. IsFiniteSet(merged)
    BY <1>2, <2>1, UpToFinite
  <2> QED BY <1>2, <2>1, <2>2
<1>4. DOMAIN results = merged /\ \A i \in merged : SliceTold(results[i], slices[i], i)
  <2> HIDE DEF merged, slices
  <2>1. ASSUME NEW i \in merged PROVE SliceTold(results[i], slices[i], i)
    <3>1. slices[i] \in MachoSlice /\ i \in Nat
      BY <1>2, <1>3
    <3> QED BY <3>1, ThinTold
  <2> QED BY <2>1
<1>5. /\ fat.macho = TRUE
      /\ fat.status = "complete" => whole /\ \A i \in merged : results[i].status = "complete"
      /\ fat.symbols = Cut(Joined(symbols), MaxSymbols)
      /\ fat.dylibs = UNION {results[i].dylibs : i \in merged}
      /\ \A kind \in SwiftSections : fat.swift[kind] = MergeSwift(swift(kind))
      /\ DOMAIN fat = {"macho", "status", "symbols", "dylibs", "swift"}
  <2> HIDE DEF results, whole, merged
  <2> QED BY <1>4 DEF Merge
<1>6. /\ parse.symbols = fat.symbols /\ parse.dylibs = fat.dylibs /\ parse.swift = fat.swift
      /\ parse.status = "complete" => ~binary.over /\ fat.status = "complete"
  <2>1. parse = Bounded(binary.over, ParseFat(binary.slices))
    BY DEF ParseBinary
  <2>2. ParseFat(binary.slices) = fat
    BY DEF ParseFat
  <2>3. parse = IF binary.over THEN [fat EXCEPT !.status = "partial"] ELSE fat
    BY <2>1, <2>2 DEF Bounded
  <2> HIDE DEF fat, parse
  <2>4. CASE binary.over
    <3>1. parse = [fat EXCEPT !.status = "partial"]
      BY <2>3, <2>4
    <3> QED BY <1>5, <3>1
  <2> QED BY <2>3, <2>4
<1>7. /\ DOMAIN symbols = merged /\ \A i \in merged : symbols[i] = results[i].symbols
      /\ \A kind : DOMAIN swift(kind) = merged /\ \A i \in merged : swift(kind)[i] = results[i].swift[kind]
      /\ \A kind : DOMAIN names(kind) = merged /\ \A i \in merged : names(kind)[i] = results[i].swift[kind].names
  <2> HIDE DEF results
  <2> QED BY <1>4
<1> HIDE DEF fat, parse, results, symbols, merged
<1>8. /\ NamesKept(parse.symbols) \in Nat /\ NamesKept(parse.symbols) <= MaxSymbols
      /\ Range(parse.symbols) \subseteq UNION {Range(symbols[i]) : i \in merged}
      /\ Range(parse.symbols) = UNION {Range(symbols[i]) : i \in merged} \/ NamesKept(parse.symbols) = MaxSymbols
  <2>1. \A i \in DOMAIN symbols : ListTold(symbols[i], i, MaxSymbols)
    BY <1>4, <1>7 DEF SliceTold
  <2>2. MaxSymbols \in Nat
    BY ArchiveInputs
  <2>3. DOMAIN symbols \in SUBSET Nat /\ IsFiniteSet(DOMAIN symbols)
    BY <1>3, <1>7
  <2> DEFINE list == Cut(Joined(symbols), MaxSymbols)
  <2>4. /\ NamesKept(list) \in Nat /\ NamesKept(list) <= MaxSymbols
        /\ Range(list) \subseteq UNION {Range(symbols[i]) : i \in DOMAIN symbols}
        /\ Range(list) = UNION {Range(symbols[i]) : i \in DOMAIN symbols} \/ NamesKept(list) = MaxSymbols
    BY <2>1, <2>2, <2>3, MergedList
  <2>5. parse.symbols = list
    BY <1>5, <1>6
  <2> HIDE DEF list
  <2> QED BY <1>7, <2>4, <2>5
<1>9. Range(slices) = {slices[i] : i \in DOMAIN slices}
  BY DEF Range
<1> HIDE DEF slices
<1>10. Range(parse.symbols) \subseteq UNION {AnyNames(slice) : slice \in Range(slices)}
  <2>1. \A i \in merged : Range(symbols[i]) \subseteq AnyNames(slices[i])
    BY <1>4, <1>7 DEF SliceTold
  <2>2. \A i \in merged : slices[i] \in Range(slices)
    BY <1>3, <1>9
  <2> QED BY <1>8, <2>1, <2>2
<1>11. /\ SymbolsOf(binary) = UNION {TableNames(slice) : slice \in Range(slices)}
       /\ \A kind : \A s \in SectionsOf(binary, kind) : \E slice \in Range(slices) : s \in SectionIn(slice, kind)
       /\ (UNION {Range(c.names) : c \in CommandsOf(binary, "symtab")}) \ {"bad"}
            = UNION {AnyNames(slice) : slice \in Range(slices)}
       /\ {c.name : c \in CommandsOf(binary, "dylib")} \ {"bad"}
            = UNION {LibrariesOf(slice) : slice \in Range(slices)}
  BY Contents DEF slices
<1>12. ASSUME parse.status = "complete"
       PROVE  /\ ~binary.over /\ binary.kind # "other"
              /\ \A s \in Range(slices) : WholeSlice(s) /\ (binary.kind = "fat" => Merges(s))
              /\ \A s \in SectionsOf(binary, "__cstring") : s.inside
              /\ Range(parse.symbols) = SymbolsOf(binary) \/ NamesKept(parse.symbols) = MaxSymbols
              /\ \A kind \in SwiftSections :
                   parse.swift[kind].status = "parsed" =>
                     \A s \in SectionsOf(binary, kind) : EntriesListed(s, kind, parse.swift[kind].names)
              /\ parse.dylibs = {c.name : c \in CommandsOf(binary, "dylib")} \ {"bad"}
  <2>1. ~binary.over /\ merged = DOMAIN slices /\ \A i \in merged : results[i].status = "complete"
    BY <1>5, <1>6, <1>12
  <2>2. \A i \in merged : Merges(slices[i])
    BY DEF merged
  <2>3. \A i \in merged :
          /\ WholeSlice(slices[i])
          /\ \A s \in SectionIn(slices[i], "__cstring") : s.inside
          /\ Range(symbols[i]) = TableNames(slices[i])
          /\ \A kind \in SwiftSections : \A s \in SectionIn(slices[i], kind) :
               /\ results[i].swift[kind].status # "not_attempted"
               /\ results[i].swift[kind].status = "parsed" => EntriesListed(s, kind, results[i].swift[kind].names)
          /\ results[i].dylibs = LibrariesOf(slices[i])
    BY <1>4, <1>7, <2>1 DEF SliceTold
  <2>4. \A s \in Range(slices) : WholeSlice(s) /\ (binary.kind = "fat" => Merges(s))
    BY <1>9, <2>1, <2>2, <2>3
  <2>5. \A s \in SectionsOf(binary, "__cstring") : s.inside
    BY <1>9, <1>11, <2>1, <2>3
  <2>6. UNION {Range(symbols[i]) : i \in merged} = UNION {TableNames(slice) : slice \in Range(slices)}
    <3>1. \A x : x \in UNION {Range(symbols[i]) : i \in merged}
                   <=> \E i \in merged : x \in TableNames(slices[i])
      BY <2>3
    <3>2. \A x : x \in UNION {TableNames(slice) : slice \in Range(slices)}
                   <=> \E i \in merged : x \in TableNames(slices[i])
      BY <1>9, <2>1
    <3> QED BY <3>1, <3>2
  <2>7. parse.dylibs = {c.name : c \in CommandsOf(binary, "dylib")} \ {"bad"}
    <3>1. parse.dylibs = UNION {results[i].dylibs : i \in merged}
      BY <1>5, <1>6
    <3>2. \A x : x \in UNION {results[i].dylibs : i \in merged}
                   <=> \E i \in merged : x \in LibrariesOf(slices[i])
      BY <2>3
    <3>3. \A x : x \in UNION {LibrariesOf(slice) : slice \in Range(slices)}
                   <=> \E i \in merged : x \in LibrariesOf(slices[i])
      BY <1>9, <2>1
    <3>4. UNION {results[i].dylibs : i \in merged} = UNION {LibrariesOf(slice) : slice \in Range(slices)}
      BY <3>2, <3>3
    <3> QED BY <1>11, <3>1, <3>4
  <2>8. ASSUME NEW kind \in SwiftSections, parse.swift[kind].status = "parsed", NEW s \in SectionsOf(binary, kind)
        PROVE  EntriesListed(s, kind, parse.swift[kind].names)
    <3> DEFINE lists == swift(kind)
               attempted == {i \in DOMAIN lists : lists[i].status # "not_attempted"}
               taken == Cut(Joined(names(kind)), MaxNames)
    <3>1. PICK i \in merged : s \in SectionIn(slices[i], kind)
      BY <1>9, <1>11, <2>1
    <3>2. /\ results[i].swift[kind].status # "not_attempted"
          /\ results[i].swift[kind].status = "parsed" => EntriesListed(s, kind, results[i].swift[kind].names)
      BY <2>3, <3>1
    <3>3. i \in attempted
      BY <1>7, <3>2
    <3>4. parse.swift[kind] = MergeSwift(lists)
      BY <1>5, <1>6
    <3> HIDE DEF swift
    <3>5. /\ parse.swift[kind].names = taken
          /\ parse.swift[kind].status =
               IF attempted = {} THEN "not_attempted"
               ELSE IF \A j \in attempted : lists[j].status = "parsed" THEN "parsed" ELSE "partial"
      BY <3>4 DEF MergeSwift
    <3>6. lists[i].status = "parsed"
      BY <2>8, <3>3, <3>5
    <3>7. EntriesListed(s, kind, names(kind)[i])
      BY <1>7, <3>2, <3>6
    <3>8. \A j \in DOMAIN names(kind) : ListTold(names(kind)[j], j, MaxNames)
      BY <1>4, <1>7 DEF SliceTold
    <3>9. MaxNames \in Nat /\ DOMAIN names(kind) \in SUBSET Nat /\ IsFiniteSet(DOMAIN names(kind)) /\ i \in DOMAIN names(kind)
      BY <1>3, <1>7, ArchiveInputs
    <3> HIDE DEF names
    <3>10. /\ Range(taken) = UNION {Range(names(kind)[j]) : j \in DOMAIN names(kind)} \/ NamesKept(taken) = MaxNames
           /\ NamesKept(names(kind)[i]) = MaxNames => NamesKept(taken) = MaxNames
      BY <3>8, <3>9, MergedList
    <3> HIDE DEF taken
    <3>11. Range(names(kind)[i]) \subseteq Range(taken) \/ NamesKept(taken) = MaxNames
      BY <3>9, <3>10
    <3> QED BY <3>5, <3>7, <3>10, <3>11, ListedInWhole
  <2> QED BY <1>8, <1>11, <2>1, <2>4, <2>5, <2>6, <2>7, <2>8
<1>13. ParsedHonestly(parse, binary)
  BY <1>10, <1>11, <1>12 DEF ParsedHonestly, slices
<1> QED BY <1>8, <1>13 DEF BinaryTold, parse

\* A file is parsed honestly, and so is one that is left unparsed.
LEMMA ParseTold ==
    ASSUME NEW binary \in MachoFile
    PROVE  BinaryTold(ParseBinary(binary), binary) /\ BinaryTold(NoMacho, binary)
<1>1. BinaryTold(NoMacho, binary)
  <2>1. NoMacho.status = "not_macho" /\ NoMacho.symbols = <<>>
    BY DEF NoMacho
  <2>2. Range(NoMacho.symbols) = {}
    BY <2>1 DEF Range
  <2>3. NamesKept(NoMacho.symbols) = 0 /\ MaxSymbols \in Nat
    BY <2>2, FS_EmptySet, ArchiveInputs DEF NamesKept
  <2>4. ParsedHonestly(NoMacho, binary)
    BY <2>1, <2>2 DEF ParsedHonestly
  <2> QED BY <2>3, <2>4 DEF BinaryTold
<1>2. CASE binary.kind = "other"
  BY <1>1, <1>2 DEF ParseBinary
<1>3. CASE binary.kind = "fat"
  BY <1>1, <1>3, FatHonest
<1>4. CASE binary.kind # "other" /\ binary.kind # "fat"
  BY <1>1, <1>4, ThinHonest
<1> QED BY <1>2, <1>3, <1>4

-----------------------------------------------------------------------------
(***************************************************************************)
(* What a review compares.                                                 *)
(***************************************************************************)
\* A review that is called analyzed compares the symbols with what was kept, and
\* that with what was declared.
LEMMA ReviewIs ==
    ASSUME NEW parse, NEW kept, NEW state, NEW binary, NEW owned, NEW uncut, BinaryTold(parse, binary),
           ReviewSymbols(parse, kept, state).status = "analyzed" => kept \subseteq owned /\ (uncut => kept = owned)
    PROVE  /\ Compared(ReviewSymbols(parse, kept, state), parse, binary, owned, uncut)
           /\ ReviewSymbols(parse, kept, state).status = "analyzed" =>
                parse.macho /\ state # "invalid" /\ state # "partial"
<1> DEFINE review == ReviewSymbols(parse, kept, state)
           marked == {Marker[x] : x \in SymbolsOf(binary) \cap DOMAIN Marker}
<1>1. SUFFICES ASSUME review.status = "analyzed"
               PROVE  /\ parse.status = "complete"
                      /\ Observed(parse.symbols) \ review.missing \subseteq owned
                      /\ uncut => /\ review.missing \cap owned = {}
                                  /\ NamesKept(parse.symbols) < MaxSymbols => review.missing = marked \ owned
                      /\ parse.macho /\ state # "invalid" /\ state # "partial"
  BY DEF Compared
<1>2. /\ state # "invalid" /\ state # "partial" /\ parse.macho /\ parse.status = "complete"
      /\ review.missing = Observed(parse.symbols) \ kept
  BY <1>1 DEF ReviewSymbols, NotReviewed
<1>3. kept \subseteq owned /\ (uncut => kept = owned)
  BY <1>1
<1> HIDE DEF review
<1>4. ASSUME uncut, NamesKept(parse.symbols) < MaxSymbols
      PROVE  review.missing = marked \ owned
  <2>1. NamesKept(parse.symbols) # MaxSymbols /\ ParsedHonestly(parse, binary)
    BY <1>4, ArchiveInputs DEF BinaryTold
  <2>2. Range(parse.symbols) = SymbolsOf(binary)
    BY <1>2, <2>1 DEF ParsedHonestly
  <2> QED BY <1>2, <1>3, <1>4, <2>2 DEF Observed
<1> HIDE DEF marked
<1> QED BY <1>2, <1>3, <1>4

-----------------------------------------------------------------------------
(***************************************************************************)
(* The review of an archive.                                               *)
(***************************************************************************)
\* What is told of the executable and of the n-th framework.
OwnParse == ParseBinary(archive.binary)
OwnCompared(review, status) ==
    Compared(review, OwnParse, archive.binary, DeclaredBy({0}), DeclaredWithin \/ status = "parsed")
Frameworks == DOMAIN archive.frameworks
RowOf(n) ==
    FrameworkRow(ParseBinary(archive.frameworks[n].binary), AuditManifests(ManifestsOf({n}), FALSE))

\* What the review of an archive keeps true.  Until something goes wrong with a
\* framework the rows are those of the frameworks met so far, one for each.
IosInv ==
    /\ archive \in Archives
    /\ pass \in {"unpack", "parse", "review", "frameworks", "done"}
    /\ DOMAIN told = DOMAIN NoResult
    /\ told.macho \in {OwnParse, NoMacho}
    /\ OwnCompared(told.review, told.manifests)
    /\ told.manifests \in {"none", "absent", "parsed", "partial", "invalid"}
    /\ told.number \in 1 .. Len(archive.frameworks) + 1
    /\ told.rows \in Seq({RowOf(n) : n \in Frameworks}) /\ Len(told.rows) <= MaxFrameworks
    /\ told.bytes \in Nat /\ told.bytes <= MaxFrameworkBytes
    /\ told.errors \subseteq {"executable", "framework", "framework_manifest"}
    /\ told.end \in {"none", "result", "failure"}
    /\ pass \in {"unpack", "parse"} => told.errors = {}
    /\ (pass \in {"review", "frameworks"} \/ told.end = "result") /\ "executable" \notin told.errors =>
         archive.binary.kind = "thin64"
    /\ pass # "done" =>
         /\ told.frameworks = "not_analyzed" /\ told.end = "none"
         /\ told.errors \subseteq {"executable"} =>
              Len(told.rows) = told.number - 1 /\ \A n \in 1 .. told.number - 1 : told.rows[n] = RowOf(n)
    /\ told.frameworks = "analyzed" =>
         /\ Len(told.rows) = Len(archive.frameworks)
         /\ \A n \in Frameworks : told.rows[n] = RowOf(n) /\ told.rows[n].status = "analyzed"

\* The files and manifests of an archive.
LEMMA ArchiveIs ==
    ASSUME archive \in Archives
    PROVE  /\ archive.binary \in MachoFile
           /\ Len(archive.frameworks) \in Nat /\ Frameworks = 1 .. Len(archive.frameworks)
           /\ archive.manifest \in PrivacyManifest
           /\ \A n \in Frameworks :
                /\ archive.frameworks[n].binary \in MachoFile /\ archive.frameworks[n].size \in Nat
                /\ archive.frameworks[n].manifests \in Seq(PrivacyManifest)
           /\ archive.reach \in 0 .. Len(archive.frameworks)
<1>1. /\ archive.binary \in MachoFile /\ archive.manifest \in PrivacyManifest
      /\ archive.frameworks \in Seq([binary : MachoFile, size : Nat, manifests : Seq(PrivacyManifest)])
      /\ archive.reach \in 0 .. Len(archive.frameworks)
  BY ArchiveInputs
<1>2. Len(archive.frameworks) \in Nat /\ Frameworks = 1 .. Len(archive.frameworks)
  BY <1>1, LenProperties DEF Frameworks
<1>3. \A n \in Frameworks : archive.frameworks[n] \in [binary : MachoFile, size : Nat, manifests : Seq(PrivacyManifest)]
  BY <1>1, <1>2, ElementOfSeq
<1> QED BY <1>1, <1>2, <1>3

\* The manifests of a bundle.
LEMMA ManifestsAre ==
    ASSUME archive \in Archives, NEW k \in 0 .. Len(archive.frameworks)
    PROVE  /\ Manifests(k) \in Seq(PrivacyManifest)
           /\ DOMAIN Manifests(k) \in SUBSET Nat /\ IsFiniteSet(DOMAIN Manifests(k))
           /\ \A i \in DOMAIN Manifests(k) : Manifests(k)[i] \in PrivacyManifest
<1>1. Manifests(k) \in Seq(PrivacyManifest)
  <2>1. CASE k > 0
    <3>1. k \in Frameworks
      BY <2>1, ArchiveIs
    <3> QED BY <2>1, <3>1, ArchiveIs DEF Manifests
  <2>2. CASE ~(k > 0)
    <3>1. archive.manifest \in PrivacyManifest
      BY ArchiveIs
    <3>2. <<archive.manifest>> \in Seq(PrivacyManifest) /\ <<>> \in Seq(PrivacyManifest)
      BY <3>1
    <3> QED BY <2>2, <3>2 DEF Manifests
  <2> QED BY <2>1, <2>2
<1>2. DOMAIN Manifests(k) = 1 .. Len(Manifests(k)) /\ Len(Manifests(k)) \in Nat
  BY <1>1, LenProperties
<1>3. IsFiniteSet(DOMAIN Manifests(k))
  BY <1>2, FS_Interval
<1>4. \A i \in DOMAIN Manifests(k) : Manifests(k)[i] \in PrivacyManifest
  BY <1>1, <1>2, ElementOfSeq
<1> QED BY <1>1, <1>2, <1>3, <1>4

\* Where the manifests of some bundles stand.
LEMMA FoundIs ==
    ASSUME archive \in Archives, NEW some \in SUBSET (0 .. Len(archive.frameworks))
    PROVE  /\ IsFiniteSet(DOMAIN ManifestsOf(some))
           /\ \A k \in some : \A i \in DOMAIN Manifests(k) :
                /\ <<-k, -i, 0>> \in DOMAIN ManifestsOf(some)
                /\ ManifestsOf(some)[<<-k, -i, 0>>] = Manifests(k)[i]
           /\ \A p \in DOMAIN ManifestsOf(some) :
                \E k \in some : \E i \in DOMAIN Manifests(k) :
                  p = <<-k, -i, 0>> /\ ManifestsOf(some)[p] = Manifests(k)[i]
<1> DEFINE found == ManifestsOf(some)
           places == UNION {{<<-k, -i, 0>> : i \in DOMAIN Manifests(k)} : k \in some}
<1>1. found = [p \in places |-> Manifests(-p[1])[-p[2]]]
  BY DEF ManifestsOf
<1>2. some \in SUBSET Int /\ IsFiniteSet(some)
  <2>1. Len(archive.frameworks) \in Nat
    BY ArchiveIs
  <2>2. IsFiniteSet(0 .. Len(archive.frameworks))
    BY <2>1, FS_Interval
  <2>3. IsFiniteSet(some)
    BY <2>2, FS_Subset
  <2>4. some \in SUBSET Int
    BY <2>1
  <2> QED BY <2>3, <2>4
<1>3. \A k \in some : \A i \in DOMAIN Manifests(k) : k \in Int /\ i \in Int /\ -(-k) = k /\ -(-i) = i
  BY <1>2, ManifestsAre
<1>4. ASSUME NEW k \in some, NEW i \in DOMAIN Manifests(k)
      PROVE  <<-k, -i, 0>> \in places /\ found[<<-k, -i, 0>>] = Manifests(k)[i]
  <2>1. <<-k, -i, 0>> \in places
    OBVIOUS
  <2>2. found[<<-k, -i, 0>>] = Manifests(-(-k))[-(-i)]
    BY <1>1, <2>1
  <2> QED BY <1>3, <2>1, <2>2
<1>5. IsFiniteSet(places)
  <2> DEFINE at_ == [k \in some |-> {<<-k, -i, 0>> : i \in DOMAIN Manifests(k)}]
             parts == {at_[k] : k \in some}
  <2>1. ASSUME NEW k \in some PROVE IsFiniteSet(at_[k])
    <3> DEFINE f == [i \in DOMAIN Manifests(k) |-> <<-k, -i, 0>>]
    <3>1. at_[k] = {f[i] : i \in DOMAIN Manifests(k)}
      OBVIOUS
    <3>2. IsFiniteSet(DOMAIN Manifests(k))
      BY ManifestsAre
    <3> HIDE DEF f, at_
    <3> QED BY <3>1, <3>2, ImageFinite
  <2>2. IsFiniteSet(parts)
    <3> HIDE DEF at_
    <3> QED BY <1>2, ImageFinite
  <2>3. places = UNION parts
    OBVIOUS
  <2>4. \A T \in parts : IsFiniteSet(T)
    <3> HIDE DEF at_
    <3> QED BY <2>1
  <2> HIDE DEF parts, places
  <2> QED BY <2>2, <2>3, <2>4, FS_UNION
<1>6. DOMAIN found = places
  BY <1>1
<1>7. ASSUME NEW p \in places
      PROVE  \E k \in some : \E i \in DOMAIN Manifests(k) : p = <<-k, -i, 0>> /\ found[p] = Manifests(k)[i]
  <2>1. PICK k \in some : \E i \in DOMAIN Manifests(k) : p = <<-k, -i, 0>>
    OBVIOUS
  <2>2. PICK i \in DOMAIN Manifests(k) : p = <<-k, -i, 0>>
    BY <2>1
  <2> HIDE DEF found, places
  <2> QED BY <1>4, <2>2
<1> HIDE DEF found, places
<1>8. /\ IsFiniteSet(DOMAIN found)
      /\ \A k \in some : \A i \in DOMAIN Manifests(k) :
           <<-k, -i, 0>> \in DOMAIN found /\ found[<<-k, -i, 0>>] = Manifests(k)[i]
      /\ \A p \in DOMAIN found :
           \E k \in some : \E i \in DOMAIN Manifests(k) : p = <<-k, -i, 0>> /\ found[p] = Manifests(k)[i]
  BY <1>4, <1>5, <1>6, <1>7
<1> QED BY <1>8 DEF found

\* The entries of a manifest that was found.
LEMMA EntriesAre ==
    ASSUME archive \in Archives, NEW some \in SUBSET (0 .. Len(archive.frameworks)),
           NEW p \in DOMAIN ManifestsOf(some)
    PROVE  LET m == ManifestsOf(some)[p]
           IN /\ m \in PrivacyManifest /\ p \in Place /\ p = <<p[1], p[2], 0>>
              /\ Len(m.entries) \in Nat /\ DOMAIN m.entries = 1 .. Len(m.entries)
              /\ IsFiniteSet(Entries(m)) /\ Entries(m) \subseteq DeclaredBy(some)
<1> DEFINE m == ManifestsOf(some)[p]
<1>1. PICK k \in some : \E i \in DOMAIN Manifests(k) : p = <<-k, -i, 0>> /\ m = Manifests(k)[i]
  BY FoundIs
<1>2. PICK i \in DOMAIN Manifests(k) : p = <<-k, -i, 0>> /\ m = Manifests(k)[i]
  BY <1>1
<1> HIDE DEF m
<1>3. k \in 0 .. Len(archive.frameworks) /\ k \in Int
  BY ArchiveIs
<1>4. m \in PrivacyManifest /\ i \in Int
  BY <1>2, <1>3, ManifestsAre
<1>5. p \in Place /\ p = <<p[1], p[2], 0>>
  BY <1>2, <1>3, <1>4 DEF Place
<1>6. m.entries \in Seq(STRING)
  BY <1>4 DEF PrivacyManifest
<1>7. Len(m.entries) \in Nat /\ DOMAIN m.entries = 1 .. Len(m.entries)
  BY <1>6, LenProperties
<1>8. IsFiniteSet(Entries(m))
  <2>1. IsFiniteSet(DOMAIN m.entries)
    BY <1>7, FS_Interval
  <2>2. IsFiniteSet(Range(m.entries))
    BY <2>1, ImageFinite DEF Range
  <2> QED BY <2>2, FS_Subset DEF Entries
<1>9. Entries(m) \subseteq DeclaredBy(some)
  <2>1. m \in Range(Manifests(k))
    BY <1>2 DEF Range
  <2> QED BY <2>1 DEF DeclaredBy
<1> QED BY <1>4, <1>5, <1>7, <1>8, <1>9 DEF m

\* What is collected of some manifests is declared in them, all of it when the audit
\* keeps each of them whole.
LEMMA CollectedIs ==
    ASSUME archive \in Archives, NEW some \in SUBSET (0 .. Len(archive.frameworks))
    PROVE  LET found == ManifestsOf(some)
               list == Declarations(found)
           IN /\ DOMAIN list \in SUBSET Place /\ IsFiniteSet(DOMAIN list)
              /\ Range(list) \subseteq DeclaredBy(some) /\ Collected(found) \subseteq DeclaredBy(some)
              /\ \A p \in ReadOf(found) :
                   Len(found[p].entries) <= MaxCategories => Entries(found[p]) \subseteq Range(list)
<1> DEFINE found == ManifestsOf(some)
           list == Declarations(found)
           readable(p) == {n \in InLimit(found[p]) : found[p].entries[n] # "bad"}
           at_ == [p \in ReadOf(found) |-> readable(p)]
           places == UNION {{p[1]} \X {p[2]} \X readable(p) : p \in ReadOf(found)}
<1>1. list = [q \in places |-> found[<<q[1], q[2], 0>>].entries[q[3]]]
  BY DEF Declarations
<1>2. ReadOf(found) \in SUBSET DOMAIN found /\ IsFiniteSet(DOMAIN found)
  BY FoundIs DEF ReadOf, Within, Chosen
<1>3. ASSUME NEW p \in ReadOf(found)
      PROVE  /\ p \in Place /\ p = <<p[1], p[2], 0>> /\ Len(found[p].entries) \in Nat
             /\ DOMAIN found[p].entries = 1 .. Len(found[p].entries)
             /\ readable(p) \in SUBSET DOMAIN found[p].entries /\ readable(p) \in SUBSET Int
             /\ IsFiniteSet(readable(p))
             /\ Entries(found[p]) \subseteq DeclaredBy(some)
  <2>1. p \in DOMAIN found
    BY <1>2
  <2>2. /\ p \in Place /\ p = <<p[1], p[2], 0>> /\ Len(found[p].entries) \in Nat
        /\ DOMAIN found[p].entries = 1 .. Len(found[p].entries)
        /\ Entries(found[p]) \subseteq DeclaredBy(some)
    BY <2>1, EntriesAre
  <2>3. readable(p) \in SUBSET DOMAIN found[p].entries
    BY DEF InLimit
  <2>4. IsFiniteSet(readable(p)) /\ readable(p) \in SUBSET Int
    <3> DEFINE n == Len(found[p].entries)
    <3>1. DOMAIN found[p].entries = 1 .. n /\ n \in Int
      BY <2>2
    <3> HIDE DEF readable, found, n
    <3>2. IsFiniteSet(DOMAIN found[p].entries) /\ DOMAIN found[p].entries \in SUBSET Int
      BY <3>1, FS_Interval
    <3>3. IsFiniteSet(readable(p))
      BY <2>3, <3>2, FS_Subset
    <3> QED BY <2>3, <3>2, <3>3
  <2> QED BY <2>2, <2>3, <2>4
<1> HIDE DEF found
<1>4. \A q \in places : \E p \in ReadOf(found) : q = <<p[1], p[2], q[3]>> /\ q[3] \in readable(p)
  OBVIOUS
<1>5. places \in SUBSET Place
  <2>1. ASSUME NEW q \in places PROVE q \in Place
    <3>1. PICK p \in ReadOf(found) : q = <<p[1], p[2], q[3]>> /\ q[3] \in readable(p)
      BY <1>4
    <3>2. p \in Place /\ q[3] \in Int
      BY <1>3, <3>1
    <3> QED BY <3>1, <3>2 DEF Place
  <2> QED BY <2>1
<1>6. IsFiniteSet(places)
  <2> DEFINE part == [p \in ReadOf(found) |-> {p[1]} \X {p[2]} \X readable(p)]
             parts == {part[p] : p \in ReadOf(found)}
  <2>1. IsFiniteSet(ReadOf(found))
    BY <1>2, FS_Subset
  <2>2. ASSUME NEW p \in ReadOf(found) PROVE IsFiniteSet(part[p])
    <3> DEFINE some_ == readable(p)
               a == p[1]
               b == p[2]
    <3>1. IsFiniteSet(some_) /\ part[p] = {a} \X {b} \X some_
      BY <1>3
    <3> HIDE DEF part, some_, a, b
    <3>2. IsFiniteSet({a} \X {b} \X some_)
      BY <3>1, PlacesFinite
    <3> QED BY <3>1, <3>2
  <2>3. places = UNION parts
    OBVIOUS
  <2> HIDE DEF part, places
  <2>4. IsFiniteSet(parts)
    BY <2>1, ImageFinite
  <2> QED BY <2>2, <2>3, <2>4, FS_UNION
<1>7. ASSUME NEW p \in ReadOf(found), NEW n \in readable(p)
      PROVE  <<p[1], p[2], n>> \in places /\ list[<<p[1], p[2], n>>] = found[p].entries[n]
  <2>1. <<p[1], p[2], n>> \in places
    OBVIOUS
  <2>2. list[<<p[1], p[2], n>>] = found[<<p[1], p[2], 0>>].entries[n]
    BY <1>1, <2>1
  <2>3. p = <<p[1], p[2], 0>>
    BY <1>3
  <2> QED BY <2>1, <2>2, <2>3
<1>8. Range(list) \subseteq DeclaredBy(some)
  <2>1. ASSUME NEW q \in places PROVE list[q] \in DeclaredBy(some)
    <3>1. PICK p \in ReadOf(found) : q = <<p[1], p[2], q[3]>> /\ q[3] \in readable(p)
      BY <1>4
    <3>2. list[q] = found[p].entries[q[3]] /\ q[3] \in DOMAIN found[p].entries /\ found[p].entries[q[3]] # "bad"
      BY <1>3, <1>7, <3>1
    <3>3. list[q] \in Entries(found[p])
      BY <3>2 DEF Entries, Range
    <3> QED BY <1>3, <3>3
  <2>2. DOMAIN list = places
    BY <1>1
  <2> HIDE DEF list, places
  <2> QED BY <2>1, <2>2 DEF Range
<1>9. ASSUME NEW p \in ReadOf(found), Len(found[p].entries) <= MaxCategories
      PROVE  Entries(found[p]) \subseteq Range(list)
  <2>1. ASSUME NEW n \in DOMAIN found[p].entries, found[p].entries[n] # "bad"
        PROVE  found[p].entries[n] \in Range(list)
    <3>1. n \in InLimit(found[p])
      BY <1>3, <1>9, ArchiveInputs DEF InLimit
    <3>2. n \in readable(p)
      BY <2>1, <3>1
    <3>3. <<p[1], p[2], n>> \in DOMAIN list /\ list[<<p[1], p[2], n>>] = found[p].entries[n]
      BY <1>1, <1>7, <3>2
    <3> HIDE DEF list
    <3> QED BY <3>3 DEF Range
  <2> QED BY <2>1 DEF Entries, Range
<1>10. DOMAIN list = places
  BY <1>1
<1> HIDE DEF list, places
<1>11. Collected(found) \subseteq Range(list)
  <2>1. MaxAllCategories \in Nat
    BY ArchiveInputs
  <2>2. Range(Cut(list, MaxAllCategories)) \subseteq Range(list)
    BY <1>5, <1>6, <1>10, <2>1, CutIs
  <2> QED BY <2>2 DEF Collected, list
<1>12. Collected(found) \subseteq DeclaredBy(some)
  BY <1>8, <1>11
<1> QED BY <1>5, <1>6, <1>8, <1>9, <1>10, <1>12 DEF found, list

\* The manifests of one bundle, audited and neither invalid nor partial, were read
\* in full, and what they declare was collected.
LEMMA AuditedInFull ==
    ASSUME archive \in Archives, NEW some \in SUBSET (0 .. Len(archive.frameworks)), NEW cut \in BOOLEAN,
           AuditManifests(ManifestsOf(some), cut).status \notin {"invalid", "partial"}
    PROVE  LET found == ManifestsOf(some)
           IN /\ ReadOf(found) = DOMAIN found
              /\ \A p \in DOMAIN found : ~Malformed(found[p]) /\ KeptWhole(found[p], Collected(found))
<1> DEFINE found == ManifestsOf(some)
           whole == /\ Within(found) = DOMAIN found
                    /\ \A p \in ReadOf(found) : KeptWhole(found[p], Collected(found))
           audited == AuditManifests(found, cut)
<1>1. Within(found) \subseteq Chosen(found) /\ Chosen(found) \subseteq DOMAIN found
  BY DEF Within, Chosen
<1>2. audited.status = ManifestStatus(found, cut \/ ~whole)
  BY DEF AuditManifests
<1> HIDE DEF audited, whole
<1>3. audited.status \notin {"invalid", "partial"}
  BY DEF audited
<1>4. whole /\ (Chosen(found) # {} => \A p \in Within(found) : ~Malformed(found[p]))
  BY <1>2, <1>3 DEF ManifestStatus
<1>5. Within(found) = DOMAIN found /\ \A p \in ReadOf(found) : KeptWhole(found[p], Collected(found))
  BY <1>4 DEF whole
<1>6. \A p \in DOMAIN found : ~Malformed(found[p])
  <2>1. DOMAIN found # {} => Chosen(found) # {}
    BY <1>1, <1>5
  <2> HIDE DEF found
  <2> QED BY <1>4, <1>5, <2>1
<1>7. ReadOf(found) = DOMAIN found
  <2>1. \A p \in DOMAIN found : found[p].good
    BY <1>6 DEF Malformed
  <2> HIDE DEF found
  <2> QED BY <1>5, <2>1 DEF ReadOf
<1> QED BY <1>5, <1>6, <1>7

LEMMA FrameworkAudited ==
    ASSUME archive \in Archives, NEW n \in Frameworks,
           AuditManifests(ManifestsOf({n}), FALSE).status \notin {"invalid", "partial"}
    PROVE  /\ AuditManifests(ManifestsOf({n}), FALSE).categories = DeclaredBy({n})
           /\ \A m \in Range(Manifests(n)) : m.good /\ "bad" \notin Range(m.entries)
<1> DEFINE found == ManifestsOf({n})
<1>1. {n} \in SUBSET (0 .. Len(archive.frameworks))
  BY ArchiveIs
<1>2. /\ ReadOf(found) = DOMAIN found
      /\ \A p \in DOMAIN found : ~Malformed(found[p]) /\ KeptWhole(found[p], Collected(found))
  BY <1>1, AuditedInFull
<1>3. \A m \in Range(Manifests(n)) : \E p \in DOMAIN found : m = found[p]
  <2>1. ASSUME NEW i \in DOMAIN Manifests(n) PROVE \E p \in DOMAIN found : Manifests(n)[i] = found[p]
    <3>1. <<-n, -i, 0>> \in DOMAIN found /\ found[<<-n, -i, 0>>] = Manifests(n)[i]
      BY <1>1, FoundIs
    <3> HIDE DEF found
    <3> QED BY <3>1
  <2> HIDE DEF found
  <2> QED BY <2>1 DEF Range
<1>4. Collected(found) \subseteq DeclaredBy({n})
  BY <1>1, CollectedIs
<1>5. AuditManifests(found, FALSE).categories = Collected(found)
  BY DEF AuditManifests
<1> HIDE DEF found
<1>6. \A m \in Range(Manifests(n)) : /\ m.good /\ "bad" \notin Range(m.entries)
                                     /\ Entries(m) \subseteq Collected(found)
  BY <1>2, <1>3 DEF Malformed, KeptWhole
<1>7. DeclaredBy({n}) = UNION {Entries(m) : m \in Range(Manifests(n))}
  BY DEF DeclaredBy
<1>8. DeclaredBy({n}) \subseteq Collected(found)
  BY <1>6, <1>7
<1> QED BY <1>4, <1>5, <1>6, <1>8 DEF found

\* The declarations of all the manifests of an application are finitely many.
LEMMA DeclaredFinite ==
    ASSUME archive \in Archives, NEW some \in SUBSET (0 .. Len(archive.frameworks))
    PROVE  IsFiniteSet(DeclaredBy(some))
<1> DEFINE found == ManifestsOf(some)
           entries == [p \in DOMAIN found |-> Entries(found[p])]
           all == {entries[p] : p \in DOMAIN found}
<1>1. IsFiniteSet(DOMAIN found)
  BY FoundIs
<1>2. \A p \in DOMAIN found : IsFiniteSet(entries[p])
  BY EntriesAre
<1>3. \A k \in some : \A m \in Range(Manifests(k)) : \E p \in DOMAIN found : entries[p] = Entries(m)
  <2>1. ASSUME NEW k \in some, NEW i \in DOMAIN Manifests(k)
        PROVE  \E p \in DOMAIN found : entries[p] = Entries(Manifests(k)[i])
    <3>1. <<-k, -i, 0>> \in DOMAIN found /\ found[<<-k, -i, 0>>] = Manifests(k)[i]
      BY FoundIs
    <3> HIDE DEF found
    <3> QED BY <3>1
  <2> HIDE DEF entries, found
  <2> QED BY <2>1 DEF Range
<1> HIDE DEF entries, found
<1>4. IsFiniteSet(all)
  BY <1>1, ImageFinite
<1>5. IsFiniteSet(UNION all)
  BY <1>2, <1>4, FS_UNION
<1>6. DeclaredBy(some) \subseteq UNION all
  <2>1. ASSUME NEW c \in DeclaredBy(some) PROVE c \in UNION all
    <3>1. PICK k \in some : \E m \in Range(Manifests(k)) : c \in Entries(m)
      BY DEF DeclaredBy
    <3>2. PICK m \in Range(Manifests(k)) : c \in Entries(m)
      BY <3>1
    <3>3. PICK p \in DOMAIN found : entries[p] = Entries(m)
      BY <1>3
    <3> QED BY <3>2, <3>3
  <2> QED BY <2>1
<1> QED BY <1>5, <1>6, FS_Subset

\* What is kept of the root's manifest is declared in it; within the limits, or where
\* the summary's own status is parsed, all of it.
LEMMA RootKept ==
    ASSUME archive \in Archives, ManifestState # "invalid", NEW status \in Summaries(OwnAudit.status)
    PROVE  /\ KeptOfRoot \subseteq DeclaredBy({0})
           /\ DeclaredWithin \/ status = "parsed" => KeptOfRoot = DeclaredBy({0})
<1> DEFINE some == 0 .. archive.reach
           found == ManifestsOf(some)
           root == archive.manifest
           collected == Collected(found)
<1>1. some \in SUBSET (0 .. Len(archive.frameworks)) /\ 0 \in some /\ Len(archive.frameworks) \in Nat
  BY ArchiveIs
<1>2. CASE root = NoManifest
  <2>1. KeptOfRoot = {}
    BY <1>2 DEF KeptOfRoot, ManifestState
  <2>2. Range(Manifests(0)) = {}
    BY <1>2 DEF Manifests, Range
  <2>3. DeclaredBy({0}) = {}
    BY <2>2 DEF DeclaredBy
  <2> QED BY <2>1, <2>3
<1>3. CASE root # NoManifest
  <2>1. Manifests(0) = <<root>>
    BY <1>3 DEF Manifests
  <2>2. DeclaredBy({0}) = Entries(root)
    <3>1. Range(Manifests(0)) = {root}
      BY <2>1 DEF Range
    <3> QED BY <3>1 DEF DeclaredBy
  <2>3. ManifestState = "parsed" /\ Root \in ReadOf(found)
    BY <1>3 DEF ManifestState, OwnManifests
  <2>4. Root \in DOMAIN found /\ found[Root] = root
    <3>1. 1 \in DOMAIN Manifests(0) /\ Manifests(0)[1] = root
      BY <2>1
    <3>2. <<-0, -1, 0>> \in DOMAIN found /\ found[<<-0, -1, 0>>] = root
      BY <1>1, <3>1, FoundIs
    <3>3. Root = <<-0, -1, 0>>
      <4> DEFINE zero == -0
      <4>1. zero \in Int /\ zero + 0 = 0
        OBVIOUS
      <4> HIDE DEF zero
      <4>2. <<zero, -1, 0>> = Root
        BY <4>1 DEF Root
      <4> QED BY <4>2 DEF zero
    <3> HIDE DEF found
    <3> QED BY <3>2, <3>3
  <2>5. OwnAudit = AuditManifests(found, Crowded) /\ OwnAudit.categories = collected
    BY DEF OwnAudit, OwnManifests, AuditManifests
  <2>6. KeptOfRoot = KeptIn(root, collected)
    BY <2>3, <2>5 DEF KeptOfRoot
  <2>7. Len(root.entries) \in Nat /\ DOMAIN root.entries = 1 .. Len(root.entries)
    BY <1>1, <2>4, EntriesAre
  <2>8. KeptOfRoot \subseteq Entries(root)
    BY <2>6 DEF KeptIn, InLimit, Entries, Range
  <2>9. KeptWhole(root, collected) => KeptOfRoot = Entries(root)
    <3>1. SUFFICES ASSUME KeptWhole(root, collected) PROVE Entries(root) \subseteq KeptIn(root, collected)
      BY <2>6, <2>8
    <3>2. ASSUME NEW n \in DOMAIN root.entries, root.entries[n] # "bad"
          PROVE  root.entries[n] \in KeptIn(root, collected)
      <4>1. n \in InLimit(root)
        BY <2>7, <3>1, ArchiveInputs DEF InLimit, KeptWhole
      <4>2. \A l \in DOMAIN root.entries : root.entries[l] \in collected \cup {"bad"}
        BY <3>1 DEF KeptWhole, Entries, Range
      <4>3. \A l \in 1 .. n : root.entries[l] \in collected \cup {"bad"}
        BY <2>7, <4>2
      <4> HIDE DEF collected
      <4> QED BY <3>2, <4>1, <4>3 DEF KeptIn
    <3> QED BY <3>2 DEF Entries, Range
  <2>10. ASSUME DeclaredWithin PROVE KeptWhole(root, collected)
    <3> DEFINE list == Declarations(found)
               all == DeclaredBy(0 .. Len(archive.frameworks))
    <3>1. Len(root.entries) <= MaxCategories /\ Cardinality(all) <= MaxAllCategories /\ MaxAllCategories \in Nat
      BY <2>10, ArchiveInputs DEF DeclaredWithin
    <3>2. /\ DOMAIN list \in SUBSET Place /\ IsFiniteSet(DOMAIN list)
          /\ collected \subseteq DeclaredBy(some) /\ Entries(root) \subseteq Range(list)
      BY <1>1, <2>3, <2>4, <3>1, CollectedIs
    <3>3. DeclaredBy(some) \subseteq all /\ IsFiniteSet(all)
      <4>1. DeclaredBy(some) \subseteq all
        BY <1>1 DEF DeclaredBy
      <4> QED BY <4>1, DeclaredFinite
    <3>4. Entries(root) \subseteq all
      BY <1>1, <2>4, <3>3, EntriesAre
    <3>5. collected = Range(Cut(list, MaxAllCategories))
      BY DEF Collected
    <3> HIDE DEF list, collected, found, all
    <3>6. collected = Range(list) \/ Cardinality(collected) = MaxAllCategories
      BY <3>1, <3>2, <3>5, CutIs DEF NamesKept
    <3>7. CASE collected = Range(list)
      BY <3>1, <3>2, <3>7 DEF KeptWhole
    <3>8. CASE Cardinality(collected) = MaxAllCategories
      <4>1. collected \in SUBSET all
        BY <3>2, <3>3
      <4>2. Cardinality(collected) <= Cardinality(all) /\ (Cardinality(all) = Cardinality(collected) => all = collected)
        BY <3>3, <4>1, FS_Subset
      <4>3. Cardinality(all) \in Nat
        BY <3>3, FS_CardinalityType
      <4>4. all = collected
        BY <3>1, <3>8, <4>2, <4>3
      <4> QED BY <3>1, <3>4, <4>4 DEF KeptWhole
    <3> QED BY <3>6, <3>7, <3>8
  <2>11. ASSUME status = "parsed" PROVE KeptWhole(root, collected)
    <3>1. OwnAudit.status \in {"parsed", "absent"}
      BY <2>11 DEF Summaries
    <3>2. Crowded \in BOOLEAN
      BY DEF Crowded
    <3>3. AuditManifests(found, Crowded).status \notin {"invalid", "partial"}
      BY <2>5, <3>1
    <3>4. \A p \in DOMAIN found : KeptWhole(found[p], Collected(found))
      BY <1>1, <3>2, <3>3, AuditedInFull
    <3> QED BY <2>4, <3>4
  <2> QED BY <2>2, <2>8, <2>9, <2>10, <2>11
<1> QED BY <1>2, <1>3

\* A row that is called analyzed is honest about its framework.
LEMMA RowHonest ==
    ASSUME archive \in Archives, NEW n \in Frameworks, RowOf(n).status = "analyzed"
    PROVE  FrameworkHonest(RowOf(n), ParseBinary(archive.frameworks[n].binary), n)
<1> DEFINE f == archive.frameworks[n]
           parse == ParseBinary(f.binary)
           audited == AuditManifests(ManifestsOf({n}), FALSE)
           review == ReviewSymbols(parse, audited.categories, audited.status)
<1>1. BinaryTold(parse, f.binary)
  BY ArchiveIs, ParseTold
<1>2. RowOf(n) = IF ~parse.macho THEN [NotReviewed EXCEPT !.status = "not_parsed"] ELSE review
  BY DEF RowOf, FrameworkRow
<1> HIDE DEF parse, f
<1>3. parse.macho /\ RowOf(n) = review /\ review.status = "analyzed"
  <2> HIDE DEF review
  <2> QED BY <1>2 DEF NotReviewed
<1>4. audited.status \notin {"invalid", "partial"}
  <2> HIDE DEF audited
  <2> QED BY <1>3 DEF ReviewSymbols, NotReviewed
<1>5. /\ audited.categories = DeclaredBy({n})
      /\ \A m \in Range(Manifests(n)) : m.good /\ "bad" \notin Range(m.entries)
  BY <1>4, FrameworkAudited
<1> HIDE DEF audited
<1>6. Compared(review, parse, f.binary, DeclaredBy({n}), TRUE)
  BY <1>1, <1>5, ReviewIs
<1> QED BY <1>1, <1>3, <1>5, <1>6 DEF FrameworkHonest, BinaryTold, f, parse

\* The invariant after a step that keeps the archive.
LEMMA IosKept ==
    ASSUME IosInv, archive' = archive,
           pass' \in {"unpack", "parse", "review", "frameworks", "done"},
           DOMAIN told' = DOMAIN told,
           told'.macho \in {OwnParse, NoMacho},
           OwnCompared(told'.review, told'.manifests),
           told'.manifests \in {"none", "absent", "parsed", "partial", "invalid"},
           told'.number \in 1 .. Len(archive.frameworks) + 1,
           told'.rows \in Seq({RowOf(n) : n \in Frameworks}), Len(told'.rows) <= MaxFrameworks,
           told'.bytes \in Nat, told'.bytes <= MaxFrameworkBytes,
           told'.errors \subseteq {"executable", "framework", "framework_manifest"},
           told'.end \in {"none", "result", "failure"},
           pass' \in {"unpack", "parse"} => told'.errors = {},
           (pass' \in {"review", "frameworks"} \/ told'.end = "result") /\ "executable" \notin told'.errors =>
             archive.binary.kind = "thin64",
           pass' # "done" => told'.frameworks = "not_analyzed" /\ told'.end = "none",
           pass' # "done" /\ told'.errors \subseteq {"executable"} =>
             Len(told'.rows) = told'.number - 1 /\ \A n \in 1 .. told'.number - 1 : told'.rows[n] = RowOf(n),
           told'.frameworks = "analyzed" =>
             /\ Len(told'.rows) = Len(archive.frameworks)
             /\ \A n \in Frameworks : told'.rows[n] = RowOf(n) /\ told'.rows[n].status = "analyzed"
    PROVE  IosInv'
<1>1. OwnParse' = OwnParse /\ Frameworks' = Frameworks
  BY DEF OwnParse, Frameworks
<1>2. \A n : RowOf(n)' = RowOf(n)
  BY DEF RowOf, ManifestsOf, Manifests
<1>3. archive \in Archives /\ DOMAIN told = DOMAIN NoResult
  BY DEF IosInv
<1>4. {RowOf(n) : n \in Frameworks}' = {RowOf(n) : n \in Frameworks}
  BY <1>1, <1>2
<1>5. OwnCompared(told.review, told.manifests)' = OwnCompared(told'.review, told'.manifests)
  BY <1>1 DEF OwnCompared, DeclaredBy, DeclaredWithin, Manifests
<1>6. (told.rows \in Seq({RowOf(n) : n \in Frameworks}))' = (told'.rows \in Seq({RowOf(n) : n \in Frameworks}))
  BY <1>4
<1> QED BY <1>1, <1>2, <1>3, <1>5, <1>6 DEF IosInv

LEMMA IosStarts == irInit => IosInv
<1>1. SUFFICES ASSUME irInit PROVE IosInv
  OBVIOUS
<1>2. archive \in Archives /\ pass = "unpack" /\ told = NoResult
  BY <1>1 DEF irInit, irStart
<1>3. /\ told.macho = NoMacho /\ told.review = NotReviewed /\ told.number = 1 /\ told.rows = <<>>
      /\ told.bytes = 0 /\ told.errors = {} /\ told.frameworks = "not_analyzed" /\ told.end = "none"
      /\ told.manifests = "none"
  BY <1>2 DEF NoResult
<1>4. told.number \in 1 .. Len(archive.frameworks) + 1
  BY <1>2, <1>3, ArchiveIs
<1>5. OwnCompared(told.review, told.manifests)
  BY <1>3 DEF OwnCompared, Compared, NotReviewed
<1>6. /\ told.rows \in Seq({RowOf(n) : n \in Frameworks}) /\ Len(told.rows) = 0
      /\ MaxFrameworks \in Nat /\ MaxFrameworkBytes \in Nat
  BY <1>3, ArchiveInputs
<1>7. Len(told.rows) = told.number - 1 /\ \A n \in 1 .. told.number - 1 : told.rows[n] = RowOf(n)
  BY <1>3, <1>6
<1> QED BY <1>2, <1>3, <1>4, <1>5, <1>6, <1>7 DEF IosInv

LEMMA IosUnpacked == ASSUME IosInv, Unpack PROVE IosInv'
<1>1. archive' = archive /\ pass = "unpack" /\ pass' \in {"parse", "done"}
  BY DEF Unpack
<1>2. DOMAIN told = {"macho", "review", "number", "rows", "bytes", "errors", "limited", "manifests",
                  "frameworks", "end"}
  BY DEF IosInv, NoResult
<1>3. CASE pass' = "parse" /\ told' = told
  BY <1>1, <1>3, IosKept DEF IosInv
<1>4. CASE pass' = "done" /\ told' = [told EXCEPT !.end = "failure"]
  <2>1. /\ DOMAIN told' = DOMAIN told /\ told'.macho = told.macho /\ told'.review = told.review /\ told'.manifests = told.manifests
        /\ told'.number = told.number /\ told'.rows = told.rows /\ told'.bytes = told.bytes
        /\ told'.errors = told.errors /\ told'.frameworks = told.frameworks /\ told'.end = "failure"
    BY <1>2, <1>4
  <2> HIDE DEF Frameworks, RowOf
  <2> QED BY <1>1, <1>4, <2>1, IosKept DEF IosInv
<1> QED BY <1>1, <1>3, <1>4 DEF Unpack

LEMMA IosParsed == ASSUME IosInv, ParseExecutable PROVE IosInv'
<1>1. archive' = archive /\ pass = "parse" /\ pass' = "review"
  BY DEF ParseExecutable
<1>2. DOMAIN told = {"macho", "review", "number", "rows", "bytes", "errors", "limited", "manifests",
                  "frameworks", "end"}
  BY DEF IosInv, NoResult
<1>3. PICK parse \in {OwnParse, NoMacho} :
        told' = [told EXCEPT !.macho = parse, !.errors = IF Headers(archive.binary) THEN {} ELSE {"executable"}]
  BY DEF ParseExecutable, OwnParse
<1>4. /\ DOMAIN told' = DOMAIN told /\ told'.macho = parse /\ told'.review = told.review /\ told'.manifests = told.manifests
      /\ told'.number = told.number /\ told'.rows = told.rows /\ told'.bytes = told.bytes
      /\ told'.errors = (IF Headers(archive.binary) THEN {} ELSE {"executable"})
      /\ told'.frameworks = told.frameworks /\ told'.end = told.end
  BY <1>2, <1>3
<1>5. "executable" \notin told'.errors => archive.binary.kind = "thin64"
  BY <1>4 DEF Headers
<1> QED BY <1>1, <1>4, <1>5, IosKept DEF IosInv

LEMMA IosCompared == ASSUME IosInv, ReviewExecutable PROVE IosInv'
<1>1. archive' = archive /\ pass = "review" /\ pass' = "frameworks" /\ archive \in Archives
  BY DEF ReviewExecutable, IosInv
<1>2. DOMAIN told = {"macho", "review", "number", "rows", "bytes", "errors", "limited", "manifests",
                  "frameworks", "end"}
  BY DEF IosInv, NoResult
<1> DEFINE review == ReviewSymbols(told.macho, KeptOfRoot, ManifestState)
<1>3. PICK status \in Summaries(OwnAudit.status) : told' = [told EXCEPT !.manifests = status, !.review = review]
  BY Zenon DEF ReviewExecutable
<1> HIDE DEF review
<1>4. /\ DOMAIN told' = DOMAIN told /\ told'.macho = told.macho /\ told'.review = review
      /\ told'.manifests = status
      /\ told'.number = told.number /\ told'.rows = told.rows /\ told'.bytes = told.bytes
      /\ told'.errors = told.errors /\ told'.frameworks = told.frameworks /\ told'.end = told.end
  BY <1>2, <1>3
<1>5. status \in {"none", "absent", "parsed", "partial", "invalid"}
  <2>1. OwnAudit.status \in {"absent", "parsed", "partial", "invalid"}
    BY DEF OwnAudit, AuditManifests, ManifestStatus
  <2> QED BY <2>1 DEF Summaries
<1>6. OwnCompared(review, status)
  <2>1. CASE told.macho = NoMacho
    <3>1. review.status # "analyzed"
      BY <2>1 DEF review, ReviewSymbols, NoMacho, NotReviewed
    <3> QED BY <3>1 DEF OwnCompared, Compared
  <2>2. CASE told.macho = OwnParse
    <3>1. BinaryTold(OwnParse, archive.binary)
      BY <1>1, ArchiveIs, ParseTold DEF OwnParse
    <3>2. ReviewSymbols(OwnParse, KeptOfRoot, ManifestState).status = "analyzed" =>
            /\ KeptOfRoot \subseteq DeclaredBy({0})
            /\ DeclaredWithin \/ status = "parsed" => KeptOfRoot = DeclaredBy({0})
      <4>1. ReviewSymbols(OwnParse, KeptOfRoot, ManifestState).status = "analyzed" => ManifestState # "invalid"
        BY DEF ReviewSymbols, NotReviewed
      <4> QED BY <1>1, <4>1, RootKept
    <3>3. Compared(ReviewSymbols(OwnParse, KeptOfRoot, ManifestState), OwnParse, archive.binary, DeclaredBy({0}),
                   DeclaredWithin \/ status = "parsed")
      BY <3>1, <3>2, ReviewIs
    <3> QED BY <2>2, <3>3 DEF review, OwnCompared
  <2> QED BY <2>1, <2>2 DEF IosInv
<1> QED BY <1>1, <1>4, <1>5, <1>6, IosKept DEF IosInv

\* A framework is passed over, or reviewed and given a row of its own.
LEMMA IosFramework == ASSUME IosInv, ReviewFramework PROVE IosInv'
<1>1. archive' = archive /\ pass' = pass /\ pass = "frameworks" /\ archive \in Archives /\ ~WalkEnds
  BY DEF ReviewFramework, IosInv
<1>2. DOMAIN told = {"macho", "review", "number", "rows", "bytes", "errors", "limited", "manifests",
                  "frameworks", "end"}
  BY DEF IosInv, NoResult
<1>3. /\ Len(archive.frameworks) \in Nat /\ archive.reach \in 0 .. Len(archive.frameworks)
      /\ Frameworks = 1 .. Len(archive.frameworks)
  BY <1>1, ArchiveIs
<1>4. /\ told.number \in Nat /\ told.number \in Frameworks
      /\ told.number + 1 \in 1 .. Len(archive.frameworks) + 1
  BY <1>1, <1>3 DEF WalkEnds, IosInv
<1> DEFINE n == told.number
           f == archive.frameworks[n]
           row == RowOf(n)
           troubles == FrameworkTroubles(ParseBinary(f.binary), AuditManifests(ManifestsOf({n}), FALSE))
           RowsOf == {RowOf(m) : m \in Frameworks}
<1>5. told' = IF TooMany \/ TooMuch(f) THEN [told EXCEPT !.limited = TRUE]
              ELSE IF f.binary.over THEN [told EXCEPT !.number = n + 1, !.errors = told.errors \cup {"framework"}]
              ELSE [told EXCEPT !.number = n + 1, !.rows = Append(told.rows, row),
                                !.bytes = told.bytes + f.size, !.errors = told.errors \cup troubles]
  BY DEF ReviewFramework, Reviewed, RowOf
<1>6. /\ told.rows \in Seq(RowsOf) /\ row \in RowsOf /\ Len(told.rows) \in Nat
      /\ told.bytes \in Nat /\ f.size \in Nat /\ MaxFrameworks \in Nat /\ MaxFrameworkBytes \in Nat
  <2>1. told.rows \in Seq(RowsOf) /\ told.bytes \in Nat
    BY DEF IosInv
  <2>2. Len(told.rows) \in Nat
    <3> HIDE DEF RowsOf
    <3> QED BY <2>1, LenProperties
  <2>3. row \in RowsOf
    BY <1>4
  <2>4. f.size \in Nat
    BY <1>1, <1>4, ArchiveIs
  <2> QED BY <2>1, <2>2, <2>3, <2>4, ArchiveInputs
<1>7. troubles \subseteq {"framework", "framework_manifest"}
  BY DEF FrameworkTroubles
<1> HIDE DEF row, troubles, f
<1>8. CASE TooMany \/ TooMuch(f)
  <2>1. /\ DOMAIN told' = DOMAIN told /\ told'.macho = told.macho /\ told'.review = told.review /\ told'.manifests = told.manifests
        /\ told'.number = told.number /\ told'.rows = told.rows /\ told'.bytes = told.bytes
        /\ told'.errors = told.errors /\ told'.frameworks = told.frameworks /\ told'.end = told.end
    BY <1>2, <1>5, <1>8
  <2> QED BY <1>1, <2>1, IosKept DEF IosInv
<1>9. CASE ~TooMany /\ ~TooMuch(f) /\ f.binary.over
  <2>1. /\ DOMAIN told' = DOMAIN told /\ told'.macho = told.macho /\ told'.review = told.review /\ told'.manifests = told.manifests
        /\ told'.number = told.number + 1 /\ told'.rows = told.rows /\ told'.bytes = told.bytes
        /\ told'.errors = told.errors \cup {"framework"} /\ told'.frameworks = told.frameworks
        /\ told'.end = told.end
    BY <1>2, <1>5, <1>9
  <2>2. ~(told'.errors \subseteq {"executable"})
    BY <2>1
  <2>3. "executable" \notin told'.errors => "executable" \notin told.errors
    BY <2>1
  <2>4. told'.errors \subseteq {"executable", "framework", "framework_manifest"}
    BY <2>1 DEF IosInv
  <2> QED BY <1>1, <1>4, <2>1, <2>2, <2>3, <2>4, IosKept DEF IosInv
<1>10. CASE ~TooMany /\ ~TooMuch(f) /\ ~f.binary.over
  <2>1. /\ DOMAIN told' = DOMAIN told /\ told'.macho = told.macho /\ told'.review = told.review /\ told'.manifests = told.manifests
        /\ told'.number = told.number + 1 /\ told'.rows = Append(told.rows, row)
        /\ told'.bytes = told.bytes + f.size
        /\ told'.errors = told.errors \cup troubles /\ told'.frameworks = told.frameworks
        /\ told'.end = told.end
    BY <1>2, <1>5, <1>10
  <2>2. told'.bytes \in Nat /\ told'.bytes <= MaxFrameworkBytes
    BY <1>6, <1>10, <2>1 DEF TooMuch
  <2>3. /\ told'.rows \in Seq(RowsOf) /\ Len(told'.rows) = Len(told.rows) + 1
        /\ \A m \in 1 .. Len(told.rows) : told'.rows[m] = told.rows[m]
        /\ told'.rows[Len(told.rows) + 1] = row
    <3> HIDE DEF RowsOf
    <3> QED BY <1>6, <2>1, AppendProperties
  <2>4. Len(told'.rows) <= MaxFrameworks
    BY <1>6, <1>10, <2>3 DEF TooMany
  <2>5. /\ told'.errors \subseteq {"executable", "framework", "framework_manifest"}
        /\ "executable" \notin told'.errors => "executable" \notin told.errors
    BY <1>7, <2>1 DEF IosInv
  <2>6. ASSUME told'.errors \subseteq {"executable"}
        PROVE  Len(told'.rows) = told'.number - 1 /\ \A m \in 1 .. told'.number - 1 : told'.rows[m] = RowOf(m)
    <3>1. Len(told.rows) = told.number - 1 /\ \A m \in 1 .. told.number - 1 : told.rows[m] = RowOf(m)
      BY <1>1, <2>1, <2>6 DEF IosInv
    <3>2. Len(told.rows) + 1 = n /\ told'.number - 1 = n
      BY <1>4, <2>1, <3>1
    <3>3. ASSUME NEW m \in 1 .. n PROVE told'.rows[m] = RowOf(m)
      <4>1. CASE m = n
        BY <2>3, <3>2, <4>1 DEF row
      <4>2. CASE m # n
        <5>1. m \in 1 .. n - 1
          BY <1>4, <4>2
        <5> QED BY <2>3, <3>1, <5>1
      <4> QED BY <4>1, <4>2
    <3> QED BY <2>3, <3>2, <3>3
  <2>7. told'.rows \in Seq({RowOf(m) : m \in Frameworks})
    BY <2>3
  <2>8. /\ told'.macho \in {OwnParse, NoMacho} /\ OwnCompared(told'.review, told'.manifests)
        /\ told'.manifests \in {"none", "absent", "parsed", "partial", "invalid"}
        /\ told'.frameworks = "not_analyzed" /\ told'.end = "none"
        /\ "executable" \notin told'.errors => archive.binary.kind = "thin64"
    BY <1>1, <2>1, <2>5 DEF IosInv
  <2> QED BY <1>1, <1>4, <2>1, <2>2, <2>4, <2>5, <2>6, <2>7, <2>8, IosKept
<1> QED BY <1>8, <1>9, <1>10

LEMMA IosSummed == ASSUME IosInv, SumUp PROVE IosInv'
<1>1. archive' = archive /\ pass = "frameworks" /\ pass' = "done" /\ archive \in Archives /\ WalkEnds
  BY DEF SumUp, IosInv
<1>2. DOMAIN told = {"macho", "review", "number", "rows", "bytes", "errors", "limited", "manifests",
                  "frameworks", "end"}
  BY DEF IosInv, NoResult
<1> DEFINE partly == \/ told.limited \/ Crowded \/ told.errors \ {"executable"} # {}
                     \/ \E i \in DOMAIN told.rows : told.rows[i].status # "analyzed"
           sum == IF partly THEN "partial" ELSE IF told.rows # <<>> THEN "analyzed" ELSE "not_analyzed"
<1>3. told' = [told EXCEPT !.end = "result", !.frameworks = sum]
  BY DEF SumUp
<1> HIDE DEF sum
<1>4. /\ DOMAIN told' = DOMAIN told /\ told'.macho = told.macho /\ told'.review = told.review /\ told'.manifests = told.manifests
      /\ told'.number = told.number /\ told'.rows = told.rows /\ told'.bytes = told.bytes
      /\ told'.errors = told.errors /\ told'.frameworks = sum /\ told'.end = "result"
  BY <1>2, <1>3
<1>5. ASSUME sum = "analyzed"
      PROVE  /\ Len(told.rows) = Len(archive.frameworks)
             /\ \A n \in Frameworks : told.rows[n] = RowOf(n) /\ told.rows[n].status = "analyzed"
  <2>1. ~partly
    BY <1>5 DEF sum
  <2>2. told.errors \subseteq {"executable"}
    BY <2>1
  <2>3. Len(told.rows) = told.number - 1 /\ \A n \in 1 .. told.number - 1 : told.rows[n] = RowOf(n)
    BY <1>1, <2>2 DEF IosInv
  <2>4. /\ Len(archive.frameworks) \in Nat /\ Frameworks = 1 .. Len(archive.frameworks)
        /\ archive.reach \in 0 .. Len(archive.frameworks)
    BY <1>1, ArchiveIs
  <2>5. told.number = Len(archive.frameworks) + 1
    <3>1. told.number > archive.reach /\ ~(archive.reach < Len(archive.frameworks))
      BY <1>1, <2>1 DEF WalkEnds, Crowded
    <3> QED BY <2>4, <3>1 DEF IosInv
  <2>6. told.number - 1 = Len(archive.frameworks)
    BY <2>4, <2>5
  <2>7. DOMAIN told.rows = Frameworks
    <3>1. told.rows \in Seq({RowOf(n) : n \in Frameworks})
      BY DEF IosInv
    <3>2. DOMAIN told.rows = 1 .. Len(told.rows)
      BY <3>1, LenProperties
    <3> QED BY <2>3, <2>4, <2>6, <3>2
  <2>8. \A n \in Frameworks : told.rows[n].status = "analyzed"
    BY <2>1, <2>7
  <2> QED BY <2>3, <2>4, <2>6, <2>8
<1> QED BY <1>1, <1>4, <1>5, IosKept DEF IosInv

LEMMA IosSkipped == ASSUME IosInv, PrivacySkipped PROVE IosInv'
<1>1. archive' = archive /\ pass \in {"review", "frameworks"} /\ pass' = "done" /\ archive \in Archives
  BY DEF PrivacySkipped, IosInv
<1>2. DOMAIN told = {"macho", "review", "number", "rows", "bytes", "errors", "limited", "manifests",
                  "frameworks", "end"}
  BY DEF IosInv, NoResult
<1>3. /\ DOMAIN told' = DOMAIN told /\ told'.macho = told.macho /\ told'.review = told.review /\ told'.manifests = told.manifests
      /\ told'.number = told.number /\ told'.rows = <<>> /\ told'.bytes = told.bytes
      /\ told'.errors = told.errors /\ told'.frameworks = told.frameworks /\ told'.end = "result"
  BY <1>2 DEF PrivacySkipped
<1>4. told'.rows \in Seq({RowOf(n) : n \in Frameworks}) /\ Len(told'.rows) = 0 /\ MaxFrameworks \in Nat
  BY <1>3, ArchiveInputs
<1>5. told'.frameworks = "not_analyzed"
  BY <1>1, <1>3 DEF IosInv
<1> QED BY <1>1, <1>3, <1>4, <1>5, IosKept DEF IosInv

LEMMA IosStep == IosInv /\ [irNext]_irVars => IosInv'
<1>1. SUFFICES ASSUME IosInv, [irNext]_irVars PROVE IosInv'
  OBVIOUS
<1>2. CASE UNCHANGED irVars
  <2>1. archive' = archive /\ pass' = pass /\ told' = told
    BY <1>2 DEF irVars
  <2> QED BY <2>1, <1>1, IosKept DEF IosInv
<1> QED BY <1>1, <1>2, IosUnpacked, IosParsed, IosCompared, IosFramework, IosSummed, IosSkipped DEF irNext

LEMMA IosTyped == ASSUME IosInv PROVE irTypeOK
<1>1. told.macho \in {OwnParse, NoMacho} /\ archive.binary \in MachoFile
  BY ArchiveIs DEF IosInv
<1>2. NamesKept(told.macho.symbols) <= MaxSymbols
  BY <1>1, ParseTold DEF OwnParse, BinaryTold
<1> QED BY <1>2 DEF IosInv, irTypeOK

\* What is told of an archive is within its limits: the rows of the frameworks, their bytes and the symbols (ios_analyzer.py,
\* audit_ipa).
THEOREM ReviewTyped == irSpec => []irTypeOK
<1>1. irInit => IosInv
  BY IosStarts
<1>2. IosInv /\ [irNext]_irVars => IosInv'
  BY IosStep
<1>3. IosInv => irTypeOK
  BY IosTyped
<1> QED BY <1>1, <1>2, <1>3, PTL DEF irSpec

LEMMA ReviewHonestAtTheEnd == ASSUME IosInv PROVE ReviewHonest
<1>1. archive \in Archives /\ archive.binary \in MachoFile
  BY ArchiveIs DEF IosInv
<1>2. ParsedHonestly(told.macho, archive.binary)
  <2>1. told.macho \in {OwnParse, NoMacho}
    BY DEF IosInv
  <2> QED BY <1>1, <2>1, ParseTold DEF OwnParse, BinaryTold
<1>3. ASSUME told.frameworks = "analyzed", NEW n \in DOMAIN archive.frameworks
      PROVE  FrameworkHonest(told.rows[n], ParseBinary(archive.frameworks[n].binary), n)
  <2>1. n \in Frameworks
    BY DEF Frameworks
  <2>2. told.rows[n] = RowOf(n) /\ RowOf(n).status = "analyzed"
    BY <1>3, <2>1 DEF IosInv
  <2> QED BY <1>1, <2>1, <2>2, RowHonest
<1>4. told.frameworks = "analyzed" => Len(told.rows) = Len(archive.frameworks)
  BY DEF IosInv
<1>5. told.end = "result" /\ "executable" \notin told.errors => archive.binary.kind = "thin64"
  BY DEF IosInv
<1>6. Compared(told.review, ParseBinary(archive.binary), archive.binary, DeclaredBy({0}),
               DeclaredWithin \/ told.manifests = "parsed")
  BY DEF IosInv, OwnCompared, OwnParse
<1> QED BY <1>2, <1>3, <1>4, <1>5, <1>6 DEF ReviewHonest

\* What the summary of an iOS archive calls analyzed was: for every archive, every
\* executable of it and every walk over its frameworks (ios_analyzer.py:668).
THEOREM ReviewTrue == irSpec => []ReviewHonest
<1>1. irInit => IosInv
  BY IosStarts
<1>2. IosInv /\ [irNext]_irVars => IosInv'
  BY IosStep
<1>3. IosInv => ReviewHonest
  BY ReviewHonestAtTheEnd
<1> QED BY <1>1, <1>2, <1>3, PTL DEF irSpec

-----------------------------------------------------------------------------
(***************************************************************************)
(* What is computed statement by statement.                                *)
(***************************************************************************)
AtStart(file) == [v \in Var |-> IF v \in file.params THEN Filled ELSE Unbound]

LEMMA BindingsAre ==
    ASSUME NEW file, NEW n \in Nat, Len(file.body) = n
    PROVE  /\ Bindings(file)[0] = AtStart(file)
           /\ \A i \in 1 .. n : Bindings(file)[i] = LexicalStep(file.body, Bindings(file)[i - 1], i)
<1> DEFINE Computed(f, m) == f = [i \in 0 .. m |->
              IF i = 0 THEN [v \in Var |-> IF v \in file.params THEN Filled ELSE Unbound]
              ELSE LexicalStep(file.body, f[i - 1], i)]
           T == {m \in 0 .. n : ~\E f : Computed(f, m)}
<1>1. ASSUME NEW m \in 0 .. n, \A k \in 0 .. n : ~(\E f : Computed(f, k)) => m <= k, ~\E f : Computed(f, m)
      PROVE  FALSE
  <2>1. m # 0
    <3>1. Computed([i \in 0 .. 0 |-> [v \in Var |-> IF v \in file.params THEN Filled ELSE Unbound]], 0)
      OBVIOUS
    <3> QED BY <3>1, <1>1
  <2>2. m - 1 \in 0 .. n /\ ~(m <= m - 1)
    BY <2>1
  <2>3. PICK f : Computed(f, m - 1)
    BY <2>2, <1>1
  <2> DEFINE g == [i \in 0 .. m |-> IF i = m THEN LexicalStep(file.body, f[m - 1], m) ELSE f[i]]
  <2>4. ASSUME NEW i \in 0 .. m
        PROVE  g[i] = IF i = 0 THEN [v \in Var |-> IF v \in file.params THEN Filled ELSE Unbound]
                      ELSE LexicalStep(file.body, g[i - 1], i)
    <3>1. CASE i = m
      <4>1. g[i - 1] = f[i - 1]
        BY <2>1, <3>1
      <4> QED BY <3>1, <2>1, <4>1
    <3>2. CASE i # m
      <4>1. i \in 0 .. m - 1 /\ g[i] = f[i]
        BY <3>2
      <4>2. f[i] = IF i = 0 THEN [v \in Var |-> IF v \in file.params THEN Filled ELSE Unbound]
                   ELSE LexicalStep(file.body, f[i - 1], i)
        BY <2>3, <4>1
      <4>3. i # 0 => g[i - 1] = f[i - 1]
        BY <3>2
      <4> QED BY <4>1, <4>2, <4>3
    <3> QED BY <3>1, <3>2
  <2>5. Computed(g, m)
    BY <2>4
  <2> QED BY <2>5, <1>1
<1>2. T \in SUBSET Nat
  OBVIOUS
<1>3. T = {}
  <2>1. ASSUME T # {} PROVE FALSE
    <3>1. PICK m \in T : \A k \in T : m <= k
      BY ONLY <1>2, <2>1, Least
    <3> HIDE DEF Computed
    <3>2. m \in 0 .. n /\ ~\E f : Computed(f, m)
      BY <3>1
    <3>3. \A k \in 0 .. n : ~(\E f : Computed(f, k)) => m <= k
      BY <3>1
    <3> QED BY <3>2, <3>3, <1>1
  <2> QED BY <2>1
<1>4. \E f : Computed(f, n)
  BY <1>3
<1>5. Bindings(file) = CHOOSE f : Computed(f, n)
  BY DEF Bindings
<1>6. Computed(Bindings(file), n)
  BY <1>4, <1>5
<1> QED BY <1>6 DEF AtStart

\* What statement i makes of what is held before it.
NextHeld(file, out, held, i) ==
    IF file.body[i].op \notin {"declare", "assign"} \/ PassedOver(file.body, out, i) THEN held
    ELSE IF Tainting(file, held, i)
           THEN held \cup {<<file.body[i].v, Home(file.body, file.body[i].v, i)>>}
         ELSE held \ {<<file.body[i].v, Home(file.body, file.body[i].v, i)>>}

LEMMA ExecutionIs ==
    ASSUME NEW file, NEW out, NEW n \in Nat, Len(file.body) = n
    PROVE  /\ Execution(file, out)[0] = file.params \X {0}
           /\ \A i \in 1 .. n : Execution(file, out)[i] = NextHeld(file, out, Execution(file, out)[i - 1], i)
<1> DEFINE Computed(f, m) == f = [i \in 0 .. m |->
              IF i = 0 THEN file.params \X {0}
              ELSE NextHeld(file, out, f[i - 1], i)]
           T == {m \in 0 .. n : ~\E f : Computed(f, m)}
<1>1. ASSUME NEW m \in 0 .. n, \A k \in 0 .. n : ~(\E f : Computed(f, k)) => m <= k, ~\E f : Computed(f, m)
      PROVE  FALSE
  <2>1. m # 0
    <3>1. Computed([i \in 0 .. 0 |-> file.params \X {0}], 0)
      OBVIOUS
    <3> QED BY <3>1, <1>1
  <2>2. m - 1 \in 0 .. n /\ ~(m <= m - 1)
    BY <2>1
  <2>3. PICK f : Computed(f, m - 1)
    BY <2>2, <1>1
  <2> DEFINE g == [i \in 0 .. m |-> IF i = m THEN NextHeld(file, out, f[m - 1], m) ELSE f[i]]
  <2>4. ASSUME NEW i \in 0 .. m
        PROVE  g[i] = IF i = 0 THEN file.params \X {0}
                      ELSE NextHeld(file, out, g[i - 1], i)
    <3>1. CASE i = m
      <4>1. g[i - 1] = f[i - 1]
        BY <2>1, <3>1
      <4> QED BY <3>1, <2>1, <4>1
    <3>2. CASE i # m
      <4>1. i \in 0 .. m - 1 /\ g[i] = f[i]
        BY <3>2
      <4>2. f[i] = IF i = 0 THEN file.params \X {0}
                   ELSE NextHeld(file, out, f[i - 1], i)
        BY <2>3, <4>1
      <4>3. i # 0 => g[i - 1] = f[i - 1]
        BY <3>2
      <4> QED BY <4>1, <4>2, <4>3
    <3> QED BY <3>1, <3>2
  <2>5. Computed(g, m)
    BY <2>4
  <2> QED BY <2>5, <1>1
<1>2. T \in SUBSET Nat
  OBVIOUS
<1>3. T = {}
  <2>1. ASSUME T # {} PROVE FALSE
    <3>1. PICK m \in T : \A k \in T : m <= k
      BY ONLY <1>2, <2>1, Least
    <3> HIDE DEF Computed
    <3>2. m \in 0 .. n /\ ~\E f : Computed(f, m)
      BY <3>1
    <3>3. \A k \in 0 .. n : ~(\E f : Computed(f, k)) => m <= k
      BY <3>1
    <3> QED BY <3>2, <3>3, <1>1
  <2> QED BY <2>1
<1> HIDE DEF Computed
<1>4. \E f : Computed(f, n)
  <2>1. n \in 0 .. n
    OBVIOUS
  <2>2. n \notin T
    <3> HIDE DEF T
    <3> QED BY <1>3, Zenon
  <2> QED BY <2>1, <2>2, Zenon
<1>5. Execution(file, out) = CHOOSE f : Computed(f, n)
  BY DEF Execution, NextHeld, Computed
<1>6. Computed(Execution(file, out), n)
  BY <1>4, <1>5
<1>7. ASSUME NEW i \in 0 .. n
      PROVE  Execution(file, out)[i] = IF i = 0 THEN file.params \X {0} ELSE NextHeld(file, out, Execution(file, out)[i - 1], i)
  BY <1>6 DEF Computed
<1>8. Execution(file, out)[0] = file.params \X {0}
  <2>1. 0 \in 0 .. n
    OBVIOUS
  <2> QED BY <2>1, <1>7, Zenon
<1>9. ASSUME NEW i \in 1 .. n
      PROVE  Execution(file, out)[i] = NextHeld(file, out, Execution(file, out)[i - 1], i)
  <2>1. i \in 0 .. n /\ i # 0
    OBVIOUS
  <2> QED BY <2>1, <1>7
<1> QED BY <1>8, <1>9

\* What the tree makes of the variables it had before statement i, and before its block.
TreeStep(body, before, env, i) ==
    CASE body[i].op = "close" -> Merged(body, before, env, i)
      [] body[i].op \in {"declare", "assign"} -> Put(env, body[i].v, TraceFor(env, body[i]))
      [] OTHER -> env

LEMMA EnvironmentsAre ==
    ASSUME NEW file, NEW n \in Nat, Len(file.body) = n,
           \A i \in 1 .. n : file.body[i].op = "close" => Opening(file.body, i) \in 1 .. i - 1
    PROVE  /\ Environments(file)[0] = [known |-> file.params, tainted |-> file.params]
           /\ \A i \in 1 .. n : Environments(file)[i] =
                TreeStep(file.body, Environments(file)[Opening(file.body, i) - 1], Environments(file)[i - 1], i)
<1> DEFINE Computed(f, m) == f = [i \in 0 .. m |->
              IF i = 0 THEN [known |-> file.params, tainted |-> file.params]
              ELSE TreeStep(file.body, f[Opening(file.body, i) - 1], f[i - 1], i)]
           T == {m \in 0 .. n : ~\E f : Computed(f, m)}
<1>1. ASSUME NEW m \in 0 .. n, \A k \in 0 .. n : ~(\E f : Computed(f, k)) => m <= k, ~\E f : Computed(f, m)
      PROVE  FALSE
  <2>1. m # 0
    <3>1. Computed([i \in 0 .. 0 |-> [known |-> file.params, tainted |-> file.params]], 0)
      OBVIOUS
    <3> QED BY <3>1, <1>1
  <2>2. m - 1 \in 0 .. n /\ ~(m <= m - 1)
    BY <2>1
  <2>3. PICK f : Computed(f, m - 1)
    BY <2>2, <1>1
  <2> DEFINE g == [i \in 0 .. m |-> IF i = m THEN TreeStep(file.body, f[Opening(file.body, m) - 1], f[m - 1], m) ELSE f[i]]
  <2>4. ASSUME NEW i \in 0 .. m
        PROVE  g[i] = IF i = 0 THEN [known |-> file.params, tainted |-> file.params]
                      ELSE TreeStep(file.body, g[Opening(file.body, i) - 1], g[i - 1], i)
    <3>1. CASE i = m
      <4>1. g[i - 1] = f[i - 1]
        BY <2>1, <3>1
      <4>2. i # 0 => TreeStep(file.body, g[Opening(file.body, i) - 1], g[i - 1], i) = TreeStep(file.body, f[Opening(file.body, i) - 1], g[i - 1], i)
        <5>1. CASE file.body[i].op = "close"
          <6>1. i # 0 => Opening(file.body, i) \in 1 .. i - 1
            BY <5>1
          <6>2. i # 0 => g[Opening(file.body, i) - 1] = f[Opening(file.body, i) - 1]
            BY <6>1
          <6> QED BY <6>2
        <5>2. CASE file.body[i].op # "close"
          BY <5>2 DEF TreeStep
        <5> QED BY <5>1, <5>2
      <4> QED BY <3>1, <2>1, <4>1, <4>2
    <3>2. CASE i # m
      <4>1. i \in 0 .. m - 1 /\ g[i] = f[i]
        BY <3>2
      <4>2. f[i] = IF i = 0 THEN [known |-> file.params, tainted |-> file.params]
                   ELSE TreeStep(file.body, f[Opening(file.body, i) - 1], f[i - 1], i)
        BY <2>3, <4>1
      <4>3. i # 0 => g[i - 1] = f[i - 1]
        BY <3>2
      <4>4. i # 0 => TreeStep(file.body, g[Opening(file.body, i) - 1], g[i - 1], i) = TreeStep(file.body, f[Opening(file.body, i) - 1], g[i - 1], i)
        <5>1. CASE file.body[i].op = "close"
          <6>1. i # 0 => Opening(file.body, i) \in 1 .. i - 1
            BY <5>1
          <6>2. i # 0 => g[Opening(file.body, i) - 1] = f[Opening(file.body, i) - 1]
            BY <6>1
          <6> QED BY <6>2
        <5>2. CASE file.body[i].op # "close"
          BY <5>2 DEF TreeStep
        <5> QED BY <5>1, <5>2
      <4> QED BY <4>1, <4>2, <4>3, <4>4
    <3> QED BY <3>1, <3>2
  <2>5. Computed(g, m)
    BY <2>4
  <2> QED BY <2>5, <1>1
<1>2. T \in SUBSET Nat
  OBVIOUS
<1>3. T = {}
  <2>1. ASSUME T # {} PROVE FALSE
    <3>1. PICK m \in T : \A k \in T : m <= k
      BY ONLY <1>2, <2>1, Least
    <3> HIDE DEF Computed
    <3>2. m \in 0 .. n /\ ~\E f : Computed(f, m)
      BY <3>1
    <3>3. \A k \in 0 .. n : ~(\E f : Computed(f, k)) => m <= k
      BY <3>1
    <3> QED BY <3>2, <3>3, <1>1
  <2> QED BY <2>1
<1> HIDE DEF Computed
<1>4. \E f : Computed(f, n)
  <2>1. n \in 0 .. n
    OBVIOUS
  <2>2. n \notin T
    <3> HIDE DEF T
    <3> QED BY <1>3, Zenon
  <2> QED BY <2>1, <2>2, Zenon
<1>5. Environments(file) = CHOOSE f : Computed(f, n)
  BY DEF Environments, TreeStep, Computed
<1>6. Computed(Environments(file), n)
  BY <1>4, <1>5
<1>7. ASSUME NEW i \in 0 .. n
      PROVE  Environments(file)[i] = IF i = 0 THEN [known |-> file.params, tainted |-> file.params] ELSE TreeStep(file.body, Environments(file)[Opening(file.body, i) - 1], Environments(file)[i - 1], i)
  BY <1>6 DEF Computed
<1>8. Environments(file)[0] = [known |-> file.params, tainted |-> file.params]
  <2>1. 0 \in 0 .. n
    OBVIOUS
  <2> QED BY <2>1, <1>7, Zenon
<1>9. ASSUME NEW i \in 1 .. n
      PROVE  Environments(file)[i] = TreeStep(file.body, Environments(file)[Opening(file.body, i) - 1], Environments(file)[i - 1], i)
  <2>1. i \in 0 .. n /\ i # 0
    OBVIOUS
  <2> QED BY <2>1, <1>7
<1> QED BY <1>8, <1>9

\* What one method adds in a round, and what is known after each.
OneMethod(methods, all, i) ==
    IF Single(methods, methods[i])
    THEN all \cup RoomFor(Forwarded(methods[i], all) \ all, all) ELSE all
Rounds(methods, known) ==
    CHOOSE f : f = [i \in 0 .. Len(methods) |-> IF i = 0 THEN known ELSE OneMethod(methods, f[i - 1], i)]

LEMMA RoundsAre ==
    ASSUME NEW methods, NEW known, NEW n \in Nat, Len(methods) = n
    PROVE  /\ Rounds(methods, known)[0] = known
           /\ \A i \in 1 .. n : Rounds(methods, known)[i] = OneMethod(methods, Rounds(methods, known)[i - 1], i)
<1> DEFINE Computed(f, m) == f = [i \in 0 .. m |->
              IF i = 0 THEN known
              ELSE OneMethod(methods, f[i - 1], i)]
           T == {m \in 0 .. n : ~\E f : Computed(f, m)}
<1>1. ASSUME NEW m \in 0 .. n, \A k \in 0 .. n : ~(\E f : Computed(f, k)) => m <= k, ~\E f : Computed(f, m)
      PROVE  FALSE
  <2>1. m # 0
    <3>1. Computed([i \in 0 .. 0 |-> known], 0)
      OBVIOUS
    <3> QED BY <3>1, <1>1
  <2>2. m - 1 \in 0 .. n /\ ~(m <= m - 1)
    BY <2>1
  <2>3. PICK f : Computed(f, m - 1)
    BY <2>2, <1>1
  <2> DEFINE g == [i \in 0 .. m |-> IF i = m THEN OneMethod(methods, f[m - 1], m) ELSE f[i]]
  <2>4. ASSUME NEW i \in 0 .. m
        PROVE  g[i] = IF i = 0 THEN known
                      ELSE OneMethod(methods, g[i - 1], i)
    <3>1. CASE i = m
      <4>1. g[i - 1] = f[i - 1]
        BY <2>1, <3>1
      <4> QED BY <3>1, <2>1, <4>1
    <3>2. CASE i # m
      <4>1. i \in 0 .. m - 1 /\ g[i] = f[i]
        BY <3>2
      <4>2. f[i] = IF i = 0 THEN known
                   ELSE OneMethod(methods, f[i - 1], i)
        BY <2>3, <4>1
      <4>3. i # 0 => g[i - 1] = f[i - 1]
        BY <3>2
      <4> QED BY <4>1, <4>2, <4>3
    <3> QED BY <3>1, <3>2
  <2>5. Computed(g, m)
    BY <2>4
  <2> QED BY <2>5, <1>1
<1>2. T \in SUBSET Nat
  OBVIOUS
<1>3. T = {}
  <2>1. ASSUME T # {} PROVE FALSE
    <3>1. PICK m \in T : \A k \in T : m <= k
      BY ONLY <1>2, <2>1, Least
    <3> HIDE DEF Computed
    <3>2. m \in 0 .. n /\ ~\E f : Computed(f, m)
      BY <3>1
    <3>3. \A k \in 0 .. n : ~(\E f : Computed(f, k)) => m <= k
      BY <3>1
    <3> QED BY <3>2, <3>3, <1>1
  <2> QED BY <2>1
<1> HIDE DEF Computed
<1>4. \E f : Computed(f, n)
  <2>1. n \in 0 .. n
    OBVIOUS
  <2>2. n \notin T
    <3> HIDE DEF T
    <3> QED BY <1>3, Zenon
  <2> QED BY <2>1, <2>2, Zenon
<1>5. Rounds(methods, known) = CHOOSE f : Computed(f, n)
  BY DEF Rounds, Computed
<1>6. Computed(Rounds(methods, known), n)
  BY <1>4, <1>5
<1>7. ASSUME NEW i \in 0 .. n
      PROVE  Rounds(methods, known)[i] = IF i = 0 THEN known ELSE OneMethod(methods, Rounds(methods, known)[i - 1], i)
  BY <1>6 DEF Computed
<1>8. Rounds(methods, known)[0] = known
  <2>1. 0 \in 0 .. n
    OBVIOUS
  <2> QED BY <2>1, <1>7, Zenon
<1>9. ASSUME NEW i \in 1 .. n
      PROVE  Rounds(methods, known)[i] = OneMethod(methods, Rounds(methods, known)[i - 1], i)
  <2>1. i \in 0 .. n /\ i # 0
    OBVIOUS
  <2> QED BY <2>1, <1>7
<1> QED BY <1>8, <1>9

LEMMA RoundIs ==
    ASSUME NEW methods, NEW known
    PROVE  Round(methods, known) = Rounds(methods, known)[Len(methods)]
BY DEF Round, Rounds, OneMethod

-----------------------------------------------------------------------------
(***************************************************************************)
(* Files, and how deep their statements stand.                             *)
(***************************************************************************)
LEMMA FileIs ==
    ASSUME NEW file \in SourceFile
    PROVE  /\ Len(file.body) \in Nat /\ DOMAIN file.body = 1 .. Len(file.body)
           /\ file.params \subseteq Var
           /\ Len(file.methods) \in Nat /\ DOMAIN file.methods = 1 .. Len(file.methods)
           /\ \A i \in 1 .. Len(file.methods) : file.methods[i] \in MethodDeclaration
           /\ \A i \in 1 .. Len(file.body) :
                /\ file.body[i] \in Statement
                /\ file.body[i].op \in {"open", "close", "declare", "assign", "sink", "help", "sink_of"}
                /\ file.body[i].from \in STRING
                /\ file.body[i].op \notin {"open", "close"} => file.body[i].v \in Var
                /\ file.body[i].op = "assign" => file.body[i].from # "nothing"
                /\ Depth(file.body, i) >= 0
<1>1. /\ file.body \in Seq(Statement) /\ file.methods \in Seq(MethodDeclaration) /\ file.params \subseteq Var
      /\ \A i \in DOMAIN file.body : Depth(file.body, i) >= 0
  BY DEF SourceFile
<1>2. Len(file.body) \in Nat /\ DOMAIN file.body = 1 .. Len(file.body)
  BY <1>1
<1>3. Len(file.methods) \in Nat /\ DOMAIN file.methods = 1 .. Len(file.methods)
  BY <1>1
<1>4. \A i \in 1 .. Len(file.methods) : file.methods[i] \in MethodDeclaration
  BY <1>1
<1>5. ASSUME NEW i \in 1 .. Len(file.body)
      PROVE  /\ file.body[i] \in Statement
             /\ file.body[i].op \in {"open", "close", "declare", "assign", "sink", "help", "sink_of"}
             /\ file.body[i].from \in STRING
             /\ file.body[i].op \notin {"open", "close"} => file.body[i].v \in Var
             /\ file.body[i].op = "assign" => file.body[i].from # "nothing"
  <2>1. file.body[i] \in Statement
    BY <1>1, <1>5
  <2> QED BY <2>1 DEF Statement
<1> QED BY <1>1, <1>2, <1>3, <1>4, <1>5

LEMMA OpensCounted ==
    ASSUME NEW body, NEW i \in Nat \ {0}
    PROVE  /\ Cardinality({k \in 1 .. i : body[k].op = "open"}) \in Nat
           /\ Cardinality({k \in 1 .. i - 1 : body[k].op = "open"}) \in Nat
           /\ body[i].op = "open" => Cardinality({k \in 1 .. i : body[k].op = "open"}) = Cardinality({k \in 1 .. i - 1 : body[k].op = "open"}) + 1
           /\ body[i].op # "open" => Cardinality({k \in 1 .. i : body[k].op = "open"}) = Cardinality({k \in 1 .. i - 1 : body[k].op = "open"})
<1> DEFINE A == {k \in 1 .. i : body[k].op = "open"}
           B == {k \in 1 .. i - 1 : body[k].op = "open"}
<1>1. IsFiniteSet(1 .. i) /\ IsFiniteSet(1 .. i - 1)
  BY FS_Interval
<1>2. IsFiniteSet(A) /\ IsFiniteSet(B)
  BY <1>1, FS_Subset
<1>3. Cardinality(A) \in Nat /\ Cardinality(B) \in Nat
  BY <1>2, FS_CardinalityType
<1>4. CASE body[i].op = "open"
  <2>1. A = B \cup {i} /\ i \notin B
    BY <1>4
  <2>2. Cardinality(A) = Cardinality(B) + 1
    BY <2>1, <1>2, FS_AddElement
  <2> QED BY <2>2, <1>3, <1>4
<1>5. CASE body[i].op # "open"
  <2>1. A = B
    BY <1>5
  <2> QED BY <2>1, <1>3, <1>5
<1> QED BY <1>4, <1>5

LEMMA ClosesCounted ==
    ASSUME NEW body, NEW i \in Nat \ {0}
    PROVE  /\ Cardinality({k \in 1 .. i : body[k].op = "close"}) \in Nat
           /\ Cardinality({k \in 1 .. i - 1 : body[k].op = "close"}) \in Nat
           /\ body[i].op = "close" => Cardinality({k \in 1 .. i : body[k].op = "close"}) = Cardinality({k \in 1 .. i - 1 : body[k].op = "close"}) + 1
           /\ body[i].op # "close" => Cardinality({k \in 1 .. i : body[k].op = "close"}) = Cardinality({k \in 1 .. i - 1 : body[k].op = "close"})
<1> DEFINE A == {k \in 1 .. i : body[k].op = "close"}
           B == {k \in 1 .. i - 1 : body[k].op = "close"}
<1>1. IsFiniteSet(1 .. i) /\ IsFiniteSet(1 .. i - 1)
  BY FS_Interval
<1>2. IsFiniteSet(A) /\ IsFiniteSet(B)
  BY <1>1, FS_Subset
<1>3. Cardinality(A) \in Nat /\ Cardinality(B) \in Nat
  BY <1>2, FS_CardinalityType
<1>4. CASE body[i].op = "close"
  <2>1. A = B \cup {i} /\ i \notin B
    BY <1>4
  <2>2. Cardinality(A) = Cardinality(B) + 1
    BY <2>1, <1>2, FS_AddElement
  <2> QED BY <2>2, <1>3, <1>4
<1>5. CASE body[i].op # "close"
  <2>1. A = B
    BY <1>5
  <2> QED BY <2>1, <1>3, <1>5
<1> QED BY <1>4, <1>5

LEMMA DepthIs ==
    ASSUME NEW body
    PROVE  /\ Depth(body, 0) = 0
           /\ \A i \in Nat : Depth(body, i) \in Int
           /\ \A i \in Nat \ {0} :
                /\ body[i].op = "open" => Depth(body, i) = Depth(body, i - 1) + 1
                /\ body[i].op = "close" => Depth(body, i) = Depth(body, i - 1) - 1
                /\ body[i].op \notin {"open", "close"} => Depth(body, i) = Depth(body, i - 1)
<1>1. \A op : {k \in 1 .. 0 : body[k].op = op} = {}
  OBVIOUS
<1>2. \A op : Cardinality({k \in 1 .. 0 : body[k].op = op}) = 0
  BY <1>1, FS_EmptySet
<1>3. Depth(body, 0) = 0
  BY <1>2 DEF Depth
<1>4. ASSUME NEW i \in Nat PROVE Depth(body, i) \in Int
  <2>1. CASE i = 0
    BY <2>1, <1>3
  <2>2. CASE i # 0
    <3>1. /\ Cardinality({k \in 1 .. i : body[k].op = "open"}) \in Nat
          /\ Cardinality({k \in 1 .. i : body[k].op = "close"}) \in Nat
      BY <2>2, OpensCounted, ClosesCounted
    <3> QED BY <3>1 DEF Depth
  <2> QED BY <2>1, <2>2
<1>5. ASSUME NEW i \in Nat \ {0}
      PROVE  /\ body[i].op = "open" => Depth(body, i) = Depth(body, i - 1) + 1
             /\ body[i].op = "close" => Depth(body, i) = Depth(body, i - 1) - 1
             /\ body[i].op \notin {"open", "close"} => Depth(body, i) = Depth(body, i - 1)
  <2>1. i - 1 \in Nat
    OBVIOUS
  <2>2. /\ Cardinality({k \in 1 .. i : body[k].op = "open"}) \in Nat
        /\ Cardinality({k \in 1 .. i - 1 : body[k].op = "open"}) \in Nat
        /\ body[i].op = "open" => Cardinality({k \in 1 .. i : body[k].op = "open"}) = Cardinality({k \in 1 .. i - 1 : body[k].op = "open"}) + 1
        /\ body[i].op # "open" => Cardinality({k \in 1 .. i : body[k].op = "open"}) = Cardinality({k \in 1 .. i - 1 : body[k].op = "open"})
        /\ Cardinality({k \in 1 .. i : body[k].op = "close"}) \in Nat
        /\ Cardinality({k \in 1 .. i - 1 : body[k].op = "close"}) \in Nat
        /\ body[i].op = "close" => Cardinality({k \in 1 .. i : body[k].op = "close"}) = Cardinality({k \in 1 .. i - 1 : body[k].op = "close"}) + 1
        /\ body[i].op # "close" => Cardinality({k \in 1 .. i : body[k].op = "close"}) = Cardinality({k \in 1 .. i - 1 : body[k].op = "close"})
    BY OpensCounted, ClosesCounted
  <2> DEFINE O == Cardinality({k \in 1 .. i - 1 : body[k].op = "open"})
             C == Cardinality({k \in 1 .. i - 1 : body[k].op = "close"})
  <2>4. /\ O \in Nat /\ C \in Nat /\ Depth(body, i - 1) = O - C
        /\ Depth(body, i) = O + (IF body[i].op = "open" THEN 1 ELSE 0)
                              - (C + (IF body[i].op = "close" THEN 1 ELSE 0))
    BY <2>2 DEF Depth
  <2> HIDE DEF O, C
  <2> QED BY <2>4
<1> QED BY <1>3, <1>4, <1>5

\* The depth of a statement, and of the one before it.
LEMMA Nesting ==
    ASSUME NEW file \in SourceFile
    PROVE  /\ Depth(file.body, 0) = 0
           /\ \A i \in 0 .. Len(file.body) : Depth(file.body, i) \in Nat
           /\ \A i \in 1 .. Len(file.body) :
                /\ file.body[i].op = "open" => Depth(file.body, i) = Depth(file.body, i - 1) + 1
                /\ file.body[i].op = "close" => Depth(file.body, i) = Depth(file.body, i - 1) - 1
                /\ file.body[i].op \notin {"open", "close"} => Depth(file.body, i) = Depth(file.body, i - 1)
<1>1. Len(file.body) \in Nat /\ \A i \in 1 .. Len(file.body) : Depth(file.body, i) >= 0
  BY FileIs
<1>2. \A i \in 0 .. Len(file.body) : i \in Nat /\ (i = 0 \/ i \in 1 .. Len(file.body))
  BY <1>1
<1>3. \A i \in 1 .. Len(file.body) : i \in Nat \ {0}
  BY <1>1
<1>4. Depth(file.body, 0) = 0 /\ \A i \in Nat : Depth(file.body, i) \in Int
  BY DepthIs
<1>5. ASSUME NEW i \in 0 .. Len(file.body) PROVE Depth(file.body, i) \in Nat
  BY <1>1, <1>2, <1>4
<1>6. ASSUME NEW i \in 1 .. Len(file.body)
      PROVE  /\ file.body[i].op = "open" => Depth(file.body, i) = Depth(file.body, i - 1) + 1
             /\ file.body[i].op = "close" => Depth(file.body, i) = Depth(file.body, i - 1) - 1
             /\ file.body[i].op \notin {"open", "close"} => Depth(file.body, i) = Depth(file.body, i - 1)
  BY <1>3, DepthIs
<1> QED BY <1>4, <1>5, <1>6

-----------------------------------------------------------------------------
(***************************************************************************)
(* The declarations of a name whose blocks have not ended, and the one     *)
(* that the name stands for up to a depth.                                 *)
(***************************************************************************)
InForce(body, v, i) == {j \in 1 .. i : body[j].op = "declare" /\ body[j].v = v /\ Around(body, j, i)}
HomeTo(body, v, i, d) == Max({0} \cup {j \in InForce(body, v, i) : Depth(body, j) < d})

\* Going one statement further, a block is left when that statement ends it.
LEMMA AroundStep ==
    ASSUME NEW file \in SourceFile, NEW i \in 1 .. Len(file.body), NEW j \in 1 .. i - 1
    PROVE  Around(file.body, j, i) <=>
             Around(file.body, j, i - 1) /\ Depth(file.body, j) <= Depth(file.body, i)
<1>1. Len(file.body) \in Nat
  BY FileIs
<1>2. \A k : k \in j .. i <=> k \in j .. i - 1 \/ k = i
  BY <1>1
<1> QED BY <1>2 DEF Around

LEMMA AroundAll ==
    ASSUME NEW file \in SourceFile, NEW i \in 1 .. Len(file.body), NEW j \in 1 .. i - 1, file.body[i].op # "close"
    PROVE  Around(file.body, j, i) <=> Around(file.body, j, i - 1)
<1>1. Len(file.body) \in Nat
  BY FileIs
<1>2. j \in 0 .. Len(file.body) /\ i - 1 \in 0 .. Len(file.body) /\ i - 1 \in j .. i - 1
  BY <1>1
<1>3. /\ Depth(file.body, i) \in Nat /\ Depth(file.body, i - 1) \in Nat /\ Depth(file.body, j) \in Nat
      /\ Depth(file.body, i) >= Depth(file.body, i - 1)
  BY <1>1, <1>2, Nesting
<1>4. Around(file.body, j, i - 1) => Depth(file.body, j) <= Depth(file.body, i)
  BY <1>2, <1>3 DEF Around
<1> QED BY <1>4, AroundStep

LEMMA ForceIs ==
    ASSUME NEW file \in SourceFile, NEW i \in 0 .. Len(file.body), NEW v, NEW j \in InForce(file.body, v, i)
    PROVE  /\ j \in 1 .. i /\ j \in Nat /\ Depth(file.body, j) \in Nat
           /\ file.body[j].op = "declare" /\ file.body[j].v = v
           /\ \A k \in j .. i : Depth(file.body, j) <= Depth(file.body, k)
           /\ Depth(file.body, j) <= Depth(file.body, i)
<1>1. Len(file.body) \in Nat
  BY FileIs
<1>2. j \in 1 .. i /\ Around(file.body, j, i) /\ file.body[j].op = "declare" /\ file.body[j].v = v
  BY DEF InForce
<1>3. j \in 0 .. Len(file.body) /\ j \in Nat /\ i \in j .. i /\ \A k \in j .. i : k \in 0 .. Len(file.body)
  BY <1>1, <1>2
<1>4. Depth(file.body, j) \in Nat /\ \A k \in j .. i : Depth(file.body, k) \in Nat
  BY <1>3, Nesting
<1>5. \A k \in j .. i : Depth(file.body, j) <= Depth(file.body, k)
  BY <1>2, <1>4 DEF Around
<1> QED BY <1>2, <1>3, <1>4, <1>5

LEMMA ForceStep ==
    ASSUME NEW file \in SourceFile, NEW i \in 1 .. Len(file.body), NEW v
    PROVE  /\ file.body[i].op \notin {"close", "declare"} =>
                InForce(file.body, v, i) = InForce(file.body, v, i - 1)
           /\ file.body[i].op = "declare" /\ file.body[i].v # v =>
                InForce(file.body, v, i) = InForce(file.body, v, i - 1)
           /\ file.body[i].op = "declare" /\ file.body[i].v = v =>
                InForce(file.body, v, i) = InForce(file.body, v, i - 1) \cup {i}
           /\ file.body[i].op = "close" =>
                InForce(file.body, v, i) =
                  {j \in InForce(file.body, v, i - 1) : Depth(file.body, j) <= Depth(file.body, i)}
<1>1. Len(file.body) \in Nat
  BY FileIs
<1>2. \A j : j \in 1 .. i <=> j \in 1 .. i - 1 \/ j = i
  BY <1>1
<1>3. file.body[i].op # "close" =>
        \A j \in 1 .. i - 1 : Around(file.body, j, i) <=> Around(file.body, j, i - 1)
  BY AroundAll
<1>4. \A j \in 1 .. i - 1 : Around(file.body, j, i) <=>
         Around(file.body, j, i - 1) /\ Depth(file.body, j) <= Depth(file.body, i)
  BY AroundStep
<1>5. Around(file.body, i, i)
  <2>1. \A k \in i .. i : k = i
    BY <1>1
  <2>2. i \in 0 .. Len(file.body)
    BY <1>1
  <2>3. Depth(file.body, i) \in Nat
    BY <2>2, Nesting
  <2> QED BY <2>1, <2>3 DEF Around
<1>6. ASSUME file.body[i].op \notin {"close", "declare"}
      PROVE  InForce(file.body, v, i) = InForce(file.body, v, i - 1)
  BY <1>2, <1>3, <1>6 DEF InForce
<1>7. ASSUME file.body[i].op = "declare", file.body[i].v # v
      PROVE  InForce(file.body, v, i) = InForce(file.body, v, i - 1)
  BY <1>2, <1>3, <1>7 DEF InForce
<1>8. ASSUME file.body[i].op = "declare", file.body[i].v = v
      PROVE  InForce(file.body, v, i) = InForce(file.body, v, i - 1) \cup {i}
  BY <1>2, <1>3, <1>5, <1>8 DEF InForce
<1>9. ASSUME file.body[i].op = "close"
      PROVE  InForce(file.body, v, i) =
               {j \in InForce(file.body, v, i - 1) : Depth(file.body, j) <= Depth(file.body, i)}
  BY <1>2, <1>4, <1>9 DEF InForce
<1> QED BY <1>6, <1>7, <1>8, <1>9

LEMMA HomeToIs ==
    ASSUME NEW file \in SourceFile, NEW i \in 0 .. Len(file.body), NEW v, NEW d
    PROVE  /\ HomeTo(file.body, v, i, d) \in 0 .. i
           /\ \/ HomeTo(file.body, v, i, d) = 0
              \/ /\ HomeTo(file.body, v, i, d) \in InForce(file.body, v, i)
                 /\ Depth(file.body, HomeTo(file.body, v, i, d)) < d
           /\ \A j \in InForce(file.body, v, i) :
                Depth(file.body, j) < d => j <= HomeTo(file.body, v, i, d)
<1> DEFINE T == {0} \cup {j \in InForce(file.body, v, i) : Depth(file.body, j) < d}
<1>1. Len(file.body) \in Nat
  BY FileIs
<1>2. \A j \in InForce(file.body, v, i) : j \in 1 .. i /\ j \in Nat
  BY ForceIs
<1>3. T \in SUBSET Nat /\ T # {} /\ i \in Nat /\ \A j \in T : j <= i
  BY <1>1, <1>2
<1>4. HomeTo(file.body, v, i, d) = Max(T)
  BY DEF HomeTo
<1>5. Max(T) \in T /\ \A j \in T : j <= Max(T)
  <2> HIDE DEF T
  <2> QED BY <1>3, Greatest
<1>6. HomeTo(file.body, v, i, d) \in T /\ \A j \in T : j <= HomeTo(file.body, v, i, d)
  BY <1>4, <1>5
<1> QED BY <1>1, <1>2, <1>6

\* A name stands for the last declaration of all of them.
LEMMA HomeIs ==
    ASSUME NEW file \in SourceFile, NEW i \in 0 .. Len(file.body), NEW v
    PROVE  Home(file.body, v, i) = HomeTo(file.body, v, i, Depth(file.body, i) + 1)
<1>1. Depth(file.body, i) \in Nat
  BY Nesting
<1>2. \A j \in InForce(file.body, v, i) : Depth(file.body, j) \in Nat /\ Depth(file.body, j) <= Depth(file.body, i)
  BY ForceIs
<1>3. {j \in InForce(file.body, v, i) : Depth(file.body, j) < Depth(file.body, i) + 1} = InForce(file.body, v, i)
  BY <1>1, <1>2
<1> QED BY <1>3 DEF Home, HomeTo, InForce

LEMMA HomeStep ==
    ASSUME NEW file \in SourceFile, NEW i \in 1 .. Len(file.body), NEW v,
           NEW d \in 1 .. Depth(file.body, i) + 1
    PROVE  /\ file.body[i].op = "declare" /\ file.body[i].v = v /\ d = Depth(file.body, i) + 1 =>
                HomeTo(file.body, v, i, d) = i
           /\ ~(file.body[i].op = "declare" /\ file.body[i].v = v /\ d = Depth(file.body, i) + 1) =>
                HomeTo(file.body, v, i, d) = HomeTo(file.body, v, i - 1, d)
<1>1. Len(file.body) \in Nat /\ i \in 0 .. Len(file.body) /\ i - 1 \in 0 .. Len(file.body)
  BY FileIs
<1>2. Depth(file.body, i) \in Nat
  BY <1>1, Nesting
<1>3. \A j \in InForce(file.body, v, i - 1) : Depth(file.body, j) \in Nat
  BY <1>1, ForceIs
<1>4. ASSUME file.body[i].op = "declare", file.body[i].v = v, d = Depth(file.body, i) + 1
      PROVE  HomeTo(file.body, v, i, d) = i
  <2>0. InForce(file.body, v, i) = InForce(file.body, v, i - 1) \cup {i}
    BY <1>4, ForceStep
  <2>1. i \in InForce(file.body, v, i) /\ Depth(file.body, i) < d
    BY <1>2, <1>4, <2>0
  <2>2. HomeTo(file.body, v, i, d) \in 0 .. i /\ i <= HomeTo(file.body, v, i, d)
    BY <1>1, <2>1, HomeToIs
  <2> QED BY <1>1, <2>2
<1>5. ASSUME ~(file.body[i].op = "declare" /\ file.body[i].v = v /\ d = Depth(file.body, i) + 1)
      PROVE  HomeTo(file.body, v, i, d) = HomeTo(file.body, v, i - 1, d)
  <2>1. {j \in InForce(file.body, v, i) : Depth(file.body, j) < d} =
          {j \in InForce(file.body, v, i - 1) : Depth(file.body, j) < d}
    <3>1. CASE file.body[i].op = "close"
      <4>1. \A j \in InForce(file.body, v, i - 1) :
               Depth(file.body, j) < d => Depth(file.body, j) <= Depth(file.body, i)
        BY <1>2, <1>3
      <4> QED BY <3>1, <4>1, ForceStep
    <3>2. CASE file.body[i].op = "declare" /\ file.body[i].v = v
      <4>1. ~(Depth(file.body, i) < d)
        BY <1>2, <1>5, <3>2
      <4>2. InForce(file.body, v, i) = InForce(file.body, v, i - 1) \cup {i}
        BY <3>2, ForceStep
      <4> QED BY <4>1, <4>2
    <3>3. CASE file.body[i].op # "close" /\ ~(file.body[i].op = "declare" /\ file.body[i].v = v)
      BY <3>3, ForceStep
    <3> QED BY <3>1, <3>2, <3>3
  <2> QED BY <2>1 DEF HomeTo
<1> QED BY <1>4, <1>5

\* Nothing is declared deeper than where it stands.
LEMMA HomeBeyond ==
    ASSUME NEW file \in SourceFile, NEW i \in 0 .. Len(file.body), NEW v
    PROVE  HomeTo(file.body, v, i, Depth(file.body, i) + 2) = HomeTo(file.body, v, i, Depth(file.body, i) + 1)
<1>1. Depth(file.body, i) \in Nat
  BY Nesting
<1>2. \A j \in InForce(file.body, v, i) : Depth(file.body, j) \in Nat /\ Depth(file.body, j) <= Depth(file.body, i)
  BY ForceIs
<1>3. {j \in InForce(file.body, v, i) : Depth(file.body, j) < Depth(file.body, i) + 1} =
        {j \in InForce(file.body, v, i) : Depth(file.body, j) < Depth(file.body, i) + 2}
  BY <1>1, <1>2
<1> QED BY <1>3 DEF HomeTo

-----------------------------------------------------------------------------
(***************************************************************************)
(* The stack of a variable.                                                *)
(***************************************************************************)
\* What holds at the start and is handed on by every statement holds throughout.
LEMMA Climb ==
    ASSUME NEW n \in Nat, NEW S, 0 \in S, \A i \in 1 .. n : i - 1 \in S => i \in S
    PROVE  \A i \in 0 .. n : i \in S
<1> DEFINE T == {i \in 0 .. n : i \notin S}
<1>1. ASSUME T # {} PROVE FALSE
  <2>1. T \in SUBSET Nat
    OBVIOUS
  <2>2. PICK m \in T : \A k \in T : m <= k
    BY ONLY <1>1, <2>1, Least
  <2>3. m \in 0 .. n /\ m \notin S /\ m # 0
    BY <2>2
  <2>4. m - 1 \in 0 .. n /\ m - 1 \notin T
    BY <2>2, <2>3
  <2> QED BY <2>3, <2>4
<1> QED BY <1>1

\* The binding that is in sight when what is deeper than d is gone is tainted.
SeenTo(stack, d) == \E e \in stack.tainted : e <= d /\ \A f \in stack.at : f <= d => f <= e

LEMMA VisibleIs ==
    ASSUME NEW m \in Nat, NEW stack, stack.at \subseteq 0 .. m, stack.tainted \subseteq stack.at
    PROVE  Visible(stack) <=> SeenTo(stack, m)
<1>1. CASE stack.at = {}
  BY <1>1 DEF Visible, SeenTo
<1>2. CASE stack.at # {}
  <2>1. stack.at \in SUBSET Nat /\ \A e \in stack.at : e <= m
    OBVIOUS
  <2>2. Max(stack.at) \in stack.at /\ \A e \in stack.at : e <= Max(stack.at)
    BY <1>2, <2>1, Greatest
  <2>3. ASSUME Visible(stack) PROVE SeenTo(stack, m)
    BY <2>1, <2>2, <2>3 DEF Visible, SeenTo
  <2>4. ASSUME SeenTo(stack, m) PROVE Visible(stack)
    <3>1. PICK e \in stack.tainted : \A f \in stack.at : f <= e
      BY <2>1, <2>4 DEF SeenTo
    <3>2. e \in Nat /\ Max(stack.at) \in Nat /\ e <= Max(stack.at) /\ Max(stack.at) <= e
      BY <2>1, <2>2, <3>1
    <3>3. e = Max(stack.at)
      BY <3>2
    <3> QED BY <1>2, <3>1, <3>3 DEF Visible
  <2> QED BY <2>3, <2>4
<1> QED BY <1>1, <1>2

LEMMA PruneIs ==
    ASSUME NEW m \in Nat, NEW stack, stack.at \subseteq Nat, stack.tainted \subseteq stack.at
    PROVE  /\ Prune(stack, m).at = {e \in stack.at : e <= m}
           /\ Prune(stack, m).tainted \subseteq Prune(stack, m).at
           /\ \A d \in 0 .. m : SeenTo(Prune(stack, m), d) <=> SeenTo(stack, d)
<1>1. /\ Prune(stack, m).at = {e \in stack.at : e <= m}
      /\ Prune(stack, m).tainted = {e \in stack.tainted : e <= m}
  BY DEF Prune
<1>2. ASSUME NEW d \in 0 .. m PROVE SeenTo(Prune(stack, m), d) <=> SeenTo(stack, d)
  <2>1. \A e \in stack.at : e \in Nat /\ (e <= d => e <= m)
    OBVIOUS
  <2> QED BY <1>1, <2>1 DEF SeenTo
<1> QED BY <1>1, <1>2

\* A binding is put on top, or changed there.
OnTop(old, new, m, declared, t, top) ==
    /\ new.at = old.at \cup {top}
    /\ new.tainted \subseteq new.at
    /\ \A e \in old.at : e <= top
    /\ declared \/ old.at = {} => top = m
    /\ ~declared /\ old.at # {} => top \in old.at
    /\ \A d \in Nat : /\ d >= top => (SeenTo(new, d) <=> t)
                      /\ d < top => (SeenTo(new, d) <=> SeenTo(old, d))

LEMMA BindIs ==
    ASSUME NEW m \in Nat, NEW stack, stack.at \subseteq 0 .. m, stack.tainted \subseteq stack.at,
           NEW declared \in BOOLEAN, NEW t \in BOOLEAN
    PROVE  \E top \in 0 .. m : OnTop(stack, Bind(stack, m, declared, t), m, declared, t, top)
<1> DEFINE top == IF declared \/ stack.at = {} THEN m ELSE Max(stack.at)
           new == Bind(stack, m, declared, t)
<1>1. stack.at \in SUBSET Nat /\ \A e \in stack.at : e <= m /\ e \in Nat
  OBVIOUS
<1>2. stack.at # {} => Max(stack.at) \in stack.at /\ \A e \in stack.at : e <= Max(stack.at)
  BY <1>1, Greatest
<1>3. /\ top \in 0 .. m /\ \A e \in stack.at : e <= top
      /\ declared \/ stack.at = {} => top = m
      /\ ~declared /\ stack.at # {} => top \in stack.at
  BY <1>1, <1>2
<1>4. /\ new.at = stack.at \cup {top}
      /\ t => new.tainted = stack.tainted \cup {top}
      /\ ~t => new.tainted = stack.tainted \ {top}
  BY DEF Bind
<1> HIDE DEF top, new
<1>5. new.tainted \subseteq new.at
  BY <1>4
<1>6. ASSUME NEW d \in Nat, d >= top PROVE SeenTo(new, d) <=> t
  <2>1. CASE t
    <3>1. top \in new.tainted /\ \A f \in new.at : f <= top
      BY <1>3, <1>4, <2>1
    <3> QED BY <1>6, <2>1, <3>1 DEF SeenTo
  <2>2. CASE ~t
    <3>1. SUFFICES ASSUME NEW e \in new.tainted, top <= e PROVE FALSE
      BY <1>4, <1>6, <2>2 DEF SeenTo
    <3>2. e \in stack.at /\ e # top
      BY <1>4, <2>2, <3>1
    <3>3. e \in Nat /\ top \in Nat /\ e <= top
      BY <1>1, <1>3, <3>2
    <3> QED BY <3>1, <3>2, <3>3
  <2> QED BY <2>1, <2>2
<1>7. ASSUME NEW d \in Nat, d < top PROVE SeenTo(new, d) <=> SeenTo(stack, d)
  <2>1. ~(top <= d)
    BY <1>3, <1>7
  <2>2. \A e : e <= d => (e \in new.at <=> e \in stack.at) /\ (e \in new.tainted <=> e \in stack.tainted)
    BY <1>4, <2>1
  <2> QED BY <2>2 DEF SeenTo
<1>8. OnTop(stack, new, m, declared, t, top)
  BY <1>3, <1>4, <1>5, <1>6, <1>7 DEF OnTop
<1> QED BY <1>3, <1>8 DEF new

-----------------------------------------------------------------------------
(***************************************************************************)
(* The bindings after each statement.                                      *)
(***************************************************************************)
\* A statement that gives a variable a value, and whether it is a tainted one.
Values(s) == s.op \in {"declare", "assign"} /\ s.from # "nothing"
TaintedBy(file, i) == file.body[i].from = "source" \/ Seen(Bindings(file)[i - 1], file.body[i].from)

LEMMA BindingStep ==
    ASSUME NEW file \in SourceFile, NEW i \in 1 .. Len(file.body), DOMAIN Bindings(file)[i - 1] = Var
    PROVE  /\ DOMAIN Bindings(file)[i] = Var
           /\ \A v \in Var :
                /\ file.body[i].op = "close" =>
                     Bindings(file)[i][v] = Prune(Bindings(file)[i - 1][v], Depth(file.body, i) + 1)
                /\ Values(file.body[i]) /\ v = file.body[i].v =>
                     Bindings(file)[i][v] = Bind(Bindings(file)[i - 1][v], Depth(file.body, i) + 1,
                                                 file.body[i].op = "declare", TaintedBy(file, i))
                /\ file.body[i].op # "close" /\ ~(Values(file.body[i]) /\ v = file.body[i].v) =>
                     Bindings(file)[i][v] = Bindings(file)[i - 1][v]
<1> DEFINE bindings == Bindings(file)[i - 1]
           s == file.body[i]
           depth == Depth(file.body, i) + 1
<1>1. Bindings(file)[i] = LexicalStep(file.body, bindings, i)
  BY FileIs, BindingsAre
<1>2. CASE s.op = "close"
  <2>1. Bindings(file)[i] = [v \in Var |-> Prune(bindings[v], depth)]
    BY <1>1, <1>2 DEF LexicalStep
  <2>2. ~Values(s)
    BY <1>2 DEF Values
  <2> QED BY <1>2, <2>1, <2>2
<1>3. CASE s.op # "close" /\ Values(s)
  <2>1. Bindings(file)[i] = [bindings EXCEPT ![s.v] = Bind(@, depth, s.op = "declare", TaintedBy(file, i))]
    BY <1>1, <1>3 DEF LexicalStep, Values, TaintedBy
  <2>2. DOMAIN Bindings(file)[i] = Var
    BY <2>1
  <2>3. ASSUME NEW v \in Var
        PROVE  /\ v = s.v => Bindings(file)[i][v] = Bind(bindings[v], depth, s.op = "declare", TaintedBy(file, i))
               /\ v # s.v => Bindings(file)[i][v] = bindings[v]
    BY <2>1
  <2> QED BY <1>3, <2>2, <2>3
<1>4. CASE s.op # "close" /\ ~Values(s)
  <2>1. Bindings(file)[i] = bindings
    BY <1>1, <1>4 DEF LexicalStep, Values
  <2> QED BY <1>4, <2>1
<1> QED BY <1>2, <1>3, <1>4

\* The stacks of the variables at depth d.
Stacked(bindings, d) ==
    /\ DOMAIN bindings = Var
    /\ \A v \in Var : bindings[v].at \subseteq 0 .. d /\ bindings[v].tainted \subseteq bindings[v].at

LEMMA StackedStep ==
    ASSUME NEW file \in SourceFile, NEW i \in 1 .. Len(file.body),
           Stacked(Bindings(file)[i - 1], Depth(file.body, i - 1) + 1)
    PROVE  Stacked(Bindings(file)[i], Depth(file.body, i) + 1)
<1>0. DOMAIN Bindings(file)[i - 1] = Var
  BY DEF Stacked
<1>1. DOMAIN Bindings(file)[i] = Var
  BY <1>0, BindingStep
<1>2. Len(file.body) \in Nat /\ i \in 0 .. Len(file.body) /\ i - 1 \in 0 .. Len(file.body)
  BY FileIs
<1>3. Depth(file.body, i) \in Nat /\ Depth(file.body, i - 1) \in Nat
  BY <1>2, Nesting
<1>4. ASSUME NEW v \in Var
      PROVE  /\ Bindings(file)[i][v].at \subseteq 0 .. Depth(file.body, i) + 1
             /\ Bindings(file)[i][v].tainted \subseteq Bindings(file)[i][v].at
  <2> DEFINE old == Bindings(file)[i - 1][v]
             m == Depth(file.body, i) + 1
  <2>1. old.at \subseteq 0 .. Depth(file.body, i - 1) + 1 /\ old.tainted \subseteq old.at
    BY DEF Stacked
  <2>2. CASE file.body[i].op = "close"
    <3>1. Bindings(file)[i][v] = Prune(old, m)
      BY <1>0, <2>2, BindingStep
    <3>2. m \in Nat /\ old.at \subseteq Nat
      BY <1>3, <2>1
    <3>3. Prune(old, m).at = {e \in old.at : e <= m} /\ Prune(old, m).tainted \subseteq Prune(old, m).at
      BY <2>1, <3>2, PruneIs
    <3>4. \A e \in old.at : e <= m => e \in 0 .. m
      BY <3>2
    <3> QED BY <3>1, <3>3, <3>4
  <2>3. CASE file.body[i].op # "close"
    <3>1. old.at \subseteq 0 .. m /\ m \in Nat
      <4>1. Depth(file.body, i) >= Depth(file.body, i - 1)
        BY <1>3, <2>3, Nesting
      <4> QED BY <1>3, <2>1, <4>1
    <3>2. CASE Values(file.body[i]) /\ v = file.body[i].v
      <4>1. Bindings(file)[i][v] = Bind(old, m, file.body[i].op = "declare", TaintedBy(file, i))
        BY <1>0, <3>2, BindingStep
      <4>2. (file.body[i].op = "declare") \in BOOLEAN /\ TaintedBy(file, i) \in BOOLEAN
        BY DEF TaintedBy
      <4>3. \E top \in 0 .. m : Bindings(file)[i][v].at = old.at \cup {top}
                                /\ Bindings(file)[i][v].tainted \subseteq Bindings(file)[i][v].at
        <5> DEFINE declared == file.body[i].op = "declare"
                   t == TaintedBy(file, i)
        <5>1. declared \in BOOLEAN /\ t \in BOOLEAN /\ Bindings(file)[i][v] = Bind(old, m, declared, t)
          BY <4>1, <4>2
        <5> HIDE DEF m, old, declared, t
        <5>2. old.tainted \subseteq old.at
          BY <2>1
        <5>3. \E top \in 0 .. m : OnTop(old, Bind(old, m, declared, t), m, declared, t, top)
          BY <3>1, <5>1, <5>2, BindIs
        <5> QED BY <5>1, <5>3 DEF OnTop
      <4> QED BY <3>1, <4>3
    <3>3. CASE ~(Values(file.body[i]) /\ v = file.body[i].v)
      <4>1. Bindings(file)[i][v] = old
        BY <1>0, <2>3, <3>3, BindingStep
      <4> QED BY <2>1, <3>1, <4>1
    <3> QED BY <3>2, <3>3
  <2> QED BY <2>2, <2>3
<1> QED BY <1>1, <1>4 DEF Stacked

LEMMA StacksAre ==
    ASSUME NEW file \in SourceFile
    PROVE  \A i \in 0 .. Len(file.body) : Stacked(Bindings(file)[i], Depth(file.body, i) + 1)
<1> DEFINE S == {i \in 0 .. Len(file.body) : Stacked(Bindings(file)[i], Depth(file.body, i) + 1)}
<1>1. Len(file.body) \in Nat
  BY FileIs
<1>2. 0 \in S
  <2>1. Depth(file.body, 0) = 0
    BY Nesting
  <2>2. Bindings(file)[0] = AtStart(file)
    BY <1>1, BindingsAre
  <2>3. Stacked(AtStart(file), 1)
    BY DEF Stacked, AtStart, Filled, Unbound
  <2> QED BY <1>1, <2>1, <2>2, <2>3
<1>3. \A i \in 1 .. Len(file.body) : i - 1 \in S => i \in S
  BY <1>1, StackedStep
<1>4. \A i \in 0 .. Len(file.body) : i \in S
  <2> HIDE DEF S
  <2> QED BY <1>1, <1>2, <1>3, Climb
<1> QED BY <1>4

\* What statement i makes of the stack of v.
StackMoves(file, i, v, old, new) ==
    /\ old.at \subseteq 0 .. Depth(file.body, i - 1) + 1 /\ old.tainted \subseteq old.at
    /\ new.at \subseteq 0 .. Depth(file.body, i) + 1 /\ new.tainted \subseteq new.at
    /\ Depth(file.body, i) \in Nat /\ Depth(file.body, i - 1) \in Nat
    /\ file.body[i].op = "close" =>
         /\ new.at = {e \in old.at : e <= Depth(file.body, i) + 1}
         /\ \A d \in 0 .. Depth(file.body, i) + 1 : SeenTo(new, d) <=> SeenTo(old, d)
    /\ file.body[i].op # "close" /\ ~(Values(file.body[i]) /\ v = file.body[i].v) => new = old
    /\ Values(file.body[i]) /\ v = file.body[i].v =>
         \E top \in 0 .. Depth(file.body, i) + 1 :
           OnTop(old, new, Depth(file.body, i) + 1, file.body[i].op = "declare", TaintedBy(file, i), top)

LEMMA StackStep ==
    ASSUME NEW file \in SourceFile, NEW i \in 1 .. Len(file.body), NEW v \in Var
    PROVE  StackMoves(file, i, v, Bindings(file)[i - 1][v], Bindings(file)[i][v])
<1> DEFINE old == Bindings(file)[i - 1][v]
           new == Bindings(file)[i][v]
           m == Depth(file.body, i) + 1
<1>1. Len(file.body) \in Nat /\ i \in 0 .. Len(file.body) /\ i - 1 \in 0 .. Len(file.body)
  BY FileIs
<1>2. Depth(file.body, i) \in Nat /\ Depth(file.body, i - 1) \in Nat
  BY <1>1, Nesting
<1>3. /\ Stacked(Bindings(file)[i - 1], Depth(file.body, i - 1) + 1)
      /\ Stacked(Bindings(file)[i], Depth(file.body, i) + 1)
  BY <1>1, StacksAre
<1>4. /\ old.at \subseteq 0 .. Depth(file.body, i - 1) + 1 /\ old.tainted \subseteq old.at
      /\ new.at \subseteq 0 .. Depth(file.body, i) + 1 /\ new.tainted \subseteq new.at
      /\ DOMAIN Bindings(file)[i - 1] = Var
  BY <1>3 DEF Stacked
<1>5. ASSUME file.body[i].op = "close"
      PROVE  /\ new.at = {e \in old.at : e <= m}
             /\ \A d \in 0 .. m : SeenTo(new, d) <=> SeenTo(old, d)
  <2>1. new = Prune(old, m)
    BY <1>4, <1>5, BindingStep
  <2>2. m \in Nat /\ old.at \subseteq Nat
    BY <1>2, <1>4
  <2> HIDE DEF m
  <2>3. /\ Prune(old, m).at = {e \in old.at : e <= m}
        /\ \A d \in 0 .. m : SeenTo(Prune(old, m), d) <=> SeenTo(old, d)
    BY <1>4, <2>2, PruneIs
  <2> QED BY <2>1, <2>3
<1>6. ASSUME file.body[i].op # "close", ~(Values(file.body[i]) /\ v = file.body[i].v) PROVE new = old
  BY <1>4, <1>6, BindingStep
<1>7. ASSUME Values(file.body[i]), v = file.body[i].v
      PROVE  \E top \in 0 .. m : OnTop(old, new, m, file.body[i].op = "declare", TaintedBy(file, i), top)
  <2> DEFINE declared == file.body[i].op = "declare"
             t == TaintedBy(file, i)
  <2>1. file.body[i].op \in {"declare", "assign"}
    BY <1>7 DEF Values
  <2>2. new = Bind(old, m, declared, t)
    BY <1>4, <1>7, BindingStep
  <2>3. declared \in BOOLEAN /\ t \in BOOLEAN
    BY DEF TaintedBy
  <2>4. m \in Nat /\ old.at \subseteq 0 .. m /\ old.tainted \subseteq old.at
    <3>1. Depth(file.body, i) = Depth(file.body, i - 1)
      BY <2>1, Nesting
    <3> QED BY <1>2, <1>4, <3>1
  <2>5. \E top \in 0 .. m : OnTop(old, new, m, declared, t, top)
    <3> HIDE DEF m, declared, t
    <3> QED BY <2>2, <2>3, <2>4, BindIs
  <2> QED BY <2>5
<1> QED BY <1>2, <1>4, <1>5, <1>6, <1>7 DEF StackMoves

-----------------------------------------------------------------------------
(***************************************************************************)
(* Where the bindings come from.                                           *)
(***************************************************************************)
\* The statements that gave a variable a value in a block that has not ended.
GivenIn(body, v, i) == {j \in 1 .. i : Values(body[j]) /\ body[j].v = v /\ Around(body, j, i)}

LEMMA GivenIs ==
    ASSUME NEW file \in SourceFile, NEW i \in 0 .. Len(file.body), NEW v, NEW j \in GivenIn(file.body, v, i)
    PROVE  j \in 1 .. i /\ Depth(file.body, j) \in Nat /\ Depth(file.body, j) <= Depth(file.body, i)
<1>1. Len(file.body) \in Nat
  BY FileIs
<1>2. j \in 1 .. i /\ Around(file.body, j, i)
  BY DEF GivenIn
<1>3. j \in 0 .. Len(file.body) /\ i \in j .. i
  BY <1>1, <1>2
<1>4. Depth(file.body, j) \in Nat /\ Depth(file.body, i) \in Nat
  BY <1>3, Nesting
<1>5. Depth(file.body, j) <= Depth(file.body, i)
  BY <1>2, <1>3, <1>4 DEF Around
<1> QED BY <1>2, <1>4, <1>5

LEMMA GivenStep ==
    ASSUME NEW file \in SourceFile, NEW i \in 1 .. Len(file.body), NEW v
    PROVE  /\ file.body[i].op # "close" /\ ~(Values(file.body[i]) /\ v = file.body[i].v) =>
                GivenIn(file.body, v, i) = GivenIn(file.body, v, i - 1)
           /\ Values(file.body[i]) /\ v = file.body[i].v =>
                GivenIn(file.body, v, i) = GivenIn(file.body, v, i - 1) \cup {i}
           /\ file.body[i].op = "close" =>
                GivenIn(file.body, v, i) =
                  {j \in GivenIn(file.body, v, i - 1) : Depth(file.body, j) <= Depth(file.body, i)}
<1>1. Len(file.body) \in Nat
  BY FileIs
<1>2. \A j : j \in 1 .. i <=> j \in 1 .. i - 1 \/ j = i
  BY <1>1
<1>3. file.body[i].op # "close" =>
        \A j \in 1 .. i - 1 : Around(file.body, j, i) <=> Around(file.body, j, i - 1)
  BY AroundAll
<1>4. \A j \in 1 .. i - 1 : Around(file.body, j, i) <=>
         Around(file.body, j, i - 1) /\ Depth(file.body, j) <= Depth(file.body, i)
  BY AroundStep
<1>5. Around(file.body, i, i)
  <2>1. \A k \in i .. i : k = i
    BY <1>1
  <2>2. i \in 0 .. Len(file.body)
    BY <1>1
  <2>3. Depth(file.body, i) \in Nat
    BY <2>2, Nesting
  <2> QED BY <2>1, <2>3 DEF Around
<1>6. ASSUME file.body[i].op # "close", ~(Values(file.body[i]) /\ v = file.body[i].v)
      PROVE  GivenIn(file.body, v, i) = GivenIn(file.body, v, i - 1)
  BY <1>2, <1>3, <1>6 DEF GivenIn
<1>7. ASSUME Values(file.body[i]), v = file.body[i].v
      PROVE  GivenIn(file.body, v, i) = GivenIn(file.body, v, i - 1) \cup {i}
  <2>1. file.body[i].op # "close"
    BY <1>7 DEF Values
  <2> QED BY <1>2, <1>3, <1>5, <1>7, <2>1 DEF GivenIn
<1>8. ASSUME file.body[i].op = "close"
      PROVE  GivenIn(file.body, v, i) =
               {j \in GivenIn(file.body, v, i - 1) : Depth(file.body, j) <= Depth(file.body, i)}
  <2>1. ~Values(file.body[i])
    BY <1>8 DEF Values
  <2> QED BY <1>2, <1>4, <1>8, <2>1 DEF GivenIn
<1> QED BY <1>6, <1>7, <1>8

\* Every binding was made by a statement whose block has not ended, or for a parameter;
\* and what such a statement gave is still bound.
Founded(file, i, v) ==
    /\ \A d \in Bindings(file)[i][v].at :
          \/ d = 0 /\ v \in file.params
          \/ \E j \in GivenIn(file.body, v, i) : Depth(file.body, j) + 1 = d
    /\ v \in file.params => 0 \in Bindings(file)[i][v].at
    /\ \A j \in GivenIn(file.body, v, i) : \E d \in Bindings(file)[i][v].at : d <= Depth(file.body, j) + 1

LEMMA FoundedStep ==
    ASSUME NEW file \in SourceFile, NEW i \in 1 .. Len(file.body), NEW v \in Var, Founded(file, i - 1, v)
    PROVE  Founded(file, i, v)
<1> DEFINE old == Bindings(file)[i - 1][v]
           new == Bindings(file)[i][v]
           D(j) == Depth(file.body, j)
           Earlier == GivenIn(file.body, v, i - 1)
           After == GivenIn(file.body, v, i)
<1>1. Len(file.body) \in Nat /\ i \in 0 .. Len(file.body) /\ i - 1 \in 0 .. Len(file.body)
  BY FileIs
<1>2. \A j \in Earlier : D(j) \in Nat /\ D(j) <= D(i - 1)
  BY <1>1, GivenIs
<1>3. /\ \A d \in old.at : (d = 0 /\ v \in file.params) \/ \E j \in Earlier : D(j) + 1 = d
      /\ v \in file.params => 0 \in old.at
      /\ \A j \in Earlier : \E d \in old.at : d <= D(j) + 1
  BY DEF Founded
<1>0. StackMoves(file, i, v, old, new)
  BY StackStep
<1>4. D(i) \in Nat /\ old.at \subseteq Nat
  BY <1>0 DEF StackMoves
<1>5. SUFFICES /\ \A d \in new.at : (d = 0 /\ v \in file.params) \/ \E j \in After : D(j) + 1 = d
               /\ v \in file.params => 0 \in new.at
               /\ \A j \in After : \E d \in new.at : d <= D(j) + 1
  BY DEF Founded
<1>6. CASE file.body[i].op = "close"
  <2>1. After = {j \in Earlier : D(j) <= D(i)}
    BY <1>6, GivenStep
  <2>2. new.at = {e \in old.at : e <= D(i) + 1}
    BY <1>6, <1>0 DEF StackMoves
  <2> HIDE DEF old, new, D, Earlier, After
  <2>3. ASSUME NEW d \in new.at PROVE (d = 0 /\ v \in file.params) \/ \E j \in After : D(j) + 1 = d
    <3>1. d \in old.at /\ d <= D(i) + 1
      BY <2>2
    <3>2. ASSUME NEW j \in Earlier, D(j) + 1 = d PROVE j \in After
      BY <1>2, <1>4, <2>1, <3>1, <3>2
    <3> QED BY <1>3, <3>1, <3>2
  <2>4. v \in file.params => 0 \in new.at
    BY <1>3, <1>4, <2>2
  <2>5. ASSUME NEW j \in After PROVE \E d \in new.at : d <= D(j) + 1
    <3>1. j \in Earlier /\ D(j) <= D(i)
      BY <2>1
    <3>2. PICK d \in old.at : d <= D(j) + 1
      BY <1>3, <3>1
    <3>3. d <= D(i) + 1
      BY <1>2, <1>4, <3>1, <3>2
    <3> QED BY <2>2, <3>2, <3>3
  <2> QED BY <2>3, <2>4, <2>5
<1>7. CASE file.body[i].op # "close" /\ ~(Values(file.body[i]) /\ v = file.body[i].v)
  <2>1. After = Earlier /\ new = old
    BY <1>7, <1>0, GivenStep DEF StackMoves
  <2> QED BY <1>3, <2>1
<1>8. CASE Values(file.body[i]) /\ v = file.body[i].v
  <2>1. After = Earlier \cup {i}
    BY <1>8, GivenStep
  <2>2. PICK top \in 0 .. D(i) + 1 :
           OnTop(old, new, D(i) + 1, file.body[i].op = "declare", TaintedBy(file, i), top)
    BY <1>8, <1>0 DEF StackMoves
  <2>3. /\ new.at = old.at \cup {top}
        /\ top = D(i) + 1 \/ top \in old.at
    BY <2>2 DEF OnTop
  <2> HIDE DEF old, new, D, Earlier, After
  <2>4. \A d \in new.at : (d = 0 /\ v \in file.params) \/ \E j \in After : D(j) + 1 = d
    BY <1>3, <2>1, <2>3
  <2>5. ASSUME NEW j \in After PROVE \E d \in new.at : d <= D(j) + 1
    <3>1. CASE j \in Earlier
      BY <1>3, <2>3, <3>1
    <3>2. CASE j = i
      BY <1>4, <2>3, <3>2
    <3> QED BY <2>1, <3>1, <3>2
  <2> QED BY <1>3, <2>3, <2>4, <2>5
<1>9. Values(file.body[i]) => file.body[i].op # "close"
  BY DEF Values
<1> QED BY <1>6, <1>7, <1>8, <1>9

LEMMA FoundedAlways ==
    ASSUME NEW file \in SourceFile, NEW v \in Var
    PROVE  \A i \in 0 .. Len(file.body) : Founded(file, i, v)
<1> DEFINE S == {i \in 0 .. Len(file.body) : Founded(file, i, v)}
<1>1. Len(file.body) \in Nat
  BY FileIs
<1>2. 0 \in S
  <2>1. Bindings(file)[0][v] = IF v \in file.params THEN Filled ELSE Unbound
    BY <1>1, BindingsAre DEF AtStart
  <2>2. GivenIn(file.body, v, 0) = {}
    BY DEF GivenIn
  <2> QED BY <1>1, <2>1, <2>2 DEF Founded, Filled, Unbound
<1>3. \A i \in 1 .. Len(file.body) : i - 1 \in S => i \in S
  BY <1>1, FoundedStep
<1>4. \A i \in 0 .. Len(file.body) : i \in S
  <2> HIDE DEF S
  <2> QED BY <1>1, <1>2, <1>3, Climb
<1> QED BY <1>4

\* A variable with a binding is in use, and one with a value in use has a binding.
LEMMA BoundInUse ==
    ASSUME NEW file \in SourceFile, NEW i \in 0 .. Len(file.body), NEW v \in Var
    PROVE  /\ Bindings(file)[i][v].at # {} => InUse(file, v, i, FALSE)
           /\ InUse(file, v, i, TRUE) => Bindings(file)[i][v].at # {}
<1>1. Founded(file, i, v)
  BY FoundedAlways
<1>2. ASSUME NEW j \in 1 .. i
      PROVE  j \in GivenIn(file.body, v, i) <=>
               /\ file.body[j].op \in {"declare", "assign"} /\ file.body[j].v = v
               /\ file.body[j].from # "nothing" /\ Around(file.body, j, i)
  BY DEF GivenIn, Values
<1>3. ASSUME Bindings(file)[i][v].at # {} PROVE InUse(file, v, i, FALSE)
  <2>1. v \in file.params \/ \E j \in GivenIn(file.body, v, i) : TRUE
    BY <1>1, <1>3 DEF Founded
  <2>2. \A j \in GivenIn(file.body, v, i) : j \in 1 .. i
    BY DEF GivenIn
  <2> QED BY <1>2, <2>1, <2>2 DEF InUse
<1>4. ASSUME InUse(file, v, i, TRUE) PROVE Bindings(file)[i][v].at # {}
  <2>1. v \in file.params \/ \E j \in GivenIn(file.body, v, i) : TRUE
    BY <1>2, <1>4 DEF InUse
  <2> QED BY <1>1, <2>1 DEF Founded
<1> QED BY <1>3, <1>4

\* A declaration whose block has not ended is bound, or under all that is; and above
\* the first binding there are only such declarations.
Layered(file, i, v) ==
    /\ \A j \in InForce(file.body, v, i) :
          \/ Depth(file.body, j) + 1 \in Bindings(file)[i][v].at
          \/ \A d \in Bindings(file)[i][v].at : d > Depth(file.body, j) + 1
    /\ \A d, e \in Bindings(file)[i][v].at :
          e < d => \E j \in InForce(file.body, v, i) : Depth(file.body, j) + 1 = d

LEMMA LayersStep ==
    ASSUME NEW file \in SourceFile, ~HiddenUnvalued(file),
           NEW i \in 1 .. Len(file.body), NEW v \in Var, Layered(file, i - 1, v)
    PROVE  Layered(file, i, v)
<1> DEFINE old == Bindings(file)[i - 1][v]
           new == Bindings(file)[i][v]
           D(j) == Depth(file.body, j)
           Earlier == InForce(file.body, v, i - 1)
           After == InForce(file.body, v, i)
<1>1. /\ Len(file.body) \in Nat /\ i \in 0 .. Len(file.body) /\ i - 1 \in 0 .. Len(file.body)
      /\ DOMAIN file.body = 1 .. Len(file.body)
      /\ file.body[i].op = "assign" => file.body[i].from # "nothing"
  BY FileIs
<1>2. \A j \in Earlier : D(j) \in Nat /\ D(j) <= D(i - 1)
  BY <1>1, ForceIs
<1>3. /\ \A j \in Earlier : D(j) + 1 \in old.at \/ \A d \in old.at : d > D(j) + 1
      /\ \A d, e \in old.at : e < d => \E j \in Earlier : D(j) + 1 = d
  BY DEF Layered
<1>4. StackMoves(file, i, v, old, new)
  BY StackStep
<1>5. D(i) \in Nat /\ D(i - 1) \in Nat /\ old.at \subseteq Nat /\ new.at \subseteq Nat
  BY <1>4 DEF StackMoves
<1>6. SUFFICES /\ \A j \in After : D(j) + 1 \in new.at \/ \A d \in new.at : d > D(j) + 1
               /\ \A d, e \in new.at : e < d => \E j \in After : D(j) + 1 = d
  BY DEF Layered
<1>7. CASE file.body[i].op = "close"
  <2>1. After = {j \in Earlier : D(j) <= D(i)}
    BY <1>7, ForceStep
  <2>2. new.at = {e \in old.at : e <= D(i) + 1}
    BY <1>7, <1>4 DEF StackMoves
  <2> HIDE DEF old, new, D, Earlier, After
  <2>3. ASSUME NEW j \in After PROVE D(j) + 1 \in new.at \/ \A d \in new.at : d > D(j) + 1
    <3>1. j \in Earlier /\ D(j) <= D(i) /\ D(j) \in Nat
      BY <1>2, <2>1
    <3> QED BY <1>3, <1>5, <2>2, <3>1
  <2>4. ASSUME NEW d \in new.at, NEW e \in new.at, e < d PROVE \E j \in After : D(j) + 1 = d
    <3>1. d \in old.at /\ e \in old.at /\ d <= D(i) + 1
      BY <2>2
    <3>2. PICK j \in Earlier : D(j) + 1 = d
      BY <1>3, <2>4, <3>1
    <3>3. j \in After
      BY <1>2, <1>5, <2>1, <3>1, <3>2
    <3> QED BY <3>2, <3>3
  <2> QED BY <2>3, <2>4
<1>8. CASE file.body[i].op = "declare" /\ file.body[i].v = v /\ ~Values(file.body[i])
  <2>1. file.body[i].from = "nothing"
    BY <1>8 DEF Values
  <2>2. ~InUse(file, v, i - 1, FALSE)
    BY <1>1, <1>8, <2>1 DEF HiddenUnvalued
  <2>3. old.at = {}
    BY <1>1, <2>2, BoundInUse
  <2>4. new = old
    BY <1>4, <1>8 DEF StackMoves
  <2> QED BY <2>3, <2>4
<1>9. CASE Values(file.body[i]) /\ v = file.body[i].v
  <2>1. PICK top \in 0 .. D(i) + 1 :
           OnTop(old, new, D(i) + 1, file.body[i].op = "declare", TaintedBy(file, i), top)
    BY <1>9, <1>4 DEF StackMoves
  <2>2. /\ new.at = old.at \cup {top}
        /\ \A e \in old.at : e <= top
        /\ file.body[i].op = "declare" \/ old.at = {} => top = D(i) + 1
        /\ file.body[i].op # "declare" /\ old.at # {} => top \in old.at
    BY <2>1 DEF OnTop
  <2>3. CASE file.body[i].op = "declare"
    <3>1. After = Earlier \cup {i} /\ top = D(i) + 1 /\ D(i) = D(i - 1)
      <4>1. After = Earlier \cup {i}
        BY <1>9, <2>3, ForceStep
      <4>2. D(i) = D(i - 1)
        BY <2>3, Nesting
      <4> QED BY <2>2, <2>3, <4>1, <4>2
    <3> HIDE DEF old, new, D, Earlier, After
    <3>2. ASSUME NEW j \in After PROVE D(j) + 1 \in new.at \/ \A d \in new.at : d > D(j) + 1
      <4>1. CASE j = i
        BY <2>2, <3>1, <4>1
      <4>2. CASE j \in Earlier
        <5>1. D(j) \in Nat /\ D(j) <= D(i)
          BY <1>2, <3>1, <4>2
        <5>2. CASE D(j) + 1 \in old.at
          BY <2>2, <5>2
        <5>3. CASE \A d \in old.at : d > D(j) + 1
          <6>1. D(j) + 1 = top \/ top > D(j) + 1
            BY <1>5, <3>1, <5>1
          <6> QED BY <2>2, <5>3, <6>1
        <5> QED BY <1>3, <4>2, <5>2, <5>3
      <4> QED BY <3>1, <4>1, <4>2
    <3>3. ASSUME NEW d \in new.at, NEW e \in new.at, e < d PROVE \E j \in After : D(j) + 1 = d
      <4>1. CASE d = top
        BY <3>1, <4>1
      <4>2. CASE d \in old.at /\ e \in old.at
        BY <1>3, <3>1, <3>3, <4>2
      <4>3. CASE d \in old.at /\ e = top
        <5>1. d <= top /\ d \in Nat /\ top \in Nat
          BY <1>5, <2>2, <4>3, <3>1
        <5> QED BY <3>3, <4>3, <5>1
      <4> QED BY <2>2, <4>1, <4>2, <4>3
    <3> QED BY <3>2, <3>3
  <2>4. CASE file.body[i].op # "declare"
    <3>1. file.body[i].op \notin {"close", "declare"} /\ file.body[i].op \notin {"open", "close"}
      BY <1>9, <2>4 DEF Values
    <3>2. After = Earlier /\ D(i) = D(i - 1)
      BY <3>1, ForceStep, Nesting
    <3> HIDE DEF old, new, D, Earlier, After
    <3>3. CASE old.at = {}
      <4>1. new.at = {D(i) + 1}
        BY <2>2, <3>3
      <4>2. \A j \in After : D(j) + 1 = D(i) + 1 \/ D(i) + 1 > D(j) + 1
        BY <1>2, <1>5, <3>2
      <4> QED BY <1>5, <4>1, <4>2
    <3>4. CASE old.at # {}
      <4>1. new.at = old.at
        BY <2>2, <2>4, <3>4
      <4> QED BY <1>3, <3>2, <4>1
    <3> QED BY <3>3, <3>4
  <2> QED BY <2>3, <2>4
<1>10. CASE /\ file.body[i].op # "close" /\ ~(Values(file.body[i]) /\ v = file.body[i].v)
            /\ ~(file.body[i].op = "declare" /\ file.body[i].v = v)
  <2>1. After = Earlier
    BY <1>10, ForceStep
  <2>2. new = old
    BY <1>4, <1>10 DEF StackMoves
  <2> QED BY <1>3, <2>1, <2>2
<1> QED BY <1>7, <1>8, <1>9, <1>10

LEMMA LayersAlways ==
    ASSUME NEW file \in SourceFile, ~HiddenUnvalued(file), NEW v \in Var
    PROVE  \A i \in 0 .. Len(file.body) : Layered(file, i, v)
<1> DEFINE S == {i \in 0 .. Len(file.body) : Layered(file, i, v)}
<1>1. Len(file.body) \in Nat
  BY FileIs
<1>2. 0 \in S
  <2>1. Bindings(file)[0][v] = IF v \in file.params THEN Filled ELSE Unbound
    BY <1>1, BindingsAre DEF AtStart
  <2>2. InForce(file.body, v, 0) = {}
    BY DEF InForce
  <2> QED BY <1>1, <2>1, <2>2 DEF Layered, Filled, Unbound
<1>3. \A i \in 1 .. Len(file.body) : i - 1 \in S => i \in S
  BY <1>1, LayersStep
<1>4. \A i \in 0 .. Len(file.body) : i \in S
  <2> HIDE DEF S
  <2> QED BY <1>1, <1>2, <1>3, Climb
<1> QED BY <1>4

\* When variables get their first value outside of the blocks, all bindings in
\* blocks are declarations.
Outer(file, i, v) ==
    \A d \in Bindings(file)[i][v].at :
        d > 1 => \E j \in InForce(file.body, v, i) : Depth(file.body, j) + 1 = d

LEMMA OuterStep ==
    ASSUME NEW file \in SourceFile, FirstOutside(file, TRUE),
           NEW i \in 1 .. Len(file.body), NEW v \in Var, Outer(file, i - 1, v)
    PROVE  Outer(file, i, v)
<1> DEFINE old == Bindings(file)[i - 1][v]
           new == Bindings(file)[i][v]
           D(j) == Depth(file.body, j)
           Earlier == InForce(file.body, v, i - 1)
           After == InForce(file.body, v, i)
<1>1. /\ Len(file.body) \in Nat /\ i \in 0 .. Len(file.body) /\ i - 1 \in 0 .. Len(file.body)
      /\ DOMAIN file.body = 1 .. Len(file.body)
  BY FileIs
<1>2. \A j \in Earlier : D(j) \in Nat /\ D(j) <= D(i - 1)
  BY <1>1, ForceIs
<1>3. \A d \in old.at : d > 1 => \E j \in Earlier : D(j) + 1 = d
  BY DEF Outer
<1>4. StackMoves(file, i, v, old, new)
  BY StackStep
<1>5. D(i) \in Nat /\ D(i - 1) \in Nat /\ old.at \subseteq Nat /\ new.at \subseteq Nat
  BY <1>4 DEF StackMoves
<1>6. SUFFICES ASSUME NEW d \in new.at, d > 1 PROVE \E j \in After : D(j) + 1 = d
  BY DEF Outer
<1>7. CASE file.body[i].op = "close"
  <2>1. After = {j \in Earlier : D(j) <= D(i)}
    BY <1>7, ForceStep
  <2>2. new.at = {e \in old.at : e <= D(i) + 1}
    BY <1>7, <1>4 DEF StackMoves
  <2> HIDE DEF old, new, D, Earlier, After
  <2>3. PICK j \in Earlier : D(j) + 1 = d
    BY <1>3, <1>6, <2>2
  <2>4. j \in After
    BY <1>2, <1>5, <2>1, <2>2, <2>3
  <2> QED BY <2>3, <2>4
<1>8. CASE file.body[i].op # "close" /\ ~(Values(file.body[i]) /\ v = file.body[i].v)
  <2>1. Earlier \subseteq After
    <3>1. CASE file.body[i].op = "declare" /\ file.body[i].v = v
      <4>1. After = Earlier \cup {i}
        BY <3>1, ForceStep
      <4> QED BY <4>1
    <3>2. CASE ~(file.body[i].op = "declare" /\ file.body[i].v = v)
      BY <1>8, <3>2, ForceStep
    <3> QED BY <3>1, <3>2
  <2>2. new = old
    BY <1>4, <1>8 DEF StackMoves
  <2> QED BY <1>3, <1>6, <2>1, <2>2
<1>9. CASE Values(file.body[i]) /\ v = file.body[i].v
  <2>1. PICK top \in 0 .. D(i) + 1 :
           OnTop(old, new, D(i) + 1, file.body[i].op = "declare", TaintedBy(file, i), top)
    BY <1>9, <1>4 DEF StackMoves
  <2>2. /\ new.at = old.at \cup {top}
        /\ file.body[i].op = "declare" \/ old.at = {} => top = D(i) + 1
        /\ file.body[i].op # "declare" /\ old.at # {} => top \in old.at
    BY <2>1 DEF OnTop
  <2>3. CASE file.body[i].op = "declare"
    <3>1. After = Earlier \cup {i} /\ top = D(i) + 1
      <4>1. After = Earlier \cup {i}
        BY <1>9, <2>3, ForceStep
      <4> QED BY <2>2, <2>3, <4>1
    <3> QED BY <1>3, <1>6, <2>2, <3>1
  <2>4. CASE file.body[i].op # "declare"
    <3>1. file.body[i].op \notin {"close", "declare"} /\ file.body[i].op = "assign"
      BY <1>9, <2>4 DEF Values
    <3>2. After = Earlier
      BY <3>1, ForceStep
    <3>3. CASE old.at = {}
      <4>1. ~InUse(file, v, i - 1, TRUE)
        BY <1>1, <3>3, BoundInUse
      <4>2. ~(D(i) > 0)
        BY <1>1, <1>9, <3>1, <4>1 DEF FirstOutside
      <4>3. d = D(i) + 1
        BY <2>2, <3>3
      <4> QED BY <1>5, <1>6, <4>2, <4>3
    <3>4. CASE old.at # {}
      <4>1. new.at = old.at
        BY <2>2, <2>4, <3>4
      <4> QED BY <1>3, <1>6, <3>2, <4>1
    <3> QED BY <3>3, <3>4
  <2> QED BY <2>3, <2>4
<1> QED BY <1>7, <1>8, <1>9

LEMMA OuterAlways ==
    ASSUME NEW file \in SourceFile, FirstOutside(file, TRUE), NEW v \in Var
    PROVE  \A i \in 0 .. Len(file.body) : Outer(file, i, v)
<1> DEFINE S == {i \in 0 .. Len(file.body) : Outer(file, i, v)}
<1>1. Len(file.body) \in Nat
  BY FileIs
<1>2. 0 \in S
  <2>1. Bindings(file)[0][v] = IF v \in file.params THEN Filled ELSE Unbound
    BY <1>1, BindingsAre DEF AtStart
  <2> QED BY <1>1, <2>1 DEF Outer, Filled, Unbound
<1>3. ASSUME NEW i \in 1 .. Len(file.body), i - 1 \in S PROVE i \in S
  <2>1. Outer(file, i - 1, v)
    BY <1>3
  <2>2. Outer(file, i, v)
    BY <2>1, OuterStep, Zenon
  <2> QED BY <1>1, <2>2
<1>4. \A i \in 0 .. Len(file.body) : i \in S
  <2> HIDE DEF S
  <2> QED BY <1>1, <1>2, <1>3, Climb
<1> QED BY <1>4

-----------------------------------------------------------------------------
(***************************************************************************)
(* Executions.                                                             *)
(***************************************************************************)
\* The variable that statement i gives a value.
Assignee(file, i) == <<file.body[i].v, Home(file.body, file.body[i].v, i)>>

LEMMA ExecutionStep ==
    ASSUME NEW file \in SourceFile, NEW out, NEW i \in 1 .. Len(file.body)
    PROVE  /\ file.body[i].op \notin {"declare", "assign"} =>
                Execution(file, out)[i] = Execution(file, out)[i - 1]
           /\ PassedOver(file.body, out, i) => Execution(file, out)[i] = Execution(file, out)[i - 1]
           /\ file.body[i].op \in {"declare", "assign"} /\ ~PassedOver(file.body, out, i) =>
                \A x : x \in Execution(file, out)[i] <=>
                         IF x = Assignee(file, i) THEN Tainting(file, Execution(file, out)[i - 1], i)
                         ELSE x \in Execution(file, out)[i - 1]
<1> DEFINE E == Execution(file, out)[i - 1]
           t == Tainting(file, Execution(file, out)[i - 1], i)
           it == Assignee(file, i)
           over == PassedOver(file.body, out, i)
<1>1. Execution(file, out)[i] = NextHeld(file, out, E, i)
  BY FileIs, ExecutionIs
<1>2. NextHeld(file, out, E, i) =
        IF file.body[i].op \notin {"declare", "assign"} \/ over THEN E ELSE IF t THEN E \cup {it} ELSE E \ {it}
  BY DEF NextHeld, Assignee
<1> HIDE DEF E, t, it, over
<1>3. ASSUME file.body[i].op \in {"declare", "assign"}, ~over, NEW x
      PROVE  x \in Execution(file, out)[i] <=> IF x = it THEN t ELSE x \in E
  <2>1. CASE t
    BY <1>1, <1>2, <1>3, <2>1
  <2>2. CASE ~t
    BY <1>1, <1>2, <1>3, <2>2
  <2> QED BY <2>1, <2>2
<1>4. file.body[i].op \notin {"declare", "assign"} => Execution(file, out)[i] = E
  BY <1>1, <1>2
<1>5. over => Execution(file, out)[i] = E
  BY <1>1, <1>2
<1> QED BY <1>3, <1>4, <1>5 DEF E, t, it, over

LEMMA ExecutionTyped ==
    ASSUME NEW file \in SourceFile, NEW out
    PROVE  \A i \in 0 .. Len(file.body) : Execution(file, out)[i] \subseteq Var \X Nat
<1> DEFINE S == {i \in 0 .. Len(file.body) : Execution(file, out)[i] \subseteq Var \X Nat}
<1>1. Len(file.body) \in Nat /\ file.params \subseteq Var
  BY FileIs
<1>2. 0 \in S
  <2>1. Execution(file, out)[0] = file.params \X {0}
    BY <1>1, ExecutionIs
  <2> QED BY <1>1, <2>1
<1>3. ASSUME NEW i \in 1 .. Len(file.body), i - 1 \in S PROVE i \in S
  <2> DEFINE it == Assignee(file, i)
  <2>1. i \in 0 .. Len(file.body) /\ Execution(file, out)[i - 1] \subseteq Var \X Nat
    BY <1>1, <1>3
  <2>2. CASE file.body[i].op \in {"declare", "assign"}
    <3>1. file.body[i].v \in Var
      BY <2>2, FileIs
    <3>2. Home(file.body, file.body[i].v, i) \in 0 .. i
      BY <2>1, HomeIs, HomeToIs
    <3>3. it \in Var \X Nat
      BY <3>1, <3>2 DEF Assignee
    <3>4. \A x \in Execution(file, out)[i] : x = it \/ x \in Execution(file, out)[i - 1]
      <4>1. CASE PassedOver(file.body, out, i)
        BY <4>1, ExecutionStep
      <4>2. CASE ~PassedOver(file.body, out, i)
        BY <2>2, <4>2, ExecutionStep
      <4> QED BY <4>1, <4>2
    <3> QED BY <2>1, <3>3, <3>4
  <2>3. CASE file.body[i].op \notin {"declare", "assign"}
    <3>1. Execution(file, out)[i] = Execution(file, out)[i - 1]
      BY <2>3, ExecutionStep
    <3> QED BY <2>1, <3>1
  <2> QED BY <2>2, <2>3
<1>4. \A i \in 0 .. Len(file.body) : i \in S
  <2> HIDE DEF S
  <2> QED BY <1>1, <1>2, <1>3, Climb
<1> QED BY <1>4

-----------------------------------------------------------------------------
(***************************************************************************)
(* What the statements make of the stacks, and what they do.               *)
(***************************************************************************)
\* A variable, as it is seen up to depth d; by its binding, and when every block is
\* executed.
Now(file, i, v, d) == SeenTo(Bindings(file)[i][v], d)
Is(file, i, v, d) == <<v, HomeTo(file.body, v, i, d)>> \in Execution(file, {})[i]
Tainted(file, i) == Tainting(file, Execution(file, {})[i - 1], i)

LEMMA IsStep ==
    ASSUME NEW file \in SourceFile, NEW i \in 1 .. Len(file.body)
    PROVE  /\ file.body[i].op \notin {"declare", "assign"} =>
                Execution(file, {})[i] = Execution(file, {})[i - 1]
           /\ file.body[i].op \in {"declare", "assign"} =>
                \A x : x \in Execution(file, {})[i] <=>
                         IF x = Assignee(file, i) THEN Tainted(file, i) ELSE x \in Execution(file, {})[i - 1]
<1>1. ~PassedOver(file.body, {}, i)
  BY DEF PassedOver
<1> QED BY <1>1, ExecutionStep DEF Tainted

\* A variable is seen now when it is seen up to where the statement stands.
LEMMA SeenNow ==
    ASSUME NEW file \in SourceFile, NEW i \in 0 .. Len(file.body), NEW v \in Var
    PROVE  Seen(Bindings(file)[i], v) <=> Now(file, i, v, Depth(file.body, i) + 1)
<1>1. Stacked(Bindings(file)[i], Depth(file.body, i) + 1)
  BY StacksAre
<1>2. Depth(file.body, i) + 1 \in Nat
  BY Nesting
<1>3. /\ Bindings(file)[i][v].at \subseteq 0 .. Depth(file.body, i) + 1
      /\ Bindings(file)[i][v].tainted \subseteq Bindings(file)[i][v].at
  BY <1>1 DEF Stacked
<1> QED BY <1>2, <1>3, VisibleIs DEF Seen, Now

LEMMA HoldsNow ==
    ASSUME NEW file \in SourceFile, NEW i \in 0 .. Len(file.body), NEW v
    PROVE  /\ Holds(file.body, Execution(file, {})[i], v, i) <=> Is(file, i, v, Depth(file.body, i) + 1)
           /\ Holds(file.body, Execution(file, {})[i], v, i) => v \in Var
<1>1. Home(file.body, v, i) = HomeTo(file.body, v, i, Depth(file.body, i) + 1)
  BY HomeIs
<1>2. Execution(file, {})[i] \subseteq Var \X Nat
  BY ExecutionTyped
<1> QED BY <1>1, <1>2 DEF Holds, Is

\* A statement that does not give v a value.
LEMMA PassedBy ==
    ASSUME NEW file \in SourceFile, NEW i \in 1 .. Len(file.body), NEW v \in Var,
           NEW d \in 1 .. Depth(file.body, i) + 1,
           ~(file.body[i].op \in {"declare", "assign"} /\ file.body[i].v = v)
    PROVE  \E c \in 1 .. Depth(file.body, i - 1) + 1 :
             /\ Now(file, i, v, d) <=> Now(file, i - 1, v, c)
             /\ Is(file, i, v, d) <=> Is(file, i - 1, v, c)
<1> DEFINE old == Bindings(file)[i - 1][v]
           new == Bindings(file)[i][v]
           D(j) == Depth(file.body, j)
           it == Assignee(file, i)
<1>1. Len(file.body) \in Nat /\ i \in 0 .. Len(file.body) /\ i - 1 \in 0 .. Len(file.body)
  BY FileIs
<1>2. StackMoves(file, i, v, old, new)
  BY StackStep
<1>3. D(i) \in Nat /\ D(i - 1) \in Nat /\ old.at \subseteq 0 .. D(i - 1) + 1 /\ old.tainted \subseteq old.at
  BY <1>2 DEF StackMoves
<1>4. HomeTo(file.body, v, i, d) = HomeTo(file.body, v, i - 1, d)
  BY HomeStep
<1>5. \A h : <<v, h>> \in Execution(file, {})[i] <=> <<v, h>> \in Execution(file, {})[i - 1]
  <2>1. CASE file.body[i].op \in {"declare", "assign"}
    <3>1. \A h : <<v, h>> # it
      BY <2>1 DEF Assignee
    <3>2. \A x : x \in Execution(file, {})[i] <=>
             IF x = it THEN Tainted(file, i) ELSE x \in Execution(file, {})[i - 1]
      BY <2>1, IsStep
    <3> QED BY <3>1, <3>2
  <2>2. CASE file.body[i].op \notin {"declare", "assign"}
    BY <2>2, IsStep
  <2> QED BY <2>1, <2>2
<1>6. Is(file, i, v, d) <=> <<v, HomeTo(file.body, v, i - 1, d)>> \in Execution(file, {})[i - 1]
  BY <1>4, <1>5 DEF Is
<1>7. ~(Values(file.body[i]) /\ v = file.body[i].v)
  BY DEF Values
<1>8. CASE file.body[i].op = "close"
  <2>1. SeenTo(new, d) <=> SeenTo(old, d)
    BY <1>2, <1>3, <1>8 DEF StackMoves
  <2>2. d \in 1 .. D(i - 1) + 1
    <3>1. D(i) = D(i - 1) - 1
      BY <1>8, Nesting
    <3> QED BY <1>3, <3>1
  <2> QED BY <1>6, <2>1, <2>2 DEF Now, Is
<1>9. CASE file.body[i].op # "close"
  <2>1. new = old
    BY <1>2, <1>7, <1>9 DEF StackMoves
  <2>2. CASE d <= D(i - 1) + 1
    <3>1. d \in 1 .. D(i - 1) + 1
      BY <1>3, <2>2
    <3> QED BY <1>6, <2>1, <3>1 DEF Now, Is
  <2>3. CASE ~(d <= D(i - 1) + 1)
    <3>1. d = D(i - 1) + 2
      <4>1. D(i) = D(i - 1) + 1 \/ D(i) = D(i - 1)
        BY <1>9, Nesting
      <4> QED BY <1>3, <2>3, <4>1
    <3>2. HomeTo(file.body, v, i - 1, d) = HomeTo(file.body, v, i - 1, D(i - 1) + 1)
      BY <1>1, <3>1, HomeBeyond
    <3>3. SeenTo(old, d) <=> SeenTo(old, D(i - 1) + 1)
      <4>1. \A e \in old.at : e <= d /\ e <= D(i - 1) + 1
        BY <1>3, <3>1
      <4> QED BY <1>3, <4>1 DEF SeenTo
    <3>4. D(i - 1) + 1 \in 1 .. D(i - 1) + 1
      BY <1>3
    <3> QED BY <1>6, <2>1, <3>2, <3>3, <3>4 DEF Now, Is
  <2> QED BY <2>2, <2>3
<1> QED BY <1>8, <1>9

\* A declaration of v.
LEMMA Declares ==
    ASSUME NEW file \in SourceFile, NEW i \in 1 .. Len(file.body), NEW v \in Var,
           NEW d \in 1 .. Depth(file.body, i) + 1,
           file.body[i].op = "declare", file.body[i].v = v
    PROVE  /\ d \in 1 .. Depth(file.body, i - 1) + 1
           /\ d < Depth(file.body, i) + 1 =>
                /\ Now(file, i, v, d) <=> Now(file, i - 1, v, d)
                /\ Is(file, i, v, d) <=> Is(file, i - 1, v, d)
           /\ d = Depth(file.body, i) + 1 =>
                /\ Values(file.body[i]) => (Now(file, i, v, d) <=> TaintedBy(file, i))
                /\ ~Values(file.body[i]) => (Now(file, i, v, d) => Bindings(file)[i - 1][v].at # {})
                /\ Is(file, i, v, d) <=> Tainted(file, i)
<1> DEFINE old == Bindings(file)[i - 1][v]
           new == Bindings(file)[i][v]
           D(j) == Depth(file.body, j)
           it == Assignee(file, i)
<1>1. Len(file.body) \in Nat /\ i \in 0 .. Len(file.body) /\ i - 1 \in 0 .. Len(file.body)
  BY FileIs
<1>2. StackMoves(file, i, v, old, new)
  BY StackStep
<1>3. D(i) \in Nat /\ D(i - 1) \in Nat /\ D(i) = D(i - 1) /\ old.tainted \subseteq old.at
  <2>1. D(i) = D(i - 1)
    BY Nesting
  <2> QED BY <1>2, <2>1 DEF StackMoves
<1>4. D(i) + 1 \in 1 .. D(i) + 1
  BY <1>3
<1>5. HomeTo(file.body, v, i, D(i) + 1) = i /\ it = <<v, i>>
  <2>1. HomeTo(file.body, v, i, D(i) + 1) = i
    BY <1>4, HomeStep
  <2>2. Home(file.body, v, i) = HomeTo(file.body, v, i, D(i) + 1)
    BY <1>1, HomeIs
  <2> QED BY <2>1, <2>2 DEF Assignee
<1>6. \A x : x \in Execution(file, {})[i] <=>
         IF x = it THEN Tainted(file, i) ELSE x \in Execution(file, {})[i - 1]
  BY IsStep
<1>7. ASSUME d < D(i) + 1
      PROVE  /\ Now(file, i, v, d) <=> Now(file, i - 1, v, d)
             /\ Is(file, i, v, d) <=> Is(file, i - 1, v, d)
  <2>1. d # D(i) + 1 /\ ~(d >= D(i) + 1) /\ d \in Nat
    BY <1>3, <1>7
  <2>2. HomeTo(file.body, v, i, d) = HomeTo(file.body, v, i - 1, d)
    BY <2>1, HomeStep
  <2>3. HomeTo(file.body, v, i - 1, d) \in 0 .. i - 1
    BY <1>1, HomeToIs
  <2>4. <<v, HomeTo(file.body, v, i - 1, d)>> # it
    BY <1>5, <2>3
  <2>5. SeenTo(new, d) <=> SeenTo(old, d)
    <3>1. CASE Values(file.body[i])
      <4>1. PICK top \in 0 .. D(i) + 1 :
               OnTop(old, new, D(i) + 1, file.body[i].op = "declare", TaintedBy(file, i), top)
        BY <1>2, <3>1 DEF StackMoves
      <4>2. top = D(i) + 1
        BY <4>1 DEF OnTop
      <4> QED BY <1>7, <2>1, <4>1, <4>2 DEF OnTop
    <3>2. CASE ~Values(file.body[i])
      BY <1>2, <3>2 DEF StackMoves
    <3> QED BY <3>1, <3>2
  <2>6. Is(file, i, v, d) <=> Is(file, i - 1, v, d)
    BY <1>6, <2>2, <2>4 DEF Is
  <2> QED BY <2>5, <2>6 DEF Now
<1>8. ASSUME d = D(i) + 1
      PROVE  /\ Values(file.body[i]) => (Now(file, i, v, d) <=> TaintedBy(file, i))
             /\ ~Values(file.body[i]) => (Now(file, i, v, d) => old.at # {})
             /\ Is(file, i, v, d) <=> Tainted(file, i)
  <2>1. Is(file, i, v, d) <=> Tainted(file, i)
    BY <1>5, <1>6, <1>8 DEF Is
  <2>2. ASSUME Values(file.body[i]) PROVE Now(file, i, v, d) <=> TaintedBy(file, i)
    <3>1. PICK top \in 0 .. D(i) + 1 :
             OnTop(old, new, D(i) + 1, file.body[i].op = "declare", TaintedBy(file, i), top)
      BY <1>2, <2>2 DEF StackMoves
    <3>2. top = d /\ d \in Nat /\ d >= top
      BY <1>3, <1>8, <3>1 DEF OnTop
    <3> QED BY <3>1, <3>2 DEF OnTop, Now
  <2>3. ASSUME ~Values(file.body[i]), Now(file, i, v, d) PROVE old.at # {}
    <3>1. new = old
      BY <1>2, <2>3 DEF StackMoves
    <3> QED BY <1>3, <2>3, <3>1 DEF Now, SeenTo
  <2> QED BY <2>1, <2>2, <2>3
<1>9. d \in 1 .. D(i - 1) + 1
  BY <1>3
<1> QED BY <1>7, <1>8, <1>9

\* Above the last binding there is no declaration, and one that is bound there is
\* what the name stands for.
LEMMA TopHome ==
    ASSUME NEW file \in SourceFile, NEW i \in 0 .. Len(file.body), NEW v \in Var,
           NEW d \in 1 .. Depth(file.body, i) + 1, NEW top \in 0 .. Depth(file.body, i) + 1,
           Layered(file, i, v), \A e \in Bindings(file)[i][v].at : e <= top,
           Bindings(file)[i][v].at # {} => top \in Bindings(file)[i][v].at,
           Bindings(file)[i][v].at = {} => top = Depth(file.body, i) + 1
    PROVE  /\ d >= top =>
                HomeTo(file.body, v, i, d) = HomeTo(file.body, v, i, Depth(file.body, i) + 1)
           /\ d < top /\ (\E j \in InForce(file.body, v, i) : Depth(file.body, j) + 1 = top) =>
                HomeTo(file.body, v, i, d) # HomeTo(file.body, v, i, Depth(file.body, i) + 1)
<1> DEFINE depths == Bindings(file)[i][v].at
           D(j) == Depth(file.body, j)
           F == InForce(file.body, v, i)
<1>1. Len(file.body) \in Nat /\ D(i) \in Nat
  BY FileIs, Nesting
<1>2. \A j \in F : j \in Nat /\ j \in 1 .. i /\ D(j) \in Nat /\ D(j) <= D(i) /\ \A k \in j .. i : D(j) <= D(k)
  BY ForceIs
<1>3. depths \subseteq Nat
  BY StacksAre, <1>1 DEF Stacked
<1>4. \A j \in F : D(j) + 1 \in depths \/ \A e \in depths : e > D(j) + 1
  BY DEF Layered
<1>5. ASSUME d >= top
      PROVE  HomeTo(file.body, v, i, d) = HomeTo(file.body, v, i, D(i) + 1)
  <2>1. ASSUME NEW j \in F PROVE D(j) < d
    <3>1. CASE D(j) + 1 \in depths
      BY <1>1, <1>2, <1>3, <1>5, <3>1
    <3>2. CASE \A e \in depths : e > D(j) + 1
      <4>1. CASE depths = {}
        BY <1>1, <1>2, <1>5, <4>1
      <4>2. CASE depths # {}
        <5>1. top > D(j) + 1
          BY <3>2, <4>2
        <5> QED BY <1>1, <1>2, <1>5, <5>1
      <4> QED BY <4>1, <4>2
    <3> QED BY <1>4, <3>1, <3>2
  <2>2. \A j \in F : D(j) < D(i) + 1
    BY <1>1, <1>2
  <2>3. {j \in F : D(j) < d} = {j \in F : D(j) < D(i) + 1}
    BY <2>1, <2>2
  <2> QED BY <2>3 DEF HomeTo
<1>6. ASSUME d < top, NEW j \in F, D(j) + 1 = top
      PROVE  HomeTo(file.body, v, i, d) # HomeTo(file.body, v, i, D(i) + 1)
  <2> DEFINE h == HomeTo(file.body, v, i, D(i) + 1)
  <2>1. h \in 0 .. i /\ \A k \in F : D(k) < D(i) + 1 => k <= h
    BY HomeToIs
  <2>2. j <= h /\ h # 0 /\ h \in j .. i
    BY <1>1, <1>2, <2>1
  <2>3. D(j) <= D(h)
    BY <1>2, <2>2
  <2>4. ASSUME HomeTo(file.body, v, i, d) = h PROVE FALSE
    <3>1. h \in F /\ D(h) < d
      BY <2>2, <2>4, HomeToIs
    <3> QED BY <1>1, <1>2, <1>6, <2>3, <3>1
  <2> QED BY <2>4
<1> QED BY <1>5, <1>6

\* A variable that has no binding can only be assigned outside of the blocks.
LEMMA FirstIsOutside ==
    ASSUME NEW file \in SourceFile, FirstOutside(file, TRUE), NEW i \in 1 .. Len(file.body),
           file.body[i].op = "assign", Bindings(file)[i - 1][file.body[i].v].at = {}
    PROVE  Depth(file.body, i) = 0
<1>1. /\ Len(file.body) \in Nat /\ i \in 0 .. Len(file.body) /\ i - 1 \in 0 .. Len(file.body)
      /\ DOMAIN file.body = 1 .. Len(file.body) /\ file.body[i].v \in Var
  BY FileIs
<1>2. Depth(file.body, i) \in Nat
  BY <1>1, Nesting
<1>3. ~InUse(file, file.body[i].v, i - 1, TRUE)
  BY <1>1, BoundInUse
<1>4. ~(Depth(file.body, i) > 0)
  BY <1>1, <1>3 DEF FirstOutside
<1> QED BY <1>2, <1>4

\* An assignment to v.
LEMMA Assigns ==
    ASSUME NEW file \in SourceFile, NEW i \in 1 .. Len(file.body), NEW v \in Var,
           NEW d \in 1 .. Depth(file.body, i) + 1, Layered(file, i - 1, v),
           file.body[i].op = "assign", file.body[i].v = v
    PROVE  /\ d \in 1 .. Depth(file.body, i - 1) + 1
           /\ \/ /\ Now(file, i, v, d) <=> TaintedBy(file, i)
                 /\ Is(file, i, v, d) <=> Tainted(file, i)
              \/ /\ Now(file, i, v, d) <=> Now(file, i - 1, v, d)
                 /\ Now(file, i - 1, v, d) /\ Is(file, i - 1, v, d) => Is(file, i, v, d)
                 /\ Outer(file, i - 1, v) /\ FirstOutside(file, TRUE) /\ Is(file, i, v, d) => Is(file, i - 1, v, d)
<1> DEFINE old == Bindings(file)[i - 1][v]
           new == Bindings(file)[i][v]
           D(j) == Depth(file.body, j)
           it == Assignee(file, i)
           h == HomeTo(file.body, v, i - 1, D(i - 1) + 1)
<1>1. /\ Len(file.body) \in Nat /\ i \in 0 .. Len(file.body) /\ i - 1 \in 0 .. Len(file.body)
      /\ file.body[i].from # "nothing"
  BY FileIs
<1>2. StackMoves(file, i, v, old, new)
  BY StackStep
<1>3. D(i) \in Nat /\ D(i - 1) \in Nat /\ D(i) = D(i - 1) /\ old.tainted \subseteq old.at /\ old.at \subseteq Nat
  <2>1. D(i) = D(i - 1)
    BY Nesting
  <2> QED BY <1>2, <2>1 DEF StackMoves
<1>4. d \in 1 .. D(i - 1) + 1 /\ d \in Nat
  BY <1>3
<1>5. Values(file.body[i])
  BY <1>1 DEF Values
<1>6. PICK top \in 0 .. D(i) + 1 :
         OnTop(old, new, D(i) + 1, file.body[i].op = "declare", TaintedBy(file, i), top)
  BY <1>2, <1>5 DEF StackMoves
<1>7. /\ \A e \in old.at : e <= top
      /\ old.at = {} => top = D(i) + 1
      /\ old.at # {} => top \in old.at
      /\ d >= top => (SeenTo(new, d) <=> TaintedBy(file, i))
      /\ d < top => (SeenTo(new, d) <=> SeenTo(old, d))
  BY <1>4, <1>6 DEF OnTop
<1>8. HomeTo(file.body, v, i, d) = HomeTo(file.body, v, i - 1, d)
  BY HomeStep
<1>9. it = <<v, h>>
  <2>1. D(i) + 1 \in 1 .. D(i) + 1
    BY <1>3
  <2>2. HomeTo(file.body, v, i, D(i) + 1) = HomeTo(file.body, v, i - 1, D(i) + 1)
    BY <2>1, HomeStep
  <2>3. Home(file.body, v, i) = HomeTo(file.body, v, i, D(i) + 1)
    BY <1>1, HomeIs
  <2> QED BY <1>3, <2>2, <2>3 DEF Assignee
<1>10. \A x : x \in Execution(file, {})[i] <=>
         IF x = it THEN Tainted(file, i) ELSE x \in Execution(file, {})[i - 1]
  BY IsStep
<1>11. /\ d >= top => HomeTo(file.body, v, i - 1, d) = h
       /\ d < top /\ (\E j \in InForce(file.body, v, i - 1) : D(j) + 1 = top) => HomeTo(file.body, v, i - 1, d) # h
  <2>1. d \in 1 .. D(i - 1) + 1 /\ top \in 0 .. D(i - 1) + 1 /\ (old.at = {} => top = D(i - 1) + 1)
    BY <1>3, <1>4, <1>7
  <2> QED BY <1>1, <1>7, <2>1, TopHome
<1>12. CASE d >= top
  <2>1. Is(file, i, v, d) <=> Tainted(file, i)
    BY <1>8, <1>9, <1>10, <1>11, <1>12 DEF Is
  <2> QED BY <1>4, <1>7, <1>12, <2>1 DEF Now
<1>13. CASE d < top
  <2>1. Now(file, i, v, d) <=> Now(file, i - 1, v, d)
    BY <1>7, <1>13 DEF Now
  <2>2. ASSUME \E j \in InForce(file.body, v, i - 1) : D(j) + 1 = top
        PROVE  Is(file, i, v, d) <=> Is(file, i - 1, v, d)
    <3>1. HomeTo(file.body, v, i - 1, d) # h
      BY <1>11, <1>13, <2>2
    <3>2. <<v, HomeTo(file.body, v, i - 1, d)>> # it
      BY <1>9, <3>1
    <3> QED BY <1>8, <1>10, <3>2 DEF Is
  <2>3. ASSUME Now(file, i - 1, v, d), Is(file, i - 1, v, d) PROVE Is(file, i, v, d)
    <3>1. PICK e \in old.at : e <= d
      BY <1>3, <2>3 DEF Now, SeenTo
    <3>2. e < top /\ top \in old.at
      BY <1>3, <1>4, <1>7, <1>13, <3>1
    <3>3. \E j \in InForce(file.body, v, i - 1) : D(j) + 1 = top
      BY <3>1, <3>2 DEF Layered
    <3> QED BY <2>2, <2>3, <3>3
  <2>4. ASSUME Outer(file, i - 1, v), FirstOutside(file, TRUE), Is(file, i, v, d) PROVE Is(file, i - 1, v, d)
    <3>1. top > 1
      BY <1>4, <1>13
    <3>2. old.at # {}
      <4>1. ASSUME old.at = {} PROVE FALSE
        <5>1. D(i) = 0
          BY <2>4, <4>1, FirstIsOutside, Zenon
        <5> QED BY <1>7, <3>1, <4>1, <5>1
      <4> QED BY <4>1
    <3>3. \E j \in InForce(file.body, v, i - 1) : D(j) + 1 = top
      BY <1>7, <2>4, <3>1, <3>2 DEF Outer
    <3> QED BY <2>2, <2>4, <3>3
  <2> QED BY <1>4, <2>1, <2>3, <2>4
<1>14. d >= top \/ d < top
  BY <1>4
<1> QED BY <1>12, <1>13, <1>14

\* What the stacks show is there in the execution of every block.
Sound(file, i) == \A v \in Var, d \in 1 .. Depth(file.body, i) + 1 : Now(file, i, v, d) => Is(file, i, v, d)

LEMMA SoundTaint ==
    ASSUME NEW file \in SourceFile, NEW i \in 1 .. Len(file.body), Sound(file, i - 1), TaintedBy(file, i)
    PROVE  Tainted(file, i)
<1>1. Len(file.body) \in Nat /\ i - 1 \in 0 .. Len(file.body)
  BY FileIs
<1>2. Depth(file.body, i - 1) + 1 \in 1 .. Depth(file.body, i - 1) + 1
  BY <1>1, Nesting
<1>3. ASSUME Seen(Bindings(file)[i - 1], file.body[i].from)
      PROVE  Holds(file.body, Execution(file, {})[i - 1], file.body[i].from, i - 1)
  <2>1. file.body[i].from \in Var
    BY <1>3 DEF Seen
  <2>2. Now(file, i - 1, file.body[i].from, Depth(file.body, i - 1) + 1)
    BY <1>1, <1>3, <2>1, SeenNow
  <2>3. Is(file, i - 1, file.body[i].from, Depth(file.body, i - 1) + 1)
    BY <1>2, <2>1, <2>2 DEF Sound
  <2> QED BY <1>1, <2>3, HoldsNow
<1> QED BY <1>3 DEF TaintedBy, Tainted, Tainting

LEMMA SoundStep ==
    ASSUME NEW file \in SourceFile, ~HiddenUnvalued(file), NEW i \in 1 .. Len(file.body), Sound(file, i - 1)
    PROVE  Sound(file, i)
<1>1. /\ Len(file.body) \in Nat /\ i \in 0 .. Len(file.body) /\ i - 1 \in 0 .. Len(file.body)
      /\ DOMAIN file.body = 1 .. Len(file.body)
  BY FileIs
<1>2. SUFFICES ASSUME NEW v \in Var, NEW d \in 1 .. Depth(file.body, i) + 1, Now(file, i, v, d)
               PROVE  Is(file, i, v, d)
  BY DEF Sound
<1>3. TaintedBy(file, i) => Tainted(file, i)
  BY SoundTaint
<1>4. \A c \in 1 .. Depth(file.body, i - 1) + 1 : Now(file, i - 1, v, c) => Is(file, i - 1, v, c)
  BY DEF Sound
<1>5. CASE ~(file.body[i].op \in {"declare", "assign"} /\ file.body[i].v = v)
  BY <1>2, <1>4, <1>5, PassedBy
<1>6. CASE file.body[i].op = "declare" /\ file.body[i].v = v
  <2>0. Depth(file.body, i) \in Nat
    BY <1>1, Nesting
  <2>1. d < Depth(file.body, i) + 1 \/ d = Depth(file.body, i) + 1
    BY <2>0
  <2>2. CASE d < Depth(file.body, i) + 1
    BY <1>2, <1>4, <1>6, <2>2, Declares
  <2>3. CASE d = Depth(file.body, i) + 1 /\ Values(file.body[i])
    BY <1>2, <1>3, <1>6, <2>3, Declares
  <2>4. CASE d = Depth(file.body, i) + 1 /\ ~Values(file.body[i])
    <3>1. Bindings(file)[i - 1][v].at # {}
      BY <1>2, <1>6, <2>4, Declares
    <3>2. InUse(file, v, i - 1, FALSE)
      BY <1>1, <3>1, BoundInUse
    <3>3. file.body[i].from = "nothing"
      BY <1>6, <2>4 DEF Values
    <3>4. HiddenUnvalued(file)
      BY <1>1, <1>6, <3>2, <3>3 DEF HiddenUnvalued
    <3> QED BY <3>4
  <2> QED BY <2>1, <2>2, <2>3, <2>4
<1>7. CASE file.body[i].op = "assign" /\ file.body[i].v = v
  <2>1. Layered(file, i - 1, v)
    BY <1>1, LayersAlways
  <2> QED BY <1>2, <1>3, <1>4, <1>7, <2>1, Assigns
<1> QED BY <1>5, <1>6, <1>7

LEMMA SoundAlways ==
    ASSUME NEW file \in SourceFile, ~HiddenUnvalued(file)
    PROVE  \A i \in 0 .. Len(file.body) : Sound(file, i)
<1> DEFINE S == {i \in 0 .. Len(file.body) : Sound(file, i)}
<1>1. Len(file.body) \in Nat
  BY FileIs
<1>2. 0 \in S
  <2>1. Bindings(file)[0] = AtStart(file) /\ Execution(file, {})[0] = file.params \X {0}
    BY <1>1, BindingsAre, ExecutionIs
  <2>2. ASSUME NEW v \in Var, NEW d \in 1 .. Depth(file.body, 0) + 1, Now(file, 0, v, d) PROVE Is(file, 0, v, d)
    <3>1. v \in file.params
      BY <2>1, <2>2 DEF Now, SeenTo, AtStart, Unbound
    <3>2. InForce(file.body, v, 0) = {}
      BY DEF InForce
    <3>3. HomeTo(file.body, v, 0, d) = 0
      <4>1. 0 \in 0 .. Len(file.body)
        BY <1>1
      <4>2. HomeTo(file.body, v, 0, d) \in 0 .. 0
        BY <4>1, HomeToIs
      <4> QED BY <4>2
    <3> QED BY <2>1, <3>1, <3>3 DEF Is
  <2> QED BY <1>1, <2>2 DEF Sound
<1>3. \A i \in 1 .. Len(file.body) : i - 1 \in S => i \in S
  BY <1>1, SoundStep
<1>4. \A i \in 0 .. Len(file.body) : i \in S
  <2> HIDE DEF S
  <2> QED BY <1>1, <1>2, <1>3, Climb
<1> QED BY <1>4

\* What is there in the execution of every block is seen on the stacks.
Complete(file, i) == \A v \in Var, d \in 1 .. Depth(file.body, i) + 1 : Is(file, i, v, d) => Now(file, i, v, d)

LEMMA CompleteTaint ==
    ASSUME NEW file \in SourceFile, ~StoresResult(file),
           NEW i \in 1 .. Len(file.body), Complete(file, i - 1), Tainted(file, i)
    PROVE  TaintedBy(file, i)
<1>1. Len(file.body) \in Nat /\ i - 1 \in 0 .. Len(file.body) /\ DOMAIN file.body = 1 .. Len(file.body)
  BY FileIs
<1>2. Depth(file.body, i - 1) + 1 \in 1 .. Depth(file.body, i - 1) + 1
  BY <1>1, Nesting
<1>3. ASSUME Holds(file.body, Execution(file, {})[i - 1], file.body[i].from, i - 1)
      PROVE  Seen(Bindings(file)[i - 1], file.body[i].from)
  <2>1. file.body[i].from \in Var /\ Is(file, i - 1, file.body[i].from, Depth(file.body, i - 1) + 1)
    BY <1>1, <1>3, HoldsNow
  <2>2. Now(file, i - 1, file.body[i].from, Depth(file.body, i - 1) + 1)
    BY <1>2, <2>1 DEF Complete
  <2> QED BY <1>1, <2>1, <2>2, SeenNow
<1>4. file.body[i].from # "result"
  BY <1>1 DEF StoresResult
<1> QED BY <1>3, <1>4 DEF TaintedBy, Tainted, Tainting

LEMMA CompleteStep ==
    ASSUME NEW file \in SourceFile, ~HiddenUnvalued(file), FirstOutside(file, TRUE), ~StoresResult(file),
           NEW i \in 1 .. Len(file.body), Complete(file, i - 1)
    PROVE  Complete(file, i)
<1>1. /\ Len(file.body) \in Nat /\ i \in 0 .. Len(file.body) /\ i - 1 \in 0 .. Len(file.body)
      /\ DOMAIN file.body = 1 .. Len(file.body)
  BY FileIs
<1>2. SUFFICES ASSUME NEW v \in Var, NEW d \in 1 .. Depth(file.body, i) + 1, Is(file, i, v, d)
               PROVE  Now(file, i, v, d)
  BY DEF Complete
<1>3. Tainted(file, i) => TaintedBy(file, i)
  BY CompleteTaint
<1>4. \A c \in 1 .. Depth(file.body, i - 1) + 1 : Is(file, i - 1, v, c) => Now(file, i - 1, v, c)
  BY DEF Complete
<1>5. CASE ~(file.body[i].op \in {"declare", "assign"} /\ file.body[i].v = v)
  BY <1>2, <1>4, <1>5, PassedBy
<1>6. CASE file.body[i].op = "declare" /\ file.body[i].v = v
  <2>0. Depth(file.body, i) \in Nat
    BY <1>1, Nesting
  <2>1. d < Depth(file.body, i) + 1 \/ d = Depth(file.body, i) + 1
    BY <2>0
  <2>2. CASE d < Depth(file.body, i) + 1
    BY <1>2, <1>4, <1>6, <2>2, Declares
  <2>3. CASE d = Depth(file.body, i) + 1
    <3>1. TaintedBy(file, i)
      BY <1>2, <1>3, <1>6, <2>3, Declares
    <3>2. file.body[i].from # "nothing"
      <4>1. "nothing" \notin Var
        BY SourceInputs
      <4> QED BY <3>1, <4>1 DEF TaintedBy, Seen
    <3>3. Values(file.body[i])
      BY <1>6, <3>2 DEF Values
    <3> QED BY <1>6, <2>3, <3>1, <3>3, Declares
  <2> QED BY <2>1, <2>2, <2>3
<1>7. CASE file.body[i].op = "assign" /\ file.body[i].v = v
  <2>1. Layered(file, i - 1, v)
    BY <1>1, LayersAlways
  <2>2. Outer(file, i - 1, v)
    BY <1>1, OuterAlways, Zenon
  <2>3. /\ d \in 1 .. Depth(file.body, i - 1) + 1
        /\ \/ /\ Now(file, i, v, d) <=> TaintedBy(file, i)
              /\ Is(file, i, v, d) <=> Tainted(file, i)
           \/ /\ Now(file, i, v, d) <=> Now(file, i - 1, v, d)
              /\ Now(file, i - 1, v, d) /\ Is(file, i - 1, v, d) => Is(file, i, v, d)
              /\ Outer(file, i - 1, v) /\ FirstOutside(file, TRUE) /\ Is(file, i, v, d) => Is(file, i - 1, v, d)
    BY <1>7, <2>1, Assigns
  <2>4. CASE /\ Now(file, i, v, d) <=> TaintedBy(file, i)
             /\ Is(file, i, v, d) <=> Tainted(file, i)
    BY <1>2, <1>3, <2>4
  <2>5. CASE /\ Now(file, i, v, d) <=> Now(file, i - 1, v, d)
             /\ Outer(file, i - 1, v) /\ FirstOutside(file, TRUE) /\ Is(file, i, v, d) => Is(file, i - 1, v, d)
    <3>1. Is(file, i - 1, v, d)
      BY <1>2, <2>2, <2>5, Zenon
    <3> QED BY <1>4, <2>3, <2>5, <3>1
  <2> QED BY <2>3, <2>4, <2>5, Zenon
<1> QED BY <1>5, <1>6, <1>7

LEMMA CompleteAlways ==
    ASSUME NEW file \in SourceFile, ~HiddenUnvalued(file), FirstOutside(file, TRUE), ~StoresResult(file)
    PROVE  \A i \in 0 .. Len(file.body) : Complete(file, i)
<1> DEFINE S == {i \in 0 .. Len(file.body) : Complete(file, i)}
<1>1. Len(file.body) \in Nat
  BY FileIs
<1>2. 0 \in S
  <2>1. Bindings(file)[0] = AtStart(file) /\ Execution(file, {})[0] = file.params \X {0}
    BY <1>1, BindingsAre, ExecutionIs
  <2>2. ASSUME NEW v \in Var, NEW d \in 1 .. Depth(file.body, 0) + 1, Is(file, 0, v, d) PROVE Now(file, 0, v, d)
    <3>1. v \in file.params
      BY <2>1, <2>2 DEF Is
    <3>2. Bindings(file)[0][v] = Filled
      BY <2>1, <3>1 DEF AtStart
    <3> QED BY <3>2 DEF Now, SeenTo, Filled
  <2> QED BY <1>1, <2>2 DEF Complete
<1>3. ASSUME NEW i \in 1 .. Len(file.body), i - 1 \in S PROVE i \in S
  <2>1. Complete(file, i - 1)
    BY <1>3
  <2>2. Complete(file, i)
    BY <2>1, CompleteStep, Zenon
  <2> QED BY <1>1, <2>2
<1>4. \A i \in 0 .. Len(file.body) : i \in S
  <2> HIDE DEF S
  <2> QED BY <1>1, <1>2, <1>3, Climb
<1> QED BY <1>4

\* The findings of the statements in order are sinks that are reached, and those
\* reached when every block is executed are among them.
LEMMA LexicalSound ==
    ASSUME NEW file \in SourceFile, ~HiddenUnvalued(file), NEW known,
           \A e \in known : Carried(file.methods, e)
    PROVE  LexicalSites(file, known) \subseteq Reached(file, EveryBlock)
<1>1. Len(file.body) \in Nat /\ DOMAIN file.body = 1 .. Len(file.body)
  BY FileIs
<1>2. SUFFICES ASSUME NEW i \in 1 .. Len(file.body), i \in LexicalSites(file, known)
               PROVE  i \in Reached(file, EveryBlock)
  BY <1>1 DEF LexicalSites
<1> DEFINE s == file.body[i]
           seen == Seen(Bindings(file)[i - 1], s.v)
           held == Holds(file.body, Execution(file, {})[i - 1], s.v, i - 1)
<1>3. AtSink(file.methods, seen, s) \/ (s.op = "help" /\ seen /\ Helper(s) \in known)
  BY <1>2 DEF LexicalSites
<1>4. seen => held
  <2>1. ASSUME seen PROVE held
    <3>1. s.v \in Var /\ i - 1 \in 0 .. Len(file.body)
      BY <1>1, <2>1 DEF Seen
    <3>2. Depth(file.body, i - 1) + 1 \in 1 .. Depth(file.body, i - 1) + 1
      BY <3>1, Nesting
    <3>3. Now(file, i - 1, s.v, Depth(file.body, i - 1) + 1)
      BY <2>1, <3>1, SeenNow
    <3>4. Is(file, i - 1, s.v, Depth(file.body, i - 1) + 1)
      BY <3>1, <3>2, <3>3, SoundAlways DEF Sound
    <3> QED BY <3>1, <3>4, HoldsNow
  <2> QED BY <2>1
<1>5. Arrives(file, Execution(file, {})[i - 1], i)
  <2>1. AtSink(file.methods, seen, s) => AtSink(file.methods, held, s)
    BY <1>4 DEF AtSink
  <2>2. Helper(s) \in known => Carried(file.methods, Helper(s))
    OBVIOUS
  <2> QED BY <1>3, <1>4, <2>1, <2>2 DEF Arrives
<1>6. ~PassedOver(file.body, {}, i)
  BY DEF PassedOver
<1> QED BY <1>1, <1>5, <1>6 DEF Reached, EveryBlock

LEMMA LexicalComplete ==
    ASSUME NEW file \in SourceFile, ~HiddenUnvalued(file), FirstOutside(file, TRUE), ~StoresResult(file),
           NEW known, \A i \in 1 .. Len(file.body) :
                        Carried(file.methods, Helper(file.body[i])) => Helper(file.body[i]) \in known
    PROVE  Reached(file, EveryBlock) \subseteq LexicalSites(file, known)
<1>1. Len(file.body) \in Nat /\ DOMAIN file.body = 1 .. Len(file.body)
  BY FileIs
<1>2. SUFFICES ASSUME NEW i \in 1 .. Len(file.body), i \in Reached(file, EveryBlock)
               PROVE  i \in LexicalSites(file, known)
  BY <1>1 DEF Reached
<1> DEFINE s == file.body[i]
           seen == Seen(Bindings(file)[i - 1], s.v)
           held == Holds(file.body, Execution(file, {})[i - 1], s.v, i - 1)
<1>3. Arrives(file, Execution(file, {})[i - 1], i)
  BY <1>2 DEF Reached, EveryBlock
<1>4. held => seen
  <2>1. ASSUME held PROVE seen
    <3>1. i - 1 \in 0 .. Len(file.body)
      BY <1>1
    <3>2. s.v \in Var /\ Is(file, i - 1, s.v, Depth(file.body, i - 1) + 1)
      BY <2>1, <3>1, HoldsNow
    <3>3. Depth(file.body, i - 1) + 1 \in 1 .. Depth(file.body, i - 1) + 1
      BY <3>1, Nesting
    <3>4. Complete(file, i - 1)
      BY <3>1, CompleteAlways, Zenon
    <3>5. Now(file, i - 1, s.v, Depth(file.body, i - 1) + 1)
      BY <3>2, <3>3, <3>4 DEF Complete
    <3> QED BY <3>1, <3>2, <3>5, SeenNow
  <2> QED BY <2>1
<1>5. AtSink(file.methods, seen, s) \/ (s.op = "help" /\ seen /\ Helper(s) \in known)
  <2>1. AtSink(file.methods, held, s) => AtSink(file.methods, seen, s)
    BY <1>4 DEF AtSink
  <2>2. Carried(file.methods, Helper(s)) => Helper(s) \in known
    OBVIOUS
  <2> QED BY <1>3, <1>4, <2>1, <2>2 DEF Arrives
<1> QED BY <1>1, <1>5 DEF LexicalSites

-----------------------------------------------------------------------------
(***************************************************************************)
(* Blocks.                                                                 *)
(***************************************************************************)
LEMMA OpeningIs ==
    ASSUME NEW file \in SourceFile, NEW i \in 1 .. Len(file.body), file.body[i].op = "close"
    PROVE  /\ Opening(file.body, i) \in 1 .. i - 1
           /\ file.body[Opening(file.body, i)].op = "open"
           /\ Around(file.body, Opening(file.body, i), i - 1)
           /\ Depth(file.body, Opening(file.body, i) - 1) = Depth(file.body, i)
           /\ Depth(file.body, Opening(file.body, i)) = Depth(file.body, i) + 1
           /\ \A k \in Opening(file.body, i) .. i - 1 : Depth(file.body, k) > Depth(file.body, i)
           /\ \A j \in 1 .. i - 1 :
                file.body[j].op = "open" /\ Around(file.body, j, i - 1) => j <= Opening(file.body, i)
<1> DEFINE D(k) == Depth(file.body, k)
           T == {k \in 0 .. i - 1 : D(k) <= D(i)}
           O == {o \in 1 .. i - 1 : file.body[o].op = "open" /\ Around(file.body, o, i - 1)}
<1>1. Len(file.body) \in Nat /\ i \in 0 .. Len(file.body)
  BY FileIs
<1>2. \A k \in 0 .. i : k \in 0 .. Len(file.body)
  BY <1>1
<1>3. \A k \in 0 .. i : D(k) \in Nat
  BY <1>2, Nesting
<1>4. D(i) = D(i - 1) - 1 /\ D(0) = 0
  BY Nesting
<1>5. T \in SUBSET Nat /\ T # {} /\ i - 1 \in Nat /\ \A k \in T : k <= i - 1
  <2>1. 0 \in T
    BY <1>1, <1>3, <1>4
  <2> QED BY <1>1, <2>1
<1>6. PICK g \in T : \A k \in T : k <= g
  <2> HIDE DEF T
  <2>1. Max(T) \in T /\ \A k \in T : k <= Max(T)
    BY <1>5, Greatest
  <2> QED BY <2>1
<1>7. g \in 0 .. i - 1 /\ D(g) <= D(i) /\ g # i - 1
  BY <1>1, <1>3, <1>4, <1>6
<1>8. g + 1 \in 1 .. i - 1 /\ g + 1 \in 1 .. Len(file.body) /\ (g + 1) - 1 = g /\ g + 1 \in 0 .. i
  BY <1>1, <1>7
<1>9. \A k \in g + 1 .. i - 1 : D(k) \in Nat /\ D(k) > D(i) /\ k \in 0 .. i
  <2> TAKE k \in g + 1 .. i - 1
  <2>1. k \in 0 .. i - 1 /\ ~(k <= g) /\ k \in 0 .. i
    BY <1>7
  <2>2. k \notin T /\ D(k) \in Nat /\ D(i) \in Nat
    BY <1>1, <1>3, <1>6, <2>1
  <2> QED BY <2>1, <2>2
<1>10. /\ file.body[g + 1].op = "open" => D(g + 1) = D(g) + 1
       /\ file.body[g + 1].op = "close" => D(g + 1) = D(g) - 1
       /\ file.body[g + 1].op \notin {"open", "close"} => D(g + 1) = D(g)
  BY <1>8, Nesting
<1>11. g + 1 \in g + 1 .. i - 1 /\ D(g) \in Nat /\ D(i) \in Nat
  BY <1>1, <1>3, <1>7
<1>12. D(g + 1) > D(i)
  BY <1>9, <1>11
<1>13. file.body[g + 1].op = "open" /\ D(g + 1) = D(i) + 1 /\ D(g) = D(i)
  <2> HIDE DEF D
  <2> QED BY <1>7, <1>10, <1>11, <1>12
<1>14. Around(file.body, g + 1, i - 1)
  <2>1. \A k \in g + 1 .. i - 1 : D(k) >= D(g + 1)
    BY <1>9, <1>11, <1>13
  <2> QED BY <2>1 DEF Around
<1>15. ASSUME NEW j \in O PROVE j <= g + 1
  <2>1. SUFFICES ASSUME ~(j <= g + 1) PROVE FALSE
    OBVIOUS
  <2>2. j \in 1 .. i - 1 /\ file.body[j].op = "open" /\ Around(file.body, j, i - 1)
    BY <1>15
  <2>3. j \in 1 .. Len(file.body) /\ i - 1 \in j .. i - 1 /\ j - 1 \in g + 1 .. i - 1
    BY <1>1, <1>7, <2>1, <2>2
  <2>4. D(j) = D(j - 1) + 1
    BY <2>2, <2>3, Nesting
  <2>5. D(j - 1) \in Nat /\ D(j - 1) > D(i)
    BY <1>9, <2>3
  <2>6. D(i - 1) >= D(j)
    BY <2>2, <2>3 DEF Around
  <2>7. D(i - 1) \in Nat
    BY <1>1, <1>3
  <2> HIDE DEF D
  <2> QED BY <1>4, <1>11, <2>4, <2>5, <2>6, <2>7
<1>16. g + 1 \in O
  BY <1>8, <1>13, <1>14
<1>17. Max(O) = g + 1
  <2>1. O \in SUBSET Nat /\ O # {} /\ \A k \in O : k <= i - 1
    BY <1>16
  <2>2. O \in SUBSET Nat /\ O # {} /\ i - 1 \in Nat /\ \A k \in O : k <= i - 1
    BY <1>5, <2>1
  <2>3. Max(O) \in O /\ \A k \in O : k <= Max(O)
    <3> HIDE DEF O
    <3> QED BY <2>2, Greatest
  <2>4. Max(O) \in Nat
    BY <2>1, <2>3
  <2>5. Max(O) <= g + 1 /\ g + 1 <= Max(O)
    BY <1>15, <1>16, <2>3
  <2> HIDE DEF O
  <2> QED BY <1>7, <2>4, <2>5
<1>18. Opening(file.body, i) = g + 1
  BY <1>17 DEF Opening
<1>19. \A j \in 1 .. i - 1 : file.body[j].op = "open" /\ Around(file.body, j, i - 1) => j <= g + 1
  BY <1>15
<1> HIDE DEF D, O, T
<1> QED BY <1>8, <1>9, <1>13, <1>14, <1>18, <1>19 DEF D

\* When a block has ended, what is around is what was around before it.
LEMMA AroundClose ==
    ASSUME NEW file \in SourceFile, NEW i \in 1 .. Len(file.body), file.body[i].op = "close",
           NEW j \in 1 .. i - 1
    PROVE  /\ j < Opening(file.body, i) =>
                (Around(file.body, j, i) <=> Around(file.body, j, Opening(file.body, i) - 1))
           /\ j >= Opening(file.body, i) => ~Around(file.body, j, i)
<1> DEFINE D(k) == Depth(file.body, k)
           o == Opening(file.body, i)
<1>1. Len(file.body) \in Nat /\ i \in Nat
  BY FileIs
<1>2. o \in 1 .. i - 1 /\ D(o - 1) = D(i) /\ \A k \in o .. i - 1 : D(k) > D(i)
  BY OpeningIs
<1>3. \A k \in 0 .. i : k \in 0 .. Len(file.body)
  BY <1>1
<1>4. \A k \in 0 .. i : D(k) \in Nat
  BY <1>3, Nesting
<1>5. i \in j .. i /\ i \in 0 .. i /\ j \in 0 .. i
  BY <1>1
<1>6. ASSUME j < o, Around(file.body, j, i) PROVE Around(file.body, j, o - 1)
  <2>1. \A k \in j .. o - 1 : k \in j .. i
    BY <1>1, <1>2
  <2> QED BY <1>6, <2>1 DEF Around
<1>7. ASSUME j < o, Around(file.body, j, o - 1) PROVE Around(file.body, j, i)
  <2>1. o - 1 \in j .. o - 1
    BY <1>1, <1>2, <1>7
  <2>2. D(i) >= D(j)
    BY <1>2, <1>7, <2>1 DEF Around
  <2>3. ASSUME NEW k \in j .. i PROVE D(k) >= D(j)
    <3>1. k \in j .. o - 1 \/ k \in o .. i - 1 \/ k = i
      BY <1>1, <1>2
    <3>2. CASE k \in j .. o - 1
      BY <1>7, <3>2 DEF Around
    <3>3. CASE k \in o .. i - 1
      <4>1. D(k) > D(i) /\ D(k) \in Nat /\ D(i) \in Nat /\ D(j) \in Nat
        <5>1. k \in 0 .. i
          BY <1>1
        <5> QED BY <1>2, <1>4, <1>5, <3>3, <5>1
      <4> QED BY <2>2, <4>1
    <3>4. CASE k = i
      BY <2>2, <3>4
    <3> QED BY <3>1, <3>2, <3>3, <3>4
  <2> QED BY <2>3 DEF Around
<1>8. ASSUME j >= o, Around(file.body, j, i) PROVE FALSE
  <2>1. j \in o .. i - 1
    BY <1>2, <1>8
  <2>2. D(j) > D(i) /\ D(i) >= D(j)
    BY <1>2, <1>5, <1>8, <2>1 DEF Around
  <2> QED BY <1>4, <1>5, <2>2
<1> QED BY <1>6, <1>7, <1>8

\* A name stands for what it stood for before the block.
LEMMA HomeClose ==
    ASSUME NEW file \in SourceFile, NEW i \in 1 .. Len(file.body), file.body[i].op = "close", NEW v
    PROVE  Home(file.body, v, i) = Home(file.body, v, Opening(file.body, i) - 1)
<1> DEFINE o == Opening(file.body, i)
<1>1. Len(file.body) \in Nat /\ i \in Nat
  BY FileIs
<1>2. o \in 1 .. i - 1
  BY OpeningIs
<1>3. ASSUME NEW j
      PROVE  j \in InForce(file.body, v, i) <=> j \in InForce(file.body, v, o - 1)
  <2>1. j \in 1 .. i <=> j \in 1 .. i - 1 \/ j = i
    BY <1>1
  <2>2. j \in 1 .. o - 1 <=> j \in 1 .. i - 1 /\ j < o
    BY <1>1, <1>2
  <2>3. j \in 1 .. i - 1 => j < o \/ j >= o
    BY <1>1, <1>2
  <2>4. j \in 1 .. i - 1 => /\ j < o => (Around(file.body, j, i) <=> Around(file.body, j, o - 1))
                            /\ j >= o => ~Around(file.body, j, i)
    BY AroundClose
  <2> HIDE DEF o
  <2> QED BY <2>1, <2>2, <2>3, <2>4 DEF InForce
<1>4. InForce(file.body, v, i) = InForce(file.body, v, o - 1)
  BY <1>3
<1> QED BY <1>4 DEF Home, InForce

LEMMA InUseClose ==
    ASSUME NEW file \in SourceFile, NEW i \in 1 .. Len(file.body), file.body[i].op = "close", NEW v
    PROVE  InUse(file, v, i, FALSE) <=> InUse(file, v, Opening(file.body, i) - 1, FALSE)
<1> DEFINE o == Opening(file.body, i)
           A(j) == file.body[j].op \in {"declare", "assign"} /\ file.body[j].v = v
<1>1. Len(file.body) \in Nat /\ i \in Nat
  BY FileIs
<1>2. o \in 1 .. i - 1
  BY OpeningIs
<1>3. InUse(file, v, i, FALSE) <=> v \in file.params \/ \E j \in 1 .. i : A(j) /\ Around(file.body, j, i)
  BY DEF InUse
<1>4. InUse(file, v, o - 1, FALSE) <=> v \in file.params \/ \E j \in 1 .. o - 1 : A(j) /\ Around(file.body, j, o - 1)
  BY DEF InUse
<1>5. ASSUME NEW j
      PROVE  (j \in 1 .. i /\ A(j) /\ Around(file.body, j, i)) <=> (j \in 1 .. o - 1 /\ A(j) /\ Around(file.body, j, o - 1))
  <2>1. j \in 1 .. i <=> j \in 1 .. i - 1 \/ j = i
    BY <1>1
  <2>2. j \in 1 .. o - 1 <=> j \in 1 .. i - 1 /\ j < o
    BY <1>1, <1>2
  <2>3. j \in 1 .. i - 1 => j < o \/ j >= o
    BY <1>1, <1>2
  <2>4. j \in 1 .. i - 1 => /\ j < o => (Around(file.body, j, i) <=> Around(file.body, j, o - 1))
                            /\ j >= o => ~Around(file.body, j, i)
    BY AroundClose
  <2>5. ~A(i)
    OBVIOUS
  <2> HIDE DEF o, A
  <2> QED BY <2>1, <2>2, <2>3, <2>4, <2>5
<1> HIDE DEF o, A
<1> QED BY <1>3, <1>4, <1>5 DEF o

-----------------------------------------------------------------------------
(***************************************************************************)
(* The tree.                                                               *)
(***************************************************************************)
Known == [known : SUBSET Var, tainted : SUBSET Var]

LEMMA TreeIs ==
    ASSUME NEW file \in SourceFile
    PROVE  /\ Environments(file)[0] = [known |-> file.params, tainted |-> file.params]
           /\ \A i \in 1 .. Len(file.body) : Environments(file)[i] =
                TreeStep(file.body, Environments(file)[Opening(file.body, i) - 1], Environments(file)[i - 1], i)
<1>1. Len(file.body) \in Nat
  BY FileIs
<1>2. \A i \in 1 .. Len(file.body) : file.body[i].op = "close" => Opening(file.body, i) \in 1 .. i - 1
  BY OpeningIs
<1> QED BY <1>1, <1>2, EnvironmentsAre

LEMMA TreeTyped ==
    ASSUME NEW file \in SourceFile
    PROVE  \A i \in 0 .. Len(file.body) : Environments(file)[i] \in Known
<1> DEFINE S == {i \in 0 .. Len(file.body) : \A k \in 0 .. i : Environments(file)[k] \in Known}
<1>1. Len(file.body) \in Nat /\ file.params \subseteq Var
  BY FileIs
<1>2. 0 \in S
  <2>1. \A k \in 0 .. 0 : k = 0
    OBVIOUS
  <2>2. Environments(file)[0] = [known |-> file.params, tainted |-> file.params]
    BY TreeIs
  <2>3. [known |-> file.params, tainted |-> file.params] \in Known
    BY <1>1 DEF Known
  <2>4. Environments(file)[0] \in Known
    BY <2>2, <2>3
  <2> QED BY <1>1, <2>1, <2>4
<1>3. ASSUME NEW i \in 1 .. Len(file.body), i - 1 \in S PROVE i \in S
  <2> DEFINE env == Environments(file)[i - 1]
             before == Environments(file)[Opening(file.body, i) - 1]
             s == file.body[i]
  <2>1. \A k \in 0 .. i - 1 : Environments(file)[k] \in Known
    BY <1>3
  <2>2. env \in Known
    BY <1>1, <2>1
  <2>3. Environments(file)[i] = TreeStep(file.body, before, env, i)
    BY TreeIs
  <2>4. CASE s.op = "close"
    <3>1. Opening(file.body, i) - 1 \in 0 .. i - 1
      BY <1>1, <2>4, OpeningIs
    <3>2. before \in Known
      BY <2>1, <3>1
    <3>3. Environments(file)[i] = Merged(file.body, before, env, i)
      BY <2>3, <2>4 DEF TreeStep
    <3>4. Merged(file.body, before, env, i) \in Known
      BY <2>2, <3>2 DEF Merged, Known
    <3> QED BY <1>1, <2>1, <3>3, <3>4
  <2>5. CASE s.op \in {"declare", "assign"}
    <3>1. Environments(file)[i] = Put(env, s.v, TraceFor(env, s))
      BY <2>3, <2>5 DEF TreeStep
    <3>2. s.v \in Var
      BY <2>5, FileIs
    <3>3. Put(env, s.v, TraceFor(env, s)) \in Known
      BY <2>2, <3>2 DEF Put, Known
    <3> QED BY <1>1, <2>1, <3>1, <3>3
  <2>6. CASE s.op \notin {"close", "declare", "assign"}
    <3>1. Environments(file)[i] = env
      BY <2>3, <2>6 DEF TreeStep
    <3> QED BY <1>1, <2>1, <2>2, <3>1
  <2> QED BY <2>4, <2>5, <2>6
<1>4. \A i \in 0 .. Len(file.body) : i \in S
  <2> HIDE DEF S
  <2> QED BY <1>1, <1>2, <1>3, Climb
<1> QED BY <1>1, <1>4

LEMMA TreeMoves ==
    ASSUME NEW file \in SourceFile, NEW i \in 1 .. Len(file.body)
    PROVE  /\ file.body[i].op = "close" =>
                /\ Environments(file)[i].known = Environments(file)[Opening(file.body, i) - 1].known
                /\ \A v : v \in Environments(file)[i].tainted <=>
                     \/ v \in Environments(file)[Opening(file.body, i) - 1].tainted
                     \/ /\ v \in Environments(file)[i - 1].tainted
                        /\ v \notin DeclaredIn(file.body, Opening(file.body, i), i)
                        /\ v \in Environments(file)[Opening(file.body, i) - 1].known
           /\ file.body[i].op \in {"declare", "assign"} =>
                /\ Environments(file)[i].known = Environments(file)[i - 1].known \cup {file.body[i].v}
                /\ \A v : v \in Environments(file)[i].tainted <=>
                     IF v = file.body[i].v THEN TraceFor(Environments(file)[i - 1], file.body[i])
                     ELSE v \in Environments(file)[i - 1].tainted
           /\ file.body[i].op \notin {"close", "declare", "assign"} =>
                Environments(file)[i] = Environments(file)[i - 1]
<1> DEFINE env == Environments(file)[i - 1]
           before == Environments(file)[Opening(file.body, i) - 1]
           s == file.body[i]
<1>1. Len(file.body) \in Nat /\ i - 1 \in 0 .. Len(file.body)
  BY FileIs
<1>2. env \in Known
  BY <1>1, TreeTyped
<1>3. Environments(file)[i] = TreeStep(file.body, before, env, i)
  BY TreeIs
<1>4. ASSUME s.op = "close"
      PROVE  /\ Environments(file)[i].known = before.known
             /\ \A v : v \in Environments(file)[i].tainted <=>
                  \/ v \in before.tainted
                  \/ /\ v \in env.tainted
                     /\ v \notin DeclaredIn(file.body, Opening(file.body, i), i)
                     /\ v \in before.known
  <2>1. Opening(file.body, i) - 1 \in 0 .. Len(file.body)
    BY <1>1, <1>4, OpeningIs
  <2>2. before \in Known
    BY <2>1, TreeTyped
  <2>3. Environments(file)[i] = Merged(file.body, before, env, i)
    BY <1>3, <1>4 DEF TreeStep
  <2> DEFINE gone == DeclaredIn(file.body, Opening(file.body, i), i)
  <2>4. Environments(file)[i] =
          [before EXCEPT !.tainted = before.tainted \cup ((env.tainted \ gone) \cap before.known)]
    BY <2>3 DEF Merged
  <2> HIDE DEF gone, before, env
  <2>5. /\ Environments(file)[i].known = before.known
        /\ Environments(file)[i].tainted = before.tainted \cup ((env.tainted \ gone) \cap before.known)
    BY <2>2, <2>4 DEF Known
  <2> QED BY <2>5 DEF gone
<1>5. ASSUME s.op \in {"declare", "assign"}
      PROVE  /\ Environments(file)[i].known = env.known \cup {s.v}
             /\ \A v : v \in Environments(file)[i].tainted <=>
                  IF v = s.v THEN TraceFor(env, s) ELSE v \in env.tainted
  <2> DEFINE t == TraceFor(env, s)
             x == s.v
  <2>1. Environments(file)[i] = Put(env, x, t)
    BY <1>3, <1>5 DEF TreeStep
  <2>2. /\ Put(env, x, t).known = env.known \cup {x}
        /\ Put(env, x, t).tainted = IF t THEN env.tainted \cup {x} ELSE env.tainted \ {x}
    BY DEF Put
  <2> HIDE DEF t, env, x
  <2>3. ASSUME NEW v PROVE v \in Put(env, x, t).tainted <=> IF v = x THEN t ELSE v \in env.tainted
    <3>1. CASE t
      BY <2>2, <3>1
    <3>2. CASE ~t
      BY <2>2, <3>2
    <3> QED BY <3>1, <3>2
  <2> QED BY <2>1, <2>2, <2>3 DEF t, x
<1>6. ASSUME s.op \notin {"close", "declare", "assign"} PROVE Environments(file)[i] = env
  BY <1>3, <1>6 DEF TreeStep
<1> QED BY <1>4, <1>5, <1>6

-----------------------------------------------------------------------------
(***************************************************************************)
(* Executions that leave out blocks.                                       *)
(***************************************************************************)
Opens(body, i) == {o \in 1 .. i : body[o].op = "open"}
\* No block that is left out is open after i.
Free(body, out, i) == \A o \in out : o <= i => ~Around(body, o, i)

\* Blocks that begin later do not matter.
Alike(out, other, m) == out \subseteq Nat /\ other \subseteq Nat /\ \A o \in 0 .. m : o \in out <=> o \in other

LEMMA SameSoFar ==
    ASSUME NEW file \in SourceFile, NEW out, NEW other, NEW m \in 0 .. Len(file.body),
           Alike(out, other, m)
    PROVE  \A i \in 0 .. m : Execution(file, out)[i] = Execution(file, other)[i]
<1> DEFINE S == {i \in 0 .. m : Execution(file, out)[i] = Execution(file, other)[i]}
<1>1. Len(file.body) \in Nat /\ m \in Nat
  BY FileIs
<1>2. 0 \in S
  <2>1. Execution(file, out)[0] = file.params \X {0} /\ Execution(file, other)[0] = file.params \X {0}
    BY <1>1, ExecutionIs
  <2>2. Execution(file, out)[0] = Execution(file, other)[0]
    BY <2>1, Zenon
  <2>3. 0 \in 0 .. m
    BY <1>1
  <2> QED BY <2>2, <2>3
<1>3. ASSUME NEW i \in 1 .. m, i - 1 \in S PROVE i \in S
  <2>1. i \in 1 .. Len(file.body) /\ i \in Nat
    BY <1>1
  <2>2. \A o \in Nat : o <= i => (o \in out <=> o \in other)
    BY <1>1 DEF Alike
  <2>3. PassedOver(file.body, out, i) <=> PassedOver(file.body, other, i)
    BY <2>2 DEF PassedOver, Alike
  <2>4. Execution(file, out)[i] = NextHeld(file, out, Execution(file, out)[i - 1], i)
    BY <1>1, <2>1, ExecutionIs
  <2>5. Execution(file, other)[i] = NextHeld(file, other, Execution(file, other)[i - 1], i)
    BY <1>1, <2>1, ExecutionIs
  <2>6. Execution(file, out)[i - 1] = Execution(file, other)[i - 1]
    BY <1>3
  <2> QED BY <1>1, <2>3, <2>4, <2>5, <2>6 DEF NextHeld
<1>4. \A i \in 0 .. m : i \in S
  <2> HIDE DEF S
  <2> QED BY <1>1, <1>2, <1>3, Climb
<1> QED BY <1>4

\* Nothing happens in a block that is left out.
LEMMA LeftOut ==
    ASSUME NEW file \in SourceFile, NEW i \in 1 .. Len(file.body), file.body[i].op = "close",
           NEW out, Opening(file.body, i) \in out
    PROVE  Execution(file, out)[i] = Execution(file, out)[Opening(file.body, i) - 1]
<1> DEFINE o == Opening(file.body, i)
           n == i - (o - 1)
           S == {m \in 0 .. n : Execution(file, out)[(o - 1) + m] = Execution(file, out)[o - 1]}
<1>1. Len(file.body) \in Nat /\ i \in Nat
  BY FileIs
<1>2. o \in 1 .. i - 1 /\ Around(file.body, o, i - 1)
  BY OpeningIs
<1>3. n \in Nat
  BY <1>1, <1>2
<1>4. 0 \in S
  BY <1>2, <1>3
<1>5. ASSUME NEW m \in 1 .. n, m - 1 \in S PROVE m \in S
  <2> DEFINE k == (o - 1) + m
  <2>1. k \in o .. i /\ k \in 1 .. Len(file.body) /\ k - 1 = (o - 1) + (m - 1) /\ m \in 0 .. n
    BY <1>1, <1>2, <1>3
  <2>2. Around(file.body, o, k - 1)
    <3>1. \A q \in o .. k - 1 : q \in o .. i - 1
      BY <1>1, <1>2, <2>1
    <3> QED BY <1>2, <3>1 DEF Around
  <2>3. o <= k
    BY <2>1
  <2>4. PassedOver(file.body, out, k)
    BY <2>2, <2>3 DEF PassedOver
  <2>5. Execution(file, out)[k] = Execution(file, out)[k - 1]
    BY <2>1, <2>4, ExecutionStep
  <2>6. Execution(file, out)[(o - 1) + (m - 1)] = Execution(file, out)[o - 1]
    BY <1>5
  <2> QED BY <2>1, <2>5, <2>6
<1>6. n \in S
  <2>1. \A m \in 0 .. n : m \in S
    <3> HIDE DEF S, n
    <3> QED BY <1>3, <1>4, <1>5, Climb
  <2> QED BY <1>3, <2>1
<1>7. (o - 1) + n = i
  BY <1>1, <1>2
<1> QED BY <1>6, <1>7

LEMMA HomeStays ==
    ASSUME NEW file \in SourceFile, NEW i \in 1 .. Len(file.body), NEW v,
           file.body[i].op # "close", ~(file.body[i].op = "declare" /\ file.body[i].v = v)
    PROVE  Home(file.body, v, i) = Home(file.body, v, i - 1)
<1>1. InForce(file.body, v, i) = InForce(file.body, v, i - 1)
  BY ForceStep
<1> QED BY <1>1 DEF Home, InForce

LEMMA FreeStep ==
    ASSUME NEW file \in SourceFile, NEW i \in 1 .. Len(file.body), NEW out \in SUBSET Opens(file.body, i - 1),
           Free(file.body, out, i - 1)
    PROVE  /\ out \in SUBSET Opens(file.body, i) /\ Free(file.body, out, i) /\ ~PassedOver(file.body, out, i)
<1>1. Len(file.body) \in Nat /\ i \in Nat
  BY FileIs
<1>2. ASSUME NEW o \in out PROVE o \in 1 .. i - 1 /\ o \in Opens(file.body, i) /\ ~Around(file.body, o, i - 1)
  <2>1. o \in 1 .. i - 1 /\ file.body[o].op = "open"
    BY DEF Opens
  <2>2. o <= i - 1 /\ o \in 1 .. i
    BY <1>1, <2>1
  <2> QED BY <2>1, <2>2 DEF Free, Opens
<1>3. \A o \in out : ~Around(file.body, o, i)
  BY <1>2, AroundStep
<1> QED BY <1>2, <1>3 DEF Free, PassedOver

\* A variable of a block that is not declared in it is one from before the block.
LEMMA HomeUndeclared ==
    ASSUME NEW file \in SourceFile, NEW i \in 1 .. Len(file.body), file.body[i].op = "close",
           NEW v, v \notin DeclaredIn(file.body, Opening(file.body, i), i)
    PROVE  Home(file.body, v, i) = Home(file.body, v, i - 1)
<1> DEFINE D(k) == Depth(file.body, k)
           o == Opening(file.body, i)
<1>1. Len(file.body) \in Nat /\ i \in Nat /\ i - 1 \in 0 .. Len(file.body)
  BY FileIs
<1>2. /\ o \in 1 .. i - 1 /\ D(o - 1) = D(i) /\ D(o) = D(i) + 1 /\ D(i) = D(i - 1) - 1
  BY OpeningIs, Nesting
<1>3. D(i) \in Nat /\ D(i - 1) \in Nat
  BY <1>1, Nesting
<1>4. ASSUME NEW j \in InForce(file.body, v, i - 1) PROVE D(j) <= D(i)
  <2>1. /\ j \in 1 .. i - 1 /\ D(j) \in Nat /\ file.body[j].op = "declare" /\ file.body[j].v = v
        /\ (\A k \in j .. i - 1 : D(j) <= D(k)) /\ D(j) <= D(i - 1)
    <3> DEFINE m == i - 1
    <3>1. m \in 0 .. Len(file.body) /\ j \in InForce(file.body, v, m)
      BY <1>1
    <3> HIDE DEF m
    <3>2. j \in 1 .. m /\ file.body[j].op = "declare" /\ file.body[j].v = v
      BY <3>1 DEF InForce
    <3>5. D(j) \in Nat
      BY <3>1, ForceIs
    <3>3. \A k \in j .. m : D(j) <= D(k)
      BY <3>1, ForceIs
    <3>4. D(j) <= D(m)
      BY <3>1, ForceIs
    <3> QED BY <3>2, <3>3, <3>4, <3>5 DEF m
  <2>2. SUFFICES ASSUME ~(D(j) <= D(i)) PROVE FALSE
    OBVIOUS
  <2>3. D(j) = D(o)
    BY <1>2, <1>3, <2>1, <2>2
  <2>4. CASE j >= o
    <3>1. j \in o .. i
      BY <1>1, <1>2, <2>1, <2>4
    <3>2. v \in DeclaredIn(file.body, o, i)
      BY <2>1, <2>3, <3>1 DEF DeclaredIn
    <3> QED BY <3>2
  <2>5. CASE j < o
    <3>1. o - 1 \in j .. i - 1
      BY <1>2, <2>1, <2>5
    <3> QED BY <1>2, <2>1, <2>2, <3>1
  <2> QED BY <1>2, <2>1, <2>4, <2>5
<1>5. InForce(file.body, v, i) = InForce(file.body, v, i - 1)
  <2>1. InForce(file.body, v, i) = {j \in InForce(file.body, v, i - 1) : D(j) <= D(i)}
    BY ForceStep
  <2> QED BY <1>4, <2>1
<1> QED BY <1>5 DEF Home, InForce

\* What is tainted in the tree is tainted when some blocks are left out.
TreeSound(file, i) ==
    \A v \in Environments(file)[i].tainted :
        \E out \in SUBSET Opens(file.body, i) :
            Free(file.body, out, i) /\ Holds(file.body, Execution(file, out)[i], v, i)

LEMMA TreeSoundClose ==
    ASSUME NEW file \in SourceFile, NEW i \in 1 .. Len(file.body), file.body[i].op = "close",
           TreeSound(file, i - 1), TreeSound(file, Opening(file.body, i) - 1)
    PROVE  TreeSound(file, i)
<1> DEFINE o == Opening(file.body, i)
<1>1. Len(file.body) \in Nat /\ i \in Nat
  BY FileIs
<1>2. /\ o \in 1 .. i - 1 /\ file.body[o].op = "open"
      /\ Depth(file.body, o) = Depth(file.body, i) + 1
  BY OpeningIs
<1>3. Depth(file.body, i) \in Nat
  BY <1>1, Nesting
<1>4. SUFFICES ASSUME NEW v \in Environments(file)[i].tainted
               PROVE  \E out \in SUBSET Opens(file.body, i) :
                        Free(file.body, out, i) /\ Holds(file.body, Execution(file, out)[i], v, i)
  BY DEF TreeSound
<1>5. CASE v \in Environments(file)[o - 1].tainted
  <2>1. PICK out \in SUBSET Opens(file.body, o - 1) :
           Free(file.body, out, o - 1) /\ Holds(file.body, Execution(file, out)[o - 1], v, o - 1)
    BY <1>5 DEF TreeSound
  <2> DEFINE other == out \cup {o}
  <2>2. \A q \in out : q \in 1 .. o - 1 /\ file.body[q].op = "open" /\ ~Around(file.body, q, o - 1)
    BY <2>1 DEF Opens, Free
  <2>3. other \in SUBSET Opens(file.body, i)
    <3>1. \A q \in 1 .. o - 1 : q \in 1 .. i
      BY <1>1, <1>2
    <3>2. o \in 1 .. i
      BY <1>1, <1>2
    <3> QED BY <1>2, <2>2, <3>1, <3>2 DEF Opens
  <2>4. ASSUME NEW q \in other PROVE ~Around(file.body, q, i)
    <3>1. CASE q = o
      <4>1. o >= o /\ o \in 1 .. i - 1
        BY <1>2
      <4> QED BY <3>1, <4>1, AroundClose
    <3>2. CASE q \in out
      <4>1. q \in 1 .. i - 1 /\ q < o
        BY <1>2, <2>2, <3>2
      <4> QED BY <2>2, <3>2, <4>1, AroundClose
    <3> QED BY <3>1, <3>2
  <2>5. Execution(file, other)[i] = Execution(file, other)[o - 1]
    BY LeftOut
  <2>6. Execution(file, other)[o - 1] = Execution(file, out)[o - 1]
    <3>1. o - 1 \in 0 .. Len(file.body) /\ o - 1 \in 0 .. o - 1
      BY <1>1, <1>2
    <3>2. \A q \in 0 .. o - 1 : q \in other <=> q \in out
      BY <1>2
    <3>3. other \subseteq Nat /\ out \subseteq Nat
      BY <1>2, <2>2
    <3> DEFINE m == o - 1
    <3>4. m \in 0 .. Len(file.body) /\ m \in 0 .. m /\ Alike(other, out, m)
      BY <3>1, <3>2, <3>3 DEF Alike
    <3> HIDE DEF other, o, m
    <3>5. \A k \in 0 .. m : Execution(file, other)[k] = Execution(file, out)[k]
      BY <3>4, SameSoFar
    <3> QED BY <3>4, <3>5 DEF m
  <2>7. Holds(file.body, Execution(file, other)[i], v, i)
    BY <2>1, <2>5, <2>6, HomeClose DEF Holds
  <2>8. Free(file.body, other, i)
    BY <2>4 DEF Free
  <2> QED BY <2>3, <2>7, <2>8
<1>6. CASE v \in Environments(file)[i - 1].tainted /\ v \notin DeclaredIn(file.body, o, i)
  <2>1. PICK out \in SUBSET Opens(file.body, i - 1) :
           Free(file.body, out, i - 1) /\ Holds(file.body, Execution(file, out)[i - 1], v, i - 1)
    BY <1>6 DEF TreeSound
  <2>2. out \in SUBSET Opens(file.body, i) /\ Free(file.body, out, i)
    BY <2>1, FreeStep
  <2>3. Execution(file, out)[i] = Execution(file, out)[i - 1]
    BY ExecutionStep
  <2>4. Home(file.body, v, i) = Home(file.body, v, i - 1)
    BY <1>6, HomeUndeclared
  <2> QED BY <2>1, <2>2, <2>3, <2>4 DEF Holds
<1> QED BY <1>5, <1>6, TreeMoves

LEMMA TreeSoundStep ==
    ASSUME NEW file \in SourceFile, NEW i \in 1 .. Len(file.body), file.body[i].op # "close",
           TreeSound(file, i - 1)
    PROVE  TreeSound(file, i)
<1>1. Len(file.body) \in Nat /\ i \in Nat /\ i - 1 \in 0 .. Len(file.body)
  BY FileIs
<1>2. SUFFICES ASSUME NEW v \in Environments(file)[i].tainted
               PROVE  \E out \in SUBSET Opens(file.body, i) :
                        Free(file.body, out, i) /\ Holds(file.body, Execution(file, out)[i], v, i)
  BY DEF TreeSound
<1> DEFINE s == file.body[i]
           env == Environments(file)[i - 1]
<1>3. ASSUME NEW x \in env.tainted
      PROVE  \E out \in SUBSET Opens(file.body, i) :
               /\ Free(file.body, out, i) /\ ~PassedOver(file.body, out, i)
               /\ Holds(file.body, Execution(file, out)[i - 1], x, i - 1)
  <2>1. PICK out \in SUBSET Opens(file.body, i - 1) :
           Free(file.body, out, i - 1) /\ Holds(file.body, Execution(file, out)[i - 1], x, i - 1)
    BY DEF TreeSound
  <2>2. out \in SUBSET Opens(file.body, i) /\ Free(file.body, out, i) /\ ~PassedOver(file.body, out, i)
    BY <2>1, FreeStep
  <2> QED BY <2>1, <2>2
<1>4. CASE s.op \in {"declare", "assign"} /\ v = s.v
  <2>1. TraceFor(env, s)
    BY <1>2, <1>4, TreeMoves
  <2>2. ASSUME NEW out \in SUBSET Opens(file.body, i), ~PassedOver(file.body, out, i),
               Tainting(file, Execution(file, out)[i - 1], i)
        PROVE  Holds(file.body, Execution(file, out)[i], v, i)
    <3>1. Assignee(file, i) \in Execution(file, out)[i]
      BY <1>4, <2>2, ExecutionStep
    <3> QED BY <1>4, <3>1 DEF Assignee, Holds
  <2>3. CASE s.from = "source"
    <3>1. {} \in SUBSET Opens(file.body, i) /\ ~PassedOver(file.body, {}, i) /\ Free(file.body, {}, i)
      BY DEF PassedOver, Free
    <3>2. Tainting(file, Execution(file, {})[i - 1], i)
      BY <2>3 DEF Tainting
    <3> QED BY <2>2, <3>1, <3>2
  <2>4. CASE s.from \in env.tainted
    <3>1. PICK out \in SUBSET Opens(file.body, i) :
             /\ Free(file.body, out, i) /\ ~PassedOver(file.body, out, i)
             /\ Holds(file.body, Execution(file, out)[i - 1], s.from, i - 1)
      BY <1>3, <2>4
    <3>2. Tainting(file, Execution(file, out)[i - 1], i)
      BY <3>1 DEF Tainting
    <3> QED BY <2>2, <3>1, <3>2
  <2> QED BY <2>1, <2>3, <2>4 DEF TraceFor
<1>5. CASE ~(s.op \in {"declare", "assign"} /\ v = s.v)
  <2>1. v \in env.tainted
    <3>1. CASE s.op \in {"declare", "assign"}
      BY <1>2, <1>5, <3>1, TreeMoves
    <3>2. CASE s.op \notin {"declare", "assign"}
      BY <1>2, <3>2, TreeMoves
    <3> QED BY <3>1, <3>2
  <2>2. PICK out \in SUBSET Opens(file.body, i) :
           /\ Free(file.body, out, i) /\ ~PassedOver(file.body, out, i)
           /\ Holds(file.body, Execution(file, out)[i - 1], v, i - 1)
    BY <1>3, <2>1
  <2>3. Home(file.body, v, i) = Home(file.body, v, i - 1)
    BY <1>5, HomeStays
  <2> DEFINE x == <<v, Home(file.body, v, i)>>
  <2>4. x \in Execution(file, out)[i - 1]
    BY <2>2, <2>3 DEF Holds
  <2>5. x \in Execution(file, out)[i]
    <3>1. CASE s.op \in {"declare", "assign"}
      <4>1. x # Assignee(file, i)
        BY <1>5, <3>1 DEF Assignee
      <4> HIDE DEF x
      <4> QED BY <2>2, <2>4, <3>1, <4>1, ExecutionStep
    <3>2. CASE s.op \notin {"declare", "assign"}
      <4> HIDE DEF x
      <4> QED BY <2>4, <3>2, ExecutionStep
    <3> QED BY <3>1, <3>2
  <2> QED BY <2>2, <2>5 DEF Holds
<1> QED BY <1>4, <1>5

LEMMA TreeSoundAlways ==
    ASSUME NEW file \in SourceFile
    PROVE  \A i \in 0 .. Len(file.body) : TreeSound(file, i)
<1> DEFINE S == {i \in 0 .. Len(file.body) : \A k \in 0 .. i : TreeSound(file, k)}
<1>1. Len(file.body) \in Nat
  BY FileIs
<1>2. 0 \in S
  <2>1. \A k \in 0 .. 0 : k = 0
    OBVIOUS
  <2>2. ASSUME NEW v \in Environments(file)[0].tainted
        PROVE  \E out \in SUBSET Opens(file.body, 0) :
                 Free(file.body, out, 0) /\ Holds(file.body, Execution(file, out)[0], v, 0)
    <3>1. v \in file.params
      <4>1. Environments(file)[0].tainted = file.params
        <5>1. Environments(file)[0] = [known |-> file.params, tainted |-> file.params]
          BY TreeIs
        <5> QED BY <5>1
      <4> QED BY <2>2, <4>1
    <3>2. {} \in SUBSET Opens(file.body, 0) /\ Free(file.body, {}, 0)
      BY DEF Free
    <3>3. Home(file.body, v, 0) = 0
      <4>1. 0 \in 0 .. Len(file.body)
        BY <1>1
      <4>2. HomeTo(file.body, v, 0, Depth(file.body, 0) + 1) \in 0 .. 0
        BY <4>1, HomeToIs
      <4>3. Home(file.body, v, 0) = HomeTo(file.body, v, 0, Depth(file.body, 0) + 1)
        BY <4>1, HomeIs
      <4> QED BY <4>2, <4>3
    <3>4. Execution(file, {})[0] = file.params \X {0}
      BY <1>1, ExecutionIs
    <3>5. <<v, 0>> \in Execution(file, {})[0]
      BY <3>1, <3>4
    <3> QED BY <3>2, <3>3, <3>5 DEF Holds
  <2>3. TreeSound(file, 0)
    BY <2>2 DEF TreeSound
  <2> QED BY <1>1, <2>1, <2>3
<1>3. ASSUME NEW i \in 1 .. Len(file.body), i - 1 \in S PROVE i \in S
  <2>1. \A k \in 0 .. i - 1 : TreeSound(file, k)
    BY <1>3
  <2>2. i - 1 \in 0 .. i - 1
    BY <1>1
  <2>3. TreeSound(file, i)
    <3>1. CASE file.body[i].op = "close"
      <4>1. Opening(file.body, i) - 1 \in 0 .. i - 1
        BY <1>1, <3>1, OpeningIs
      <4> QED BY <2>1, <2>2, <3>1, <4>1, TreeSoundClose
    <3>2. CASE file.body[i].op # "close"
      BY <2>1, <2>2, <3>2, TreeSoundStep
    <3> QED BY <3>1, <3>2
  <2> QED BY <1>1, <2>1, <2>3
<1>4. \A i \in 0 .. Len(file.body) : i \in S
  <2> HIDE DEF S
  <2> QED BY <1>1, <1>2, <1>3, Climb
<1> QED BY <1>1, <1>4

LEMMA AstSound ==
    ASSUME NEW file \in SourceFile
    PROVE  AstSites(file) \subseteq {i \in Reached(file, AnyBlocks(file.body)) : file.body[i].op = "sink"}
<1>1. Len(file.body) \in Nat /\ DOMAIN file.body = 1 .. Len(file.body)
  BY FileIs
<1>2. SUFFICES ASSUME NEW i \in 1 .. Len(file.body), i \in AstSites(file)
               PROVE  i \in Reached(file, AnyBlocks(file.body)) /\ file.body[i].op = "sink"
  BY <1>1 DEF AstSites
<1>3. file.body[i].op = "sink" /\ file.body[i].v \in Environments(file)[i - 1].tainted
  BY <1>2 DEF AstSites
<1>4. i - 1 \in 0 .. Len(file.body)
  BY <1>1
<1>5. PICK out \in SUBSET Opens(file.body, i - 1) :
         Free(file.body, out, i - 1) /\ Holds(file.body, Execution(file, out)[i - 1], file.body[i].v, i - 1)
  BY <1>3, <1>4, TreeSoundAlways DEF TreeSound
<1>6. out \in AnyBlocks(file.body)
  <2>1. \A o \in 1 .. i - 1 : o \in DOMAIN file.body
    BY <1>1
  <2> QED BY <2>1 DEF AnyBlocks, Opens
<1>7. ~PassedOver(file.body, out, i)
  BY <1>5, FreeStep
<1>8. Arrives(file, Execution(file, out)[i - 1], i)
  BY <1>3, <1>5 DEF Arrives, AtSink
<1> QED BY <1>1, <1>3, <1>6, <1>7, <1>8 DEF Reached

-----------------------------------------------------------------------------
(***************************************************************************)
(* What is tainted when some blocks are left out is tainted in the tree.   *)
(***************************************************************************)
\* A use of v whose block has not ended.
Used(file, v, j) == file.body[j].op \in {"declare", "assign"} /\ file.body[j].v = v

LEMMA InUseIs ==
    ASSUME NEW file, NEW v, NEW i
    PROVE  InUse(file, v, i, FALSE) <=>
             v \in file.params \/ \E j \in 1 .. i : Used(file, v, j) /\ Around(file.body, j, i)
BY DEF InUse, Used

LEMMA KnownInUse ==
    ASSUME NEW file \in SourceFile
    PROVE  \A i \in 0 .. Len(file.body) : \A v : InUse(file, v, i, FALSE) => v \in Environments(file)[i].known
<1> DEFINE P(k) == \A v : InUse(file, v, k, FALSE) => v \in Environments(file)[k].known
           S == {i \in 0 .. Len(file.body) : \A k \in 0 .. i : P(k)}
<1>1. Len(file.body) \in Nat
  BY FileIs
<1>2. 0 \in S
  <2>1. \A k \in 0 .. 0 : k = 0
    OBVIOUS
  <2>2. Environments(file)[0].known = file.params
    <3>1. Environments(file)[0] = [known |-> file.params, tainted |-> file.params]
      BY TreeIs
    <3> QED BY <3>1
  <2>3. P(0)
    <3>1. ASSUME NEW v, InUse(file, v, 0, FALSE) PROVE v \in Environments(file)[0].known
      <4>1. v \in file.params \/ \E j \in 1 .. 0 : Used(file, v, j) /\ Around(file.body, j, 0)
        BY <3>1, InUseIs, Zenon
      <4>2. 1 .. 0 = {}
        OBVIOUS
      <4> QED BY <2>2, <4>1, <4>2
    <3> QED BY <3>1, Zenon
  <2> HIDE DEF P
  <2> QED BY <1>1, <2>1, <2>3
<1>3. ASSUME NEW i \in 1 .. Len(file.body), i - 1 \in S PROVE i \in S
  <2>1. \A k \in 0 .. i - 1 : P(k)
    BY <1>3
  <2>2. i - 1 \in 0 .. i - 1 /\ i \in Nat
    BY <1>1
  <2>3. ASSUME NEW v, InUse(file, v, i, FALSE) PROVE v \in Environments(file)[i].known
    <3>1. CASE file.body[i].op = "close"
      <4>1. Opening(file.body, i) - 1 \in 0 .. i - 1
        BY <1>1, <3>1, OpeningIs
      <4>2. InUse(file, v, Opening(file.body, i) - 1, FALSE)
        BY <2>3, <3>1, InUseClose
      <4>3. v \in Environments(file)[Opening(file.body, i) - 1].known
        BY <2>1, <4>1, <4>2
      <4> QED BY <3>1, <4>3, TreeMoves
    <3>2. CASE file.body[i].op # "close"
      <4>1. Environments(file)[i - 1].known \subseteq Environments(file)[i].known
        BY <3>2, TreeMoves
      <4>2. CASE Used(file, v, i)
        BY <4>2, TreeMoves DEF Used
      <4>3. CASE ~Used(file, v, i)
        <5>1. InUse(file, v, i - 1, FALSE)
          <6>1. CASE v \in file.params
            BY <6>1, InUseIs
          <6>2. ASSUME NEW j \in 1 .. i, Used(file, v, j), Around(file.body, j, i)
                PROVE  InUse(file, v, i - 1, FALSE)
            <7>1. j \in 1 .. i - 1
              BY <2>2, <4>3, <6>2
            <7>2. Around(file.body, j, i - 1)
              BY <3>2, <6>2, <7>1, AroundAll
            <7> QED BY <6>2, <7>1, <7>2, InUseIs
          <6> QED BY <2>3, <6>1, <6>2, InUseIs
        <5> QED BY <2>1, <2>2, <4>1, <5>1
      <4> QED BY <4>2, <4>3
    <3> QED BY <3>1, <3>2
  <2>4. P(i)
    BY <2>3, Zenon
  <2> HIDE DEF P
  <2> QED BY <1>1, <2>1, <2>4
<1>4. \A i \in 0 .. Len(file.body) : i \in S
  <2> HIDE DEF S
  <2> QED BY <1>1, <1>2, <1>3, Climb
<1>5. \A i \in 0 .. Len(file.body) : P(i)
  <2> HIDE DEF P
  <2> QED BY <1>1, <1>4
<1> QED BY <1>5, Zenon

\* A variable that has a declaration stands for the last one; without any, for a
\* parameter or a field.
LEMMA HomeAtLeast ==
    ASSUME NEW file \in SourceFile, NEW i \in 0 .. Len(file.body), NEW v
    PROVE  /\ Home(file.body, v, i) \in 0 .. i
           /\ \A j \in InForce(file.body, v, i) : j <= Home(file.body, v, i)
           /\ InForce(file.body, v, i) = {} => Home(file.body, v, i) = 0
<1>1. Home(file.body, v, i) = HomeTo(file.body, v, i, Depth(file.body, i) + 1)
  BY HomeIs
<1>2. \A j \in InForce(file.body, v, i) : Depth(file.body, j) < Depth(file.body, i) + 1
  <2>1. \A j \in InForce(file.body, v, i) : Depth(file.body, j) \in Nat /\ Depth(file.body, j) <= Depth(file.body, i)
    BY ForceIs
  <2>2. Depth(file.body, i) \in Nat
    BY Nesting
  <2> QED BY <2>1, <2>2
<1> QED BY <1>1, <1>2, HomeToIs

\* A field, or a parameter, gets its first value outside of the blocks.
LEMMA FirstAtTop ==
    ASSUME NEW file \in SourceFile, FirstOutside(file, FALSE), NEW v, v \notin file.params
    PROVE  \A i \in 1 .. Len(file.body) :
              file.body[i].op = "assign" /\ file.body[i].v = v /\ InForce(file.body, v, i) = {} =>
                \E q \in 1 .. i : Used(file, v, q) /\ Depth(file.body, q) = 0
<1> DEFINE A(i) == file.body[i].op = "assign" /\ file.body[i].v = v /\ InForce(file.body, v, i) = {}
           C(i) == \E q \in 1 .. i : Used(file, v, q) /\ Depth(file.body, q) = 0
           T == {i \in 1 .. Len(file.body) : A(i) /\ ~C(i)}
<1>1. Len(file.body) \in Nat /\ DOMAIN file.body = 1 .. Len(file.body)
  BY FileIs
<1>2. ASSUME T # {} PROVE FALSE
  <2>1. T \in SUBSET Nat
    OBVIOUS
  <2>2. PICK i \in T : \A k \in T : i <= k
    <3> HIDE DEF T
    <3> QED BY <1>2, <2>1, Least
  <2>3. i \in 1 .. Len(file.body) /\ A(i) /\ ~C(i) /\ i \in Nat
    BY <2>2
  <2>4. Used(file, v, i) /\ i \in 1 .. i
    BY <2>3 DEF Used
  <2>5. Depth(file.body, i) \in Nat /\ Depth(file.body, i) # 0
    <3>1. i \in 0 .. Len(file.body)
      BY <1>1, <2>3
    <3> QED BY <2>3, <2>4, <3>1, Nesting
  <2>6. InUse(file, v, i - 1, FALSE)
    <3>1. Depth(file.body, i) > 0
      BY <2>5
    <3> QED BY <1>1, <2>3, <3>1 DEF FirstOutside
  <2>7. PICK j \in 1 .. i - 1 : Used(file, v, j) /\ Around(file.body, j, i - 1)
    BY <2>6, InUseIs
  <2>8. j \in 1 .. Len(file.body) /\ j < i /\ j \in Nat
    BY <1>1, <2>3
  <2>9. InForce(file.body, v, i - 1) = {}
    BY <2>3, ForceStep
  <2>10. file.body[j].op = "assign" /\ file.body[j].v = v
    BY <2>7, <2>9 DEF Used, InForce
  <2>11. InForce(file.body, v, j) = {}
    <3>1. SUFFICES ASSUME NEW x \in InForce(file.body, v, j) PROVE FALSE
      OBVIOUS
    <3>2. x \in 1 .. j /\ file.body[x].op = "declare" /\ file.body[x].v = v /\ Around(file.body, x, j)
      BY DEF InForce
    <3>3. ASSUME NEW k \in x .. i - 1 PROVE Depth(file.body, k) >= Depth(file.body, x)
      <4>1. CASE k \in x .. j
        BY <3>2, <4>1 DEF Around
      <4>2. CASE k \in j .. i - 1
        <5>1. j \in x .. j
          BY <2>8, <3>2
        <5>2. Depth(file.body, k) >= Depth(file.body, j) /\ Depth(file.body, j) >= Depth(file.body, x)
          BY <2>7, <3>2, <4>2, <5>1 DEF Around
        <5>3. k \in 0 .. Len(file.body) /\ j \in 0 .. Len(file.body) /\ x \in 0 .. Len(file.body)
          BY <1>1, <2>3, <2>8, <3>2, <4>2
        <5>4. Depth(file.body, k) \in Nat /\ Depth(file.body, j) \in Nat /\ Depth(file.body, x) \in Nat
          BY <5>3, Nesting
        <5> QED BY <5>2, <5>4
      <4> QED BY <2>3, <2>8, <3>2, <4>1, <4>2
    <3>4. x \in 1 .. i - 1
      BY <2>3, <2>8, <3>2
    <3>5. x \in InForce(file.body, v, i - 1)
      BY <3>2, <3>3, <3>4 DEF InForce, Around
    <3> QED BY <2>9, <3>5
  <2>12. j \notin T
    BY <2>2, <2>8
  <2>13. C(j)
    BY <2>8, <2>10, <2>11, <2>12
  <2>14. \A q \in 1 .. j : q \in 1 .. i
    BY <2>3, <2>8
  <2> QED BY <2>3, <2>13, <2>14
<1> QED BY <1>2

LEMMA Rooted ==
    ASSUME NEW file \in SourceFile, FirstOutside(file, FALSE), NEW v, v \notin file.params, NEW out
    PROVE  \A i \in 0 .. Len(file.body) :
              <<v, 0>> \in Execution(file, out)[i] =>
                \E q \in 1 .. i : Used(file, v, q) /\ Depth(file.body, q) = 0
<1> DEFINE C(i) == \E q \in 1 .. i : Used(file, v, q) /\ Depth(file.body, q) = 0
           S == {i \in 0 .. Len(file.body) : <<v, 0>> \in Execution(file, out)[i] => C(i)}
<1>1. Len(file.body) \in Nat
  BY FileIs
<1>2. 0 \in S
  <2>1. Execution(file, out)[0] = file.params \X {0}
    BY <1>1, ExecutionIs
  <2>2. <<v, 0>> \notin Execution(file, out)[0]
    BY <2>1
  <2> QED BY <1>1, <2>2
<1>3. ASSUME NEW i \in 1 .. Len(file.body), i - 1 \in S PROVE i \in S
  <2>1. i \in 0 .. Len(file.body) /\ i - 1 \in 0 .. Len(file.body) /\ i \in Nat
    BY <1>1
  <2>2. ASSUME <<v, 0>> \in Execution(file, out)[i] PROVE C(i)
    <3>1. CASE <<v, 0>> \in Execution(file, out)[i - 1]
      <4>1. C(i - 1)
        BY <1>3, <3>1
      <4>2. \A q \in 1 .. i - 1 : q \in 1 .. i
        BY <2>1
      <4> QED BY <4>1, <4>2
    <3>2. CASE <<v, 0>> \notin Execution(file, out)[i - 1]
      <4>1. file.body[i].op \in {"declare", "assign"} /\ ~PassedOver(file.body, out, i)
        BY <2>2, <3>2, ExecutionStep
      <4>2. <<v, 0>> = Assignee(file, i)
        BY <2>2, <3>2, <4>1, ExecutionStep
      <4>3. file.body[i].v = v /\ Home(file.body, v, i) = 0
        BY <4>2 DEF Assignee
      <4>4. InForce(file.body, v, i) = {}
        <5>1. SUFFICES ASSUME NEW j \in InForce(file.body, v, i) PROVE FALSE
          OBVIOUS
        <5>2. j <= 0 /\ j \in 1 .. i
          BY <2>1, <4>3, HomeAtLeast, ForceIs
        <5> QED BY <2>1, <5>2
      <4>5. file.body[i].op = "assign"
        <5>1. ASSUME file.body[i].op = "declare" PROVE FALSE
          <6>0. file.body[i].v = v
            BY <4>3
          <6>1. InForce(file.body, v, i) = InForce(file.body, v, i - 1) \cup {i}
            BY <5>1, <6>0, ForceStep
          <6> QED BY <4>4, <6>1
        <5> QED BY <4>1, <5>1
      <4> QED BY <4>3, <4>4, <4>5, FirstAtTop, Zenon
    <3> QED BY <3>1, <3>2
  <2> QED BY <2>1, <2>2
<1>4. \A i \in 0 .. Len(file.body) : i \in S
  <2> HIDE DEF S
  <2> QED BY <1>1, <1>2, <1>3, Climb
<1> QED BY <1>4

TreeComplete(file, i) ==
    \A out \in AnyBlocks(file.body) : Free(file.body, out, i) =>
        \A v : Holds(file.body, Execution(file, out)[i], v, i) => v \in Environments(file)[i].tainted

LEMMA BlocksAre ==
    ASSUME NEW file \in SourceFile, NEW out \in AnyBlocks(file.body), NEW o \in out
    PROVE  o \in 1 .. Len(file.body) /\ o \in Nat /\ file.body[o].op = "open"
<1>1. DOMAIN file.body = 1 .. Len(file.body)
  BY FileIs
<1> QED BY <1>1 DEF AnyBlocks

\* A statement is executed if no block around it is left out.
LEMMA FreePasses ==
    ASSUME NEW file \in SourceFile, NEW i \in 1 .. Len(file.body), file.body[i].op # "open",
           NEW out \in AnyBlocks(file.body)
    PROVE  Free(file.body, out, i - 1) <=> ~PassedOver(file.body, out, i)
<1>1. Len(file.body) \in Nat
  BY FileIs
<1>2. \A o \in out : o \in Nat /\ o # i
  BY BlocksAre
<1>3. \A o \in out : o <= i <=> o <= i - 1
  BY <1>1, <1>2
<1> QED BY <1>3 DEF Free, PassedOver

LEMMA FreeBefore ==
    ASSUME NEW file \in SourceFile, NEW i \in 1 .. Len(file.body), file.body[i].op # "close",
           NEW out \in AnyBlocks(file.body), Free(file.body, out, i)
    PROVE  Free(file.body, out, i - 1)
<1>1. Len(file.body) \in Nat
  BY FileIs
<1>2. ASSUME NEW o \in out, o <= i - 1 PROVE ~Around(file.body, o, i - 1)
  <2>1. o \in 1 .. i - 1 /\ o <= i
    BY <1>1, <1>2, BlocksAre
  <2>2. ~Around(file.body, o, i)
    BY <2>1 DEF Free
  <2> QED BY <2>1, <2>2, AroundAll
<1> QED BY <1>2 DEF Free

LEMMA TreeCompleteStep ==
    ASSUME NEW file \in SourceFile, ~StoresResult(file), NEW i \in 1 .. Len(file.body),
           file.body[i].op # "close", TreeComplete(file, i - 1)
    PROVE  TreeComplete(file, i)
<1> DEFINE s == file.body[i]
           env == Environments(file)[i - 1]
<1>1. DOMAIN file.body = 1 .. Len(file.body)
  BY FileIs
<1>2. SUFFICES ASSUME NEW out \in AnyBlocks(file.body), Free(file.body, out, i),
                      NEW v, Holds(file.body, Execution(file, out)[i], v, i)
               PROVE  v \in Environments(file)[i].tainted
  BY DEF TreeComplete
<1>3. Free(file.body, out, i - 1)
  BY <1>2, FreeBefore
<1>4. \A w : Holds(file.body, Execution(file, out)[i - 1], w, i - 1) => w \in env.tainted
  BY <1>3 DEF TreeComplete
<1>5. CASE s.op \in {"declare", "assign"} /\ v = s.v
  <2>1. ~PassedOver(file.body, out, i)
    BY <1>3, <1>5, FreePasses
  <2>2. Assignee(file, i) \in Execution(file, out)[i]
    BY <1>2, <1>5 DEF Assignee, Holds
  <2>3. Tainting(file, Execution(file, out)[i - 1], i)
    BY <1>5, <2>1, <2>2, ExecutionStep
  <2>4. s.from # "result"
    BY <1>1 DEF StoresResult
  <2>5. s.from = "source" \/ s.from \in env.tainted
    BY <1>4, <2>3, <2>4 DEF Tainting
  <2> QED BY <1>5, <2>5, TreeMoves DEF TraceFor
<1>6. CASE ~(s.op \in {"declare", "assign"} /\ v = s.v)
  <2> DEFINE x == <<v, Home(file.body, v, i)>>
  <2>1. Home(file.body, v, i) = Home(file.body, v, i - 1)
    BY <1>6, HomeStays
  <2>2. x \in Execution(file, out)[i]
    BY <1>2 DEF Holds
  <2>3. x \in Execution(file, out)[i - 1]
    <3>1. CASE s.op \in {"declare", "assign"}
      <4>1. x # Assignee(file, i)
        BY <1>6, <3>1 DEF Assignee
      <4>2. ~PassedOver(file.body, out, i)
        BY <1>3, <3>1, FreePasses
      <4> HIDE DEF x
      <4> QED BY <2>2, <3>1, <4>1, <4>2, ExecutionStep
    <3>2. CASE s.op \notin {"declare", "assign"}
      <4> HIDE DEF x
      <4> QED BY <2>2, <3>2, ExecutionStep
    <3> QED BY <3>1, <3>2
  <2>4. v \in env.tainted
    BY <1>4, <2>1, <2>3 DEF Holds
  <2>5. CASE s.op \in {"declare", "assign"}
    BY <1>6, <2>4, <2>5, TreeMoves
  <2>6. CASE s.op \notin {"declare", "assign"}
    BY <2>4, <2>6, TreeMoves
  <2> QED BY <2>5, <2>6
<1> QED BY <1>5, <1>6

\* An assignment in a block that declares the name before it gives that variable a value.
LEMMA NotGiven ==
    ASSUME NEW file \in SourceFile, ~HiddenLater(file), NEW i \in 1 .. Len(file.body), file.body[i].op = "close",
           NEW v \in DeclaredIn(file.body, Opening(file.body, i), i),
           NEW k \in Opening(file.body, i) .. i - 1, file.body[k].op \in {"declare", "assign"},
           file.body[k].v = v
    PROVE  Home(file.body, v, k) >= Opening(file.body, i)
<1> DEFINE D(j) == Depth(file.body, j)
           o == Opening(file.body, i)
<1>1. Len(file.body) \in Nat /\ i \in Nat /\ DOMAIN file.body = 1 .. Len(file.body)
  BY FileIs
<1>2. /\ o \in 1 .. i - 1 /\ D(o) = D(i) + 1 /\ file.body[o].op = "open"
      /\ \A q \in o .. i - 1 : D(q) > D(i)
  BY OpeningIs
<1>3. k \in 1 .. Len(file.body) /\ k \in 0 .. Len(file.body) /\ k \in Nat
  BY <1>1, <1>2
<1>4. Home(file.body, v, k) \in Nat /\ \A q \in InForce(file.body, v, k) : q <= Home(file.body, v, k)
  <2>1. Home(file.body, v, k) \in 0 .. k
    BY <1>3, HomeAtLeast
  <2>2. \A q \in InForce(file.body, v, k) : q <= Home(file.body, v, k)
    BY <1>3, HomeAtLeast
  <2> QED BY <1>3, <2>1, <2>2
<1>5. PICK j \in o .. i : file.body[j].op = "declare" /\ D(j) = D(o) /\ file.body[j].v = v
  BY DEF DeclaredIn
<1>6. j \in o .. i - 1 /\ j \in 1 .. Len(file.body) /\ j \in Nat
  <2>1. j # i
    BY <1>5
  <2> QED BY <1>1, <1>2, <1>5, <2>1
<1>7. \A q \in o .. i - 1 : D(q) >= D(j) /\ D(q) \in Nat
  <2> TAKE q \in o .. i - 1
  <2>1. q \in 0 .. Len(file.body) /\ i \in 0 .. Len(file.body)
    BY <1>1, <1>2
  <2>2. D(q) \in Nat /\ D(i) \in Nat
    BY <2>1, Nesting
  <2> QED BY <1>2, <1>5, <2>2
<1>8. CASE file.body[k].op = "declare"
  <2>1. InForce(file.body, v, k) = InForce(file.body, v, k - 1) \cup {k}
    BY <1>3, <1>8, ForceStep
  <2>2. k \in InForce(file.body, v, k)
    BY <2>1
  <2>3. k <= Home(file.body, v, k)
    BY <1>4, <2>2
  <2> QED BY <1>2, <1>3, <1>4, <2>3
<1>9. CASE file.body[k].op = "assign"
  <2>1. j # k
    BY <1>5, <1>9
  <2>2. ASSUME k < j PROVE FALSE
    <3>1. k \in 1 .. j /\ \A q \in k .. j : q \in o .. i - 1
      BY <1>1, <1>2, <1>3, <1>6, <2>2
    <3>2. \A q \in k .. j : D(q) >= D(j)
      BY <1>7, <3>1
    <3>3. D(j) > 0
      <4>1. D(i) \in Nat
        <5>1. i \in 0 .. Len(file.body)
          BY <1>1
        <5> QED BY <5>1, Nesting
      <4> QED BY <1>2, <1>5, <4>1
    <3> QED BY <1>1, <1>5, <1>6, <1>9, <3>1, <3>2, <3>3 DEF HiddenLater
  <2>3. j < k
    BY <1>3, <1>6, <2>1, <2>2
  <2>4. \A q \in j .. k : D(q) >= D(j)
    <3>1. \A q \in j .. k : q \in o .. i - 1
      BY <1>1, <1>2, <1>3, <1>6
    <3> QED BY <1>7, <3>1
  <2>5. j \in 1 .. k
    BY <1>3, <1>6, <2>3
  <2>6. j \in InForce(file.body, v, k)
    BY <1>5, <2>4, <2>5 DEF InForce, Around
  <2>7. j <= Home(file.body, v, k)
    BY <1>4, <2>6
  <2> QED BY <1>2, <1>4, <1>6, <2>7
<1> QED BY <1>8, <1>9

\* What a block leaves alone of what was there before it.
LEMMA KeptInBlock ==
    ASSUME NEW file \in SourceFile, ~HiddenLater(file), NEW i \in 1 .. Len(file.body), file.body[i].op = "close",
           NEW v \in DeclaredIn(file.body, Opening(file.body, i), i), NEW out,
           Holds(file.body, Execution(file, out)[i], v, i)
    PROVE  Holds(file.body, Execution(file, out)[Opening(file.body, i) - 1], v, Opening(file.body, i) - 1)
<1> DEFINE o == Opening(file.body, i)
           h == Home(file.body, v, i)
           x == <<v, h>>
           E(k) == Execution(file, out)[k]
           n == i - (o - 1)
           S == {m \in 0 .. n : x \in E(i - m)}
<1>1. Len(file.body) \in Nat /\ i \in Nat
  BY FileIs
<1>2. o \in 1 .. i - 1 /\ file.body[o].op = "open"
  BY OpeningIs
<1>3. h = Home(file.body, v, o - 1)
  BY HomeClose
<1>4. h \in 0 .. o - 1
  <2>1. o - 1 \in 0 .. Len(file.body)
    BY <1>1, <1>2
  <2> QED BY <1>3, <2>1, HomeAtLeast
<1>5. n \in Nat
  BY <1>1, <1>2
<1>6. 0 \in S
  <2>1. x \in E(i) /\ i - 0 = i
    BY <1>1 DEF Holds
  <2> HIDE DEF x, E
  <2> QED BY <1>5, <2>1
<1>7. ASSUME NEW m \in 1 .. n, m - 1 \in S PROVE m \in S
  <2> DEFINE k == i - (m - 1)
  <2>1. k \in o .. i /\ k \in 1 .. Len(file.body) /\ k - 1 = i - m /\ k \in Nat
    BY <1>1, <1>2, <1>5
  <2>2. x \in E(k)
    BY <1>7
  <2>3. CASE file.body[k].op \in {"declare", "assign"} /\ ~PassedOver(file.body, out, k)
    <3>1. Assignee(file, k) # x
      <4>1. SUFFICES ASSUME Assignee(file, k) = x PROVE FALSE
        OBVIOUS
      <4>2. file.body[k].v = v /\ Home(file.body, v, k) = h
        BY <4>1 DEF Assignee
      <4>3. k # i
        BY <2>3
      <4>4. k \in o .. i - 1
        BY <1>1, <1>2, <2>1, <4>3
      <4>5. h >= o
        BY <2>3, <4>2, <4>4, NotGiven
      <4> QED BY <1>2, <1>4, <4>5
    <3> HIDE DEF x
    <3>2. x \in E(k - 1)
      BY <2>1, <2>2, <2>3, <3>1, ExecutionStep
    <3> QED BY <1>5, <2>1, <3>2
  <2>4. CASE ~(file.body[k].op \in {"declare", "assign"} /\ ~PassedOver(file.body, out, k))
    <3>1. E(k) = E(k - 1)
      BY <2>1, <2>4, ExecutionStep
    <3> HIDE DEF x, E
    <3> QED BY <1>5, <2>1, <2>2, <3>1
  <2> QED BY <2>3, <2>4
<1>8. n \in S
  <2>1. \A m \in 0 .. n : m \in S
    <3> HIDE DEF S, n
    <3> QED BY <1>5, <1>6, <1>7, Climb
  <2> HIDE DEF S, n
  <2> QED BY <1>5, <2>1
<1>9. i - n = o - 1
  BY <1>1, <1>2
<1>10. x \in E(o - 1)
  <2> HIDE DEF x, E
  <2> QED BY <1>8, <1>9
<1> QED BY <1>3, <1>10 DEF Holds

LEMMA TreeCompleteClose ==
    ASSUME NEW file \in SourceFile, FirstOutside(file, FALSE), ~HiddenLater(file),
           NEW i \in 1 .. Len(file.body), file.body[i].op = "close",
           TreeComplete(file, i - 1), TreeComplete(file, Opening(file.body, i) - 1)
    PROVE  TreeComplete(file, i)
<1> DEFINE o == Opening(file.body, i)
           D(j) == Depth(file.body, j)
<1>1. Len(file.body) \in Nat /\ i \in Nat
  BY FileIs
<1>2. /\ o \in 1 .. i - 1 /\ file.body[o].op = "open" /\ D(o - 1) = D(i)
      /\ \A k \in o .. i - 1 : D(k) > D(i)
      /\ \A j \in 1 .. i - 1 : file.body[j].op = "open" /\ Around(file.body, j, i - 1) => j <= o
  BY OpeningIs
<1>3. SUFFICES ASSUME NEW out \in AnyBlocks(file.body), Free(file.body, out, i),
                      NEW v, Holds(file.body, Execution(file, out)[i], v, i)
               PROVE  v \in Environments(file)[i].tainted
  BY DEF TreeComplete
<1>4. ASSUME NEW q \in out, q < o PROVE ~Around(file.body, q, o - 1)
  <2>1. q \in 1 .. i - 1 /\ q <= i
    BY <1>1, <1>2, <1>4, BlocksAre
  <2>2. ~Around(file.body, q, i)
    BY <1>3, <2>1 DEF Free
  <2> QED BY <1>4, <2>1, <2>2, AroundClose
<1>5. Free(file.body, out, o - 1)
  <2>1. \A q \in out : q <= o - 1 => q < o
    BY <1>1, <1>2, BlocksAre
  <2> QED BY <1>4, <2>1 DEF Free
<1>6. Home(file.body, v, i) = Home(file.body, v, o - 1)
  BY HomeClose
<1>7. ASSUME Holds(file.body, Execution(file, out)[o - 1], v, o - 1)
      PROVE  v \in Environments(file)[i].tainted
  <2>1. v \in Environments(file)[o - 1].tainted
    BY <1>5, <1>7 DEF TreeComplete
  <2> QED BY <2>1, TreeMoves
<1>8. CASE o \in out
  <2>1. Execution(file, out)[i] = Execution(file, out)[o - 1]
    BY <1>8, LeftOut
  <2> QED BY <1>3, <1>6, <1>7, <2>1 DEF Holds
<1>9. CASE v \in DeclaredIn(file.body, o, i)
  BY <1>3, <1>7, <1>9, KeptInBlock
<1>10. CASE o \notin out /\ v \notin DeclaredIn(file.body, o, i)
  <2>1. Free(file.body, out, i - 1)
    <3>1. SUFFICES ASSUME NEW q \in out, q <= i - 1, Around(file.body, q, i - 1) PROVE FALSE
      BY DEF Free
    <3>2. q \in 1 .. i - 1 /\ q \in Nat /\ file.body[q].op = "open"
      BY <1>1, <3>1, BlocksAre
    <3>3. q <= o /\ q # o
      BY <1>2, <1>10, <3>1, <3>2
    <3>4. q < o /\ o - 1 \in Nat
      BY <1>2, <3>2, <3>3
    <3>5. ~Around(file.body, q, o - 1)
      BY <1>4, <3>4
    <3>6. \A k \in q .. o - 1 : k \in q .. i - 1
      BY <1>1, <1>2, <3>2
    <3> QED BY <3>1, <3>5, <3>6 DEF Around
  <2>2. Execution(file, out)[i] = Execution(file, out)[i - 1]
    <3>1. file.body[i].op \notin {"declare", "assign"}
      OBVIOUS
    <3> QED BY <3>1, ExecutionStep
  <2>3. Home(file.body, v, i) = Home(file.body, v, i - 1)
    BY <1>10, HomeUndeclared
  <2>4. Holds(file.body, Execution(file, out)[i - 1], v, i - 1)
    BY <1>3, <2>2, <2>3 DEF Holds
  <2>5. v \in Environments(file)[i - 1].tainted
    BY <2>1, <2>4 DEF TreeComplete
  <2>6. InUse(file, v, o - 1, FALSE)
    <3>1. CASE v \in file.params
      BY <3>1, InUseIs
    <3>2. CASE InForce(file.body, v, o - 1) # {}
      <4>1. PICK j \in 1 .. o - 1 : file.body[j].op = "declare" /\ file.body[j].v = v /\ Around(file.body, j, o - 1)
        BY <3>2 DEF InForce
      <4> QED BY <4>1, InUseIs DEF Used
    <3>3. CASE v \notin file.params /\ InForce(file.body, v, o - 1) = {}
      <4>1. Home(file.body, v, i) = 0
        <5>1. o - 1 \in 0 .. Len(file.body)
          BY <1>1, <1>2
        <5> QED BY <1>6, <3>3, <5>1, HomeAtLeast
      <4>2. <<v, 0>> \in Execution(file, out)[i]
        BY <1>3, <4>1 DEF Holds
      <4>3. i \in 0 .. Len(file.body)
        BY <1>1
      <4>4. PICK q \in 1 .. i : Used(file, v, q) /\ D(q) = 0
        BY <3>3, <4>2, <4>3, Rooted, Zenon
      <4>5. D(i) \in Nat
        BY <4>3, Nesting
      <4>6. q \in Nat /\ q # i /\ ~(q \in o .. i - 1)
        BY <1>1, <1>2, <4>4, <4>5 DEF Used
      <4>7. q \in 1 .. o - 1
        BY <1>1, <1>2, <4>6
      <4>8. Around(file.body, q, o - 1)
        <5>1. \A k \in q .. o - 1 : k \in 0 .. Len(file.body)
          BY <1>1, <1>2, <4>7
        <5>2. \A k \in q .. o - 1 : D(k) \in Nat
          BY <5>1, Nesting
        <5> QED BY <4>4, <5>2 DEF Around
      <4> QED BY <4>4, <4>7, <4>8, InUseIs
    <3> QED BY <3>1, <3>2, <3>3
  <2>7. v \in Environments(file)[o - 1].known
    <3>1. o - 1 \in 0 .. Len(file.body)
      BY <1>1, <1>2
    <3> QED BY <2>6, <3>1, KnownInUse
  <2> QED BY <1>10, <2>5, <2>7, TreeMoves
<1> QED BY <1>8, <1>9, <1>10

LEMMA TreeCompleteAlways ==
    ASSUME NEW file \in SourceFile, FirstOutside(file, FALSE), ~HiddenLater(file), ~StoresResult(file)
    PROVE  \A i \in 0 .. Len(file.body) : TreeComplete(file, i)
<1> DEFINE S == {i \in 0 .. Len(file.body) : \A k \in 0 .. i : TreeComplete(file, k)}
<1>1. Len(file.body) \in Nat
  BY FileIs
<1>2. 0 \in S
  <2>1. \A k \in 0 .. 0 : k = 0
    OBVIOUS
  <2>2. ASSUME NEW out, NEW v, Holds(file.body, Execution(file, out)[0], v, 0)
        PROVE  v \in Environments(file)[0].tainted
    <3>1. Execution(file, out)[0] = file.params \X {0}
      BY <1>1, ExecutionIs
    <3>2. v \in file.params
      BY <2>2, <3>1 DEF Holds
    <3>3. Environments(file)[0] = [known |-> file.params, tainted |-> file.params]
      BY TreeIs
    <3>4. Environments(file)[0].tainted = file.params
      BY <3>3
    <3> QED BY <3>2, <3>4
  <2>3. TreeComplete(file, 0)
    BY <2>2 DEF TreeComplete
  <2> QED BY <1>1, <2>1, <2>3
<1>3. ASSUME NEW i \in 1 .. Len(file.body), i - 1 \in S PROVE i \in S
  <2>1. \A k \in 0 .. i - 1 : TreeComplete(file, k)
    BY <1>3
  <2>2. i - 1 \in 0 .. i - 1
    BY <1>1
  <2>3. TreeComplete(file, i)
    <3>1. CASE file.body[i].op = "close"
      <4>1. Opening(file.body, i) - 1 \in 0 .. i - 1
        BY <1>1, <3>1, OpeningIs
      <4> QED BY <2>1, <2>2, <3>1, <4>1, TreeCompleteClose, Zenon
    <3>2. CASE file.body[i].op # "close"
      BY <2>1, <2>2, <3>2, TreeCompleteStep
    <3> QED BY <3>1, <3>2
  <2> QED BY <1>1, <2>1, <2>3
<1>4. \A i \in 0 .. Len(file.body) : i \in S
  <2> HIDE DEF S
  <2> QED BY <1>1, <1>2, <1>3, Climb
<1> QED BY <1>1, <1>4

LEMMA AstComplete ==
    ASSUME NEW file \in SourceFile, FirstOutside(file, FALSE), ~HiddenLater(file), ~StoresResult(file)
    PROVE  {i \in Reached(file, AnyBlocks(file.body)) : file.body[i].op = "sink"} \subseteq AstSites(file)
<1>1. Len(file.body) \in Nat /\ DOMAIN file.body = 1 .. Len(file.body)
  BY FileIs
<1>2. SUFFICES ASSUME NEW i \in 1 .. Len(file.body), i \in Reached(file, AnyBlocks(file.body)),
                      file.body[i].op = "sink"
               PROVE  i \in AstSites(file)
  BY <1>1 DEF Reached
<1>3. PICK out \in AnyBlocks(file.body) :
         ~PassedOver(file.body, out, i) /\ Arrives(file, Execution(file, out)[i - 1], i)
  BY <1>2 DEF Reached
<1>4. Holds(file.body, Execution(file, out)[i - 1], file.body[i].v, i - 1)
  BY <1>2, <1>3 DEF Arrives, AtSink
<1>5. Free(file.body, out, i - 1)
  BY <1>2, <1>3, FreePasses
<1>6. i - 1 \in 0 .. Len(file.body)
  BY <1>1
<1>7. TreeComplete(file, i - 1)
  BY <1>6, TreeCompleteAlways, Zenon
<1>8. file.body[i].v \in Environments(file)[i - 1].tainted
  BY <1>4, <1>5, <1>7 DEF TreeComplete
<1> QED BY <1>1, <1>2, <1>8 DEF AstSites

-----------------------------------------------------------------------------
(***************************************************************************)
(* Summaries.                                                              *)
(***************************************************************************)
LEMMA ValuesFinite ==
    ASSUME NEW f, IsFiniteSet(DOMAIN f)
    PROVE  IsFiniteSet({f[x] : x \in DOMAIN f})
<1> DEFINE g == [x \in DOMAIN f |-> f[x]]
           T == {f[x] : x \in DOMAIN f}
<1>1. g \in Surjection(DOMAIN f, T)
  BY DEF Surjection
<1> HIDE DEF g, T
<1>2. IsFiniteSet(T)
  BY <1>1, FS_Surjection
<1> QED BY <1>2 DEF T

LEMMA SomeOfThem ==
    ASSUME NEW S, IsFiniteSet(S), NEW n \in Nat, n <= Cardinality(S)
    PROVE  \E T \in SUBSET S : Cardinality(T) = n
<1>1. Cardinality(S) \in Nat
  BY FS_CardinalityType
<1>2. PICK f \in Bijection(1 .. Cardinality(S), S) : TRUE
  BY FS_CardinalityType DEF ExistsBijection
<1> DEFINE T == {f[i] : i \in 1 .. n}
           g == [i \in 1 .. n |-> f[i]]
<1>3. /\ f \in [1 .. Cardinality(S) -> S]
      /\ \A a, b \in 1 .. Cardinality(S) : f[a] = f[b] => a = b
  BY <1>2 DEF Bijection, Injection, Surjection, IsInjective
<1>4. \A i \in 1 .. n : i \in 1 .. Cardinality(S)
  BY <1>1
<1>5. g \in Bijection(1 .. n, T)
  BY <1>3, <1>4 DEF Bijection, Injection, Surjection, IsInjective
<1>6. T \in SUBSET S
  BY <1>3, <1>4
<1>7. ExistsBijection(1 .. n, T)
  <2> HIDE DEF T, g
  <2> QED BY <1>5 DEF ExistsBijection
<1>8. Cardinality(T) = n
  <2> HIDE DEF T
  <2> QED BY <1>7, FS_CountingElements
<1> QED BY <1>6, <1>8

LEMMA SomeIs ==
    ASSUME NEW new, IsFiniteSet(new), NEW room \in Nat
    PROVE  /\ Some(new, room) \subseteq new
           /\ IsFiniteSet(Some(new, room))
           /\ Cardinality(Some(new, room)) \in Nat
           /\ Cardinality(Some(new, room)) <= room
           /\ Cardinality(new) <= room => Some(new, room) = new
           /\ ~(Cardinality(new) <= room) => Cardinality(Some(new, room)) = room
<1>1. Cardinality(new) \in Nat
  BY FS_CardinalityType
<1>2. CASE Cardinality(new) <= room
  BY <1>1, <1>2 DEF Some
<1>3. CASE ~(Cardinality(new) <= room)
  <2>1. \E T \in SUBSET new : Cardinality(T) = room
    BY <1>1, <1>3, SomeOfThem
  <2>2. Some(new, room) = CHOOSE T \in SUBSET new : Cardinality(T) = room
    BY <1>3 DEF Some
  <2>3. Some(new, room) \in SUBSET new /\ Cardinality(Some(new, room)) = room
    BY <2>1, <2>2
  <2> QED BY <1>3, <2>3, FS_Subset
<1> QED BY <1>2, <1>3

LEMMA MethodIs ==
    ASSUME NEW methods \in Seq(MethodDeclaration)
    PROVE  /\ Len(methods) \in Nat /\ DOMAIN methods = 1 .. Len(methods)
           /\ Range(methods) = {methods[i] : i \in 1 .. Len(methods)}
           /\ \A m \in Range(methods) :
                /\ m \in MethodDeclaration
                /\ m.arity \in Nat /\ m.sinks \subseteq 1 .. m.arity
                /\ \A call \in m.calls : \A handed \in call.passes : handed[1] \in 1 .. m.arity
<1>1. Len(methods) \in Nat /\ DOMAIN methods = 1 .. Len(methods)
  OBVIOUS
<1>2. Range(methods) = {methods[i] : i \in 1 .. Len(methods)}
  BY <1>1 DEF Range
<1>3. ASSUME NEW m \in Range(methods)
      PROVE  /\ m \in MethodDeclaration
             /\ m.arity \in Nat /\ m.sinks \subseteq 1 .. m.arity
             /\ \A call \in m.calls : \A handed \in call.passes : handed[1] \in 1 .. m.arity
  <2>1. m \in MethodDeclaration
    BY <1>1, <1>2
  <2>2. /\ m.arity \in Nat /\ m.sinks \subseteq 1 .. m.arity
        /\ \A call \in m.calls : call.passes \subseteq (1 .. m.arity) \X (1 .. call.arity)
    BY <2>1 DEF MethodDeclaration
  <2> QED BY <2>1, <2>2
<1> QED BY <1>1, <1>2, <1>3

LEMMA CarriersFinite ==
    ASSUME NEW methods \in Seq(MethodDeclaration)
    PROVE  IsFiniteSet(Carriers(methods))
<1> DEFINE Of(m) == {Carrier(m, p) : p \in 1 .. m.arity}
           f == [i \in 1 .. Len(methods) |-> Of(methods[i])]
<1>1. ASSUME NEW m \in Range(methods) PROVE IsFiniteSet(Of(m))
  <2> DEFINE c == [p \in 1 .. m.arity |-> Carrier(m, p)]
  <2>0. m.arity \in Nat
    BY MethodIs
  <2>1. DOMAIN c = 1 .. m.arity /\ IsFiniteSet(1 .. m.arity)
    BY <2>0, FS_Interval
  <2>2. IsFiniteSet({c[p] : p \in DOMAIN c})
    <3> HIDE DEF c
    <3> QED BY <2>1, ValuesFinite
  <2>3. {c[p] : p \in DOMAIN c} = Of(m)
    OBVIOUS
  <2> QED BY <2>2, <2>3
<1>2. DOMAIN f = 1 .. Len(methods) /\ IsFiniteSet(1 .. Len(methods))
  BY MethodIs, FS_Interval
<1>3. IsFiniteSet({f[i] : i \in DOMAIN f})
  <2> HIDE DEF f
  <2> QED BY <1>2, ValuesFinite
<1>4. {f[i] : i \in DOMAIN f} = {Of(m) : m \in Range(methods)}
  <2> HIDE DEF Of
  <2> QED BY MethodIs
<1>5. IsFiniteSet({Of(m) : m \in Range(methods)}) /\ \A T \in {Of(m) : m \in Range(methods)} : IsFiniteSet(T)
  BY <1>1, <1>3, <1>4
<1>6. IsFiniteSet(UNION {Of(m) : m \in Range(methods)})
  <2> HIDE DEF Of
  <2> QED BY <1>5, FS_UNION
<1> QED BY <1>6 DEF Carriers

\* Summaries that are true and within the limit.
Summarised(methods, known) ==
    /\ \A e \in known : Carried(methods, e)
    /\ IsFiniteSet(known) /\ Cardinality(known) <= MaxSummaries

LEMMA CarriedIsCarrier ==
    ASSUME NEW methods \in Seq(MethodDeclaration)
    PROVE  /\ Direct(methods) \subseteq Carriers(methods)
           /\ IsFiniteSet(Direct(methods))
           /\ \A e \in Direct(methods) : Carried(methods, e)
           /\ \A e : Carried(methods, e) => e \in Carriers(methods)
<1>1. Direct(methods) \subseteq Carriers(methods)
  BY MethodIs DEF Direct, Carriers
<1>2. Closed(methods, Carriers(methods))
  BY MethodIs DEF Closed, Carriers
<1>3. \A e \in Direct(methods) : Carried(methods, e)
  BY DEF Carried
<1>4. \A e : Carried(methods, e) => e \in Carriers(methods)
  BY <1>1, <1>2 DEF Carried
<1>5. IsFiniteSet(Direct(methods))
  BY <1>1, CarriersFinite, FS_Subset
<1> QED BY <1>1, <1>3, <1>4, <1>5

LEMMA ForwardedIsCarried ==
    ASSUME NEW methods, NEW m \in Range(methods), NEW known, \A e \in known : Carried(methods, e)
    PROVE  \A e \in Forwarded(m, known) : Carried(methods, e)
<1>1. SUFFICES ASSUME NEW e \in Forwarded(m, known), NEW S \in SUBSET Carriers(methods),
                      Direct(methods) \subseteq S, Closed(methods, S)
               PROVE  e \in S
  BY DEF Carried
<1>2. PICK call \in m.calls : \E handed \in call.passes :
         Callee(m, call, handed[2]) \in known /\ e = Carrier(m, handed[1])
  BY <1>1 DEF Forwarded
<1>3. PICK handed \in call.passes : Callee(m, call, handed[2]) \in known /\ e = Carrier(m, handed[1])
  BY <1>2
<1>4. Callee(m, call, handed[2]) \in S
  BY <1>1, <1>3 DEF Carried
<1> QED BY <1>1, <1>3, <1>4 DEF Closed

LEMMA OneMethodIs ==
    ASSUME NEW methods \in Seq(MethodDeclaration), NEW i \in 1 .. Len(methods), NEW all,
           Summarised(methods, all)
    PROVE  /\ Summarised(methods, OneMethod(methods, all, i))
           /\ all \subseteq OneMethod(methods, all, i)
           /\ OneMethod(methods, all, i) = all /\ Single(methods, methods[i]) =>
                \/ Cardinality(all) = MaxSummaries
                \/ Forwarded(methods[i], all) \subseteq all
<1> DEFINE new == Forwarded(methods[i], all) \ all
           room == MaxSummaries - Cardinality(all)
           some == Some(new, room)
<1>1. methods[i] \in Range(methods)
  BY MethodIs
<1>2. MaxSummaries \in Nat
  BY SourceInputs
<1>3. IsFiniteSet(all) /\ Cardinality(all) \in Nat /\ room \in Nat
  BY <1>2, FS_CardinalityType DEF Summarised
<1>4. \A e \in new : Carried(methods, e)
  BY <1>1, ForwardedIsCarried DEF Summarised
<1>5. IsFiniteSet(new)
  <2>1. new \in SUBSET Carriers(methods)
    <3> HIDE DEF new
    <3> QED BY <1>4, CarriedIsCarrier
  <2> HIDE DEF new
  <2> QED BY <2>1, CarriersFinite, FS_Subset
<1>6. /\ some \subseteq new /\ IsFiniteSet(some) /\ Cardinality(some) \in Nat /\ Cardinality(some) <= room
      /\ Cardinality(new) <= room => some = new
      /\ ~(Cardinality(new) <= room) => Cardinality(some) = room
  <2> HIDE DEF new, room
  <2> QED BY <1>3, <1>5, SomeIs
<1>7. Summarised(methods, all \cup some)
  <2>1. all \cap some = {}
    BY <1>6
  <2>2. Cardinality(all \cap some) = 0
    BY <2>1, FS_EmptySet
  <2>3. /\ IsFiniteSet(all \cup some)
        /\ Cardinality(all \cup some) = Cardinality(all) + Cardinality(some) - Cardinality(all \cap some)
    <3> HIDE DEF some
    <3> QED BY <1>3, <1>6, FS_Union
  <2>4. Cardinality(all \cup some) <= MaxSummaries
    <3> HIDE DEF some
    <3> QED BY <1>2, <1>3, <1>6, <2>2, <2>3
  <2>5. \A e \in all \cup some : Carried(methods, e)
    BY <1>4, <1>6 DEF Summarised
  <2> HIDE DEF some
  <2> QED BY <2>3, <2>4, <2>5 DEF Summarised
<1>8. OneMethod(methods, all, i) = IF Single(methods, methods[i]) THEN all \cup some ELSE all
  BY DEF OneMethod, RoomFor
<1>9. ASSUME all \cup some = all PROVE Cardinality(all) = MaxSummaries \/ Forwarded(methods[i], all) \subseteq all
  <2>1. some = {}
    BY <1>6, <1>9
  <2>2. Cardinality(some) = 0
    BY <2>1, FS_EmptySet
  <2>3. CASE Cardinality(new) <= room
    BY <1>6, <2>1, <2>3
  <2>4. CASE ~(Cardinality(new) <= room)
    <3>1. room = 0
      BY <1>6, <2>2, <2>4
    <3> QED BY <1>2, <1>3, <3>1
  <2> QED BY <2>3, <2>4
<1> HIDE DEF some
<1> QED BY <1>7, <1>8, <1>9

LEMMA RoundsGrow ==
    ASSUME NEW methods \in Seq(MethodDeclaration), NEW known, Summarised(methods, known)
    PROVE  /\ \A i \in 0 .. Len(methods) : Summarised(methods, Rounds(methods, known)[i])
           /\ \A i \in 1 .. Len(methods) : Rounds(methods, known)[i - 1] \subseteq Rounds(methods, known)[i]
           /\ \A i \in 0 .. Len(methods) : known \subseteq Rounds(methods, known)[i]
<1> DEFINE R(i) == Rounds(methods, known)[i]
           S == {i \in 0 .. Len(methods) : Summarised(methods, R(i)) /\ known \subseteq R(i)}
<1>1. Len(methods) \in Nat
  BY MethodIs
<1>2. R(0) = known /\ \A i \in 1 .. Len(methods) : R(i) = OneMethod(methods, R(i - 1), i)
  BY <1>1, RoundsAre
<1> HIDE DEF R
<1>3. 0 \in S
  BY <1>1, <1>2
<1>4. ASSUME NEW i \in 1 .. Len(methods), i - 1 \in S PROVE i \in S
  <2>1. Summarised(methods, R(i)) /\ R(i - 1) \subseteq R(i)
    BY <1>2, <1>4, OneMethodIs
  <2> QED BY <1>1, <1>4, <2>1
<1>5. \A i \in 0 .. Len(methods) : i \in S
  <2> HIDE DEF S
  <2> QED BY <1>1, <1>3, <1>4, Climb
<1>6. ASSUME NEW i \in 1 .. Len(methods) PROVE R(i - 1) \subseteq R(i)
  <2>1. i - 1 \in S
    BY <1>1, <1>5
  <2> QED BY <1>2, <2>1, OneMethodIs
<1> QED BY <1>5, <1>6 DEF R

LEMMA RoundGrows ==
    ASSUME NEW methods \in Seq(MethodDeclaration), NEW known, Summarised(methods, known)
    PROVE  Summarised(methods, Round(methods, known)) /\ known \subseteq Round(methods, known)
<1>1. Len(methods) \in 0 .. Len(methods)
  BY MethodIs
<1> QED BY <1>1, RoundsGrow, RoundIs

LEMMA RoundStays ==
    ASSUME NEW methods \in Seq(MethodDeclaration), NEW known, Summarised(methods, known),
           Round(methods, known) = known
    PROVE  \A i \in 1 .. Len(methods) : OneMethod(methods, known, i) = known
<1> DEFINE R(i) == Rounds(methods, known)[i]
           n == Len(methods)
           S == {m \in 0 .. n : R(n - m) \subseteq known}
<1>1. n \in Nat
  BY MethodIs
<1>2. /\ \A i \in 1 .. n : R(i - 1) \subseteq R(i)
      /\ \A i \in 0 .. n : known \subseteq R(i)
  BY RoundsGrow
<1>3. R(n) = known
  BY RoundIs
<1>4. \A i \in 1 .. n : R(i) = OneMethod(methods, R(i - 1), i)
  BY <1>1, RoundsAre
<1> HIDE DEF R, n
<1>5. 0 \in S
  <2>1. n - 0 = n
    BY <1>1
  <2> QED BY <1>1, <1>3, <2>1
<1>6. ASSUME NEW m \in 1 .. n, m - 1 \in S PROVE m \in S
  <2>1. n - (m - 1) \in 1 .. n /\ (n - (m - 1)) - 1 = n - m /\ m \in 0 .. n
    BY <1>1
  <2>2. R(n - m) \subseteq R(n - (m - 1))
    BY <1>2, <2>1
  <2>3. R(n - (m - 1)) \subseteq known
    BY <1>6
  <2> QED BY <2>1, <2>2, <2>3
<1>7. \A m \in 0 .. n : m \in S
  <2> HIDE DEF S
  <2> QED BY <1>1, <1>5, <1>6, Climb
<1>8. ASSUME NEW i \in 0 .. n PROVE R(i) = known
  <2>1. n - i \in 0 .. n /\ n - (n - i) = i
    BY <1>1
  <2>2. n - i \in S
    BY <1>7, <2>1
  <2>3. R(n - (n - i)) \subseteq known
    BY <2>2
  <2> QED BY <1>2, <2>1, <2>3
<1>9. ASSUME NEW i \in 1 .. n PROVE OneMethod(methods, known, i) = known
  <2>1. i \in 0 .. n /\ i - 1 \in 0 .. n
    BY <1>1
  <2>2. R(i) = known /\ R(i - 1) = known
    BY <1>8, <2>1
  <2> QED BY <1>4, <2>2
<1> QED BY <1>9 DEF n

LEMMA SingleAll ==
    ASSUME NEW file \in SourceFile, ~Overloaded(file), NEW e
    PROVE  Single(file.methods, e)
BY DEF Overloaded, Single

\* A round that adds nothing, though there was room, has followed every call.
LEMMA FixedIsClosed ==
    ASSUME NEW file \in SourceFile, ~Overloaded(file), ~Turns(file), NEW known,
           Summarised(file.methods, known), Round(file.methods, known) = known, ~NoRoom(file.methods, known)
    PROVE  Closed(file.methods, known)
<1> DEFINE ms == file.methods
<1>1. ms \in Seq(MethodDeclaration)
  BY DEF SourceFile
<1>2. SUFFICES ASSUME NEW m \in Range(ms), NEW call \in m.calls, NEW handed \in call.passes,
                      Callee(m, call, handed[2]) \in known
               PROVE  Carrier(m, handed[1]) \in known
  BY DEF Closed
<1>3. PICK i \in 1 .. Len(ms) : m = ms[i]
  BY <1>1, MethodIs
<1>4. Single(ms, ms[i])
  BY SingleAll
<1>5. OneMethod(ms, known, i) = known
  BY <1>1, RoundStays
<1>6. Cardinality(known) = MaxSummaries \/ Forwarded(ms[i], known) \subseteq known
  BY <1>1, <1>4, <1>5, OneMethodIs
<1>7. Forwarded(m, known) \subseteq known
  BY <1>3, <1>4, <1>6 DEF NoRoom
<1>8. CASE call.name # m.name
  <2>1. Carrier(m, handed[1]) \in Forwarded(m, known)
    BY <1>2, <1>8 DEF Forwarded
  <2> QED BY <1>7, <2>1
<1>9. CASE call.name = m.name /\ call.arity = m.arity
  <2>1. handed[1] = handed[2]
    BY <1>9 DEF Turns
  <2>2. Carrier(m, handed[1]) = Callee(m, call, handed[2])
    BY <1>9, <2>1 DEF Carrier, Callee
  <2> QED BY <1>2, <2>2
<1>10. CASE call.name = m.name /\ call.arity # m.arity
  <2>1. Callee(m, call, handed[2]) \in Carriers(ms)
    BY <1>1, <1>2, CarriedIsCarrier DEF Summarised
  <2>2. PICK other \in Range(ms) : \E p \in 1 .. other.arity : Callee(m, call, handed[2]) = Carrier(other, p)
    BY <2>1 DEF Carriers
  <2>3. other.name = m.name /\ other.owner = m.owner /\ other.arity # m.arity
    BY <1>10, <2>2 DEF Callee, Carrier
  <2>4. PICK j \in 1 .. Len(ms) : other = ms[j]
    BY <1>1, MethodIs
  <2>5. i # j
    BY <1>3, <2>3, <2>4
  <2>6. DOMAIN ms = 1 .. Len(ms)
    BY <1>1, MethodIs
  <2> QED BY <1>3, <2>3, <2>4, <2>5, <2>6 DEF Overloaded
<1> QED BY <1>8, <1>9, <1>10

\* What the two readings find of a file whose summaries are exact is what is claimed.
LEMMA ReadingFollows ==
    ASSUME NEW file \in SourceFile, NEW known, NEW parses \in BOOLEAN, NEW found,
           Summarised(file.methods, known),
           ~Overloaded(file) => Direct(file.methods) \subseteq known,
           ~Overloaded(file) /\ ~Turns(file) => Closed(file.methods, known),
           found = LexicalSites(file, known) \cup (IF parses THEN AstSites(file) ELSE {})
    PROVE  Followed(file, found, parses)
<1> DEFINE all == Reached(file, EveryBlock)
           some == {i \in Reached(file, AnyBlocks(file.body)) : file.body[i].op = "sink"}
           lexical == LexicalSites(file, known)
           ast == AstSites(file)
<1>1. file.methods \in Seq(MethodDeclaration)
  BY DEF SourceFile
<1>2. ~HiddenUnvalued(file) => lexical \subseteq all
  BY LexicalSound DEF Summarised
<1>3. ast \subseteq some
  BY AstSound
<1>4. ASSUME FirstOutside(file, TRUE), ~HiddenUnvalued(file), ~StoresResult(file), ~Overloaded(file), ~Turns(file)
      PROVE  all \subseteq lexical
  <2>1. known \in SUBSET Carriers(file.methods)
    BY <1>1, CarriedIsCarrier DEF Summarised
  <2>2. Direct(file.methods) \subseteq known /\ Closed(file.methods, known)
    BY <1>4
  <2>3. \A e : Carried(file.methods, e) => e \in known
    BY <2>1, <2>2 DEF Carried
  <2> QED BY <1>4, <2>3, LexicalComplete, Zenon
<1>5. ASSUME FirstOutside(file, FALSE), ~HiddenLater(file), ~StoresResult(file) PROVE some \subseteq ast
  BY <1>5, AstComplete, Zenon
<1>6. found = lexical \cup (IF parses THEN ast ELSE {})
  OBVIOUS
<1> HIDE DEF all, some, lexical, ast
<1>7. ~HiddenUnvalued(file) => found \subseteq all \cup (IF parses THEN some ELSE {})
  BY <1>2, <1>3, <1>6
<1>8. FirstOutside(file, TRUE) /\ ~HiddenUnvalued(file) /\ ~StoresResult(file)
        /\ ~Overloaded(file) /\ ~Turns(file) => all \subseteq found
  <2>1. lexical \subseteq found
    BY <1>6
  <2> QED BY <1>4, <2>1, Zenon
<1>9. parses /\ FirstOutside(file, FALSE) /\ ~HiddenLater(file) /\ ~StoresResult(file) => some \subseteq found
  <2>1. parses => ast \subseteq found
    BY <1>6
  <2> QED BY <1>5, <2>1, Zenon
<1> QED BY <1>7, <1>8, <1>9, Zenon DEF Followed, all, some

-----------------------------------------------------------------------------
(***************************************************************************)
(* The directory.                                                          *)
(***************************************************************************)
\* What was reported of a file.
ReportedIn(n) == {i \in DOMAIN sources[n].body : <<n, i>> \in reports}

\* The summaries of the file that is read are true, and all of them as far as
\* nothing was left out.
SummariesTold ==
    /\ Summarised(File.methods, summaries)
    /\ limits = {} /\ ~Overloaded(File) => Direct(File.methods) \subseteq summaries
    /\ step = "statements" /\ limits = {} /\ ~Overloaded(File) /\ ~Turns(File) => Closed(File.methods, summaries)

SourceInv ==
    /\ sources \in Seq(SourceFile)
    /\ number \in 1 .. Len(sources) + 1 /\ step \in {"read", "forward", "statements"}
    /\ rounds \in 0 .. MaxRounds /\ (step = "forward" => rounds < MaxRounds)
    /\ IsFiniteSet(summaries) /\ Cardinality(summaries) <= MaxSummaries
    /\ IsFiniteSet(reports) /\ Cardinality(reports) <= MaxCandidates
    /\ \A r \in reports : r[1] \in 1 .. number - 1
    /\ parsed \subseteq 1 .. number - 1 /\ failures \subseteq 1 .. number - 1 /\ parsed \cap failures = {}
    /\ claimed \in {"none", "partial", "analyzed"}
    /\ claimed # "none" => step = "read" /\ number > Len(sources)
    /\ claimed = "analyzed" => limits = {} /\ failures = {}
    /\ step # "read" => number <= Len(sources) /\ SummariesTold
    /\ limits = {} /\ failures = {} =>
         \A n \in 1 .. number - 1 : n \in DOMAIN sources => Followed(sources[n], ReportedIn(n), n \in parsed)

LEMMA SourceFileIs ==
    ASSUME sources \in Seq(SourceFile), number \in 1 .. Len(sources)
    PROVE  /\ File \in SourceFile /\ File.methods \in Seq(MethodDeclaration) /\ Len(File.methods) \in Nat
           /\ Len(sources) \in Nat /\ DOMAIN sources = 1 .. Len(sources)
<1>1. Len(sources) \in Nat /\ DOMAIN sources = 1 .. Len(sources)
  OBVIOUS
<1>2. File \in SourceFile
  BY <1>1 DEF File
<1>3. File.methods \in Seq(MethodDeclaration)
  BY <1>2 DEF SourceFile
<1> QED BY <1>1, <1>2, <1>3

LEMMA SourceStarts == stInit => SourceInv
<1>1. SUFFICES ASSUME stInit PROVE SourceInv
  OBVIOUS
<1>2. PICK files \in Directories : stStart(files)
  BY <1>1 DEF stInit
<1>3. files \in Seq(SourceFile) /\ MaxSummaries \in Nat /\ MaxRounds \in Nat \ {0} /\ MaxCandidates \in Nat
  BY SourceInputs
<1>4. /\ sources = files /\ number = 1 /\ step = "read" /\ summaries = {} /\ rounds = 0
      /\ reports = {} /\ parsed = {} /\ limits = {} /\ failures = {} /\ claimed = "none"
  BY <1>2 DEF stStart
<1>5. IsFiniteSet({}) /\ Cardinality({}) = 0
  BY FS_EmptySet
<1>6. Len(sources) \in Nat
  BY <1>3, <1>4
<1>7. 1 .. number - 1 = {}
  BY <1>4
<1> QED BY <1>3, <1>4, <1>5, <1>6, <1>7 DEF SourceInv

LEMMA SourceReads == ASSUME SourceInv, Read PROVE SourceInv'
<1> DEFINE direct == Direct(File.methods)
           some == Some(direct, MaxSummaries)
<1>1. /\ step = "read" /\ number <= Len(sources) /\ summaries' = {e \in some : Single(File.methods, e)}
      /\ rounds' = 0
      /\ sources' = sources /\ number' = number /\ reports' = reports /\ parsed' = parsed
      /\ failures' = failures /\ claimed' = claimed
      /\ step' \in {"statements", "forward"} /\ limits \subseteq limits'
      /\ ~(Cardinality(direct) >= MaxSummaries) => limits' = limits /\ step' = "forward"
      /\ Cardinality(direct) >= MaxSummaries => limits' # {}
  BY DEF Read
<1>2. number \in 1 .. Len(sources) /\ sources \in Seq(SourceFile)
  BY <1>1 DEF SourceInv
<1>3. File \in SourceFile /\ File.methods \in Seq(MethodDeclaration)
  BY <1>2, SourceFileIs
<1>4. MaxSummaries \in Nat /\ MaxRounds \in Nat \ {0}
  BY SourceInputs
<1>5. IsFiniteSet(direct) /\ \A e \in direct : Carried(File.methods, e)
  BY <1>3, CarriedIsCarrier
<1>6. /\ some \subseteq direct /\ IsFiniteSet(some) /\ Cardinality(some) \in Nat
      /\ Cardinality(some) <= MaxSummaries
      /\ Cardinality(direct) <= MaxSummaries => some = direct
  <2> HIDE DEF direct
  <2> QED BY <1>4, <1>5, SomeIs
<1>7. File' = File
  BY <1>1 DEF File
<1> HIDE DEF some, direct
<1>8. Summarised(File.methods, summaries')
  <2>1. summaries' \subseteq some
    BY <1>1
  <2>2. IsFiniteSet(summaries') /\ Cardinality(summaries') <= Cardinality(some)
    BY <1>6, <2>1, FS_Subset
  <2>3. Cardinality(summaries') \in Nat
    BY <2>2, FS_CardinalityType
  <2>4. Cardinality(summaries') <= MaxSummaries
    BY <1>4, <1>6, <2>2, <2>3
  <2>5. \A e \in summaries' : Carried(File.methods, e)
    BY <1>5, <1>6, <2>1
  <2> QED BY <2>2, <2>4, <2>5 DEF Summarised
<1>9. ASSUME limits' = {}, ~Overloaded(File) PROVE direct \subseteq summaries'
  <2>1. Cardinality(direct) \in Nat
    BY <1>5, FS_CardinalityType
  <2>2. Cardinality(direct) <= MaxSummaries
    BY <1>1, <1>4, <1>9, <2>1
  <2>3. some = direct
    BY <1>6, <2>2
  <2>4. \A e \in some : Single(File.methods, e)
    BY <1>3, <1>9, SingleAll
  <2> QED BY <1>1, <2>3, <2>4
<1>10. limits' = {} => step' # "statements" /\ limits = {}
  BY <1>1
<1>11. SummariesTold'
  BY <1>7, <1>8, <1>9, <1>10 DEF SummariesTold, direct
<1>12. IsFiniteSet(summaries') /\ Cardinality(summaries') <= MaxSummaries
  BY <1>8 DEF Summarised
<1>13. \A n : ReportedIn(n)' = ReportedIn(n)
  BY <1>1 DEF ReportedIn
<1>14. claimed = "none"
  BY <1>1, <1>2 DEF SourceInv
<1> QED BY <1>1, <1>2, <1>4, <1>10, <1>11, <1>12, <1>13, <1>14 DEF SourceInv

LEMMA LastRound ==
    ASSUME NEW n \in Nat, NEW done \in Nat
    PROVE  ~(done + 1 >= Min({n, MaxRounds})) => done + 1 < MaxRounds
<1> DEFINE S == {n, MaxRounds}
<1>1. MaxRounds \in Nat
  BY SourceInputs
<1>2. S \in SUBSET Nat /\ S # {}
  BY <1>1
<1>3. \E x \in S : \A y \in S : x <= y
  <2> HIDE DEF S
  <2> QED BY <1>2, Least
<1>4. Min(S) \in S /\ \A y \in S : Min(S) <= y
  <2> HIDE DEF S
  <2> QED BY <1>3 DEF Min
<1>5. Min(S) <= MaxRounds /\ Min(S) \in Nat
  BY <1>1, <1>4
<1> HIDE DEF S
<1>6. ~(done + 1 >= Min(S)) => done + 1 < MaxRounds
  BY <1>1, <1>5
<1> QED BY <1>6 DEF S

LEMMA SourceForwards == ASSUME SourceInv, Forward PROVE SourceInv'
<1> DEFINE after == Round(File.methods, summaries)
           last == rounds + 1 >= Min({Len(File.methods), MaxRounds})
           noted == (IF after # summaries /\ last THEN {"summary_rounds"} ELSE {})
                      \cup (IF NoRoom(File.methods, after) THEN {"summary_count"} ELSE {})
<1>1. /\ step = "forward" /\ summaries' = after /\ limits' = limits \cup noted
      /\ step' = IF after = summaries \/ last THEN "statements" ELSE "forward"
      /\ rounds' = rounds + 1
      /\ sources' = sources /\ number' = number /\ reports' = reports /\ parsed' = parsed
      /\ failures' = failures /\ claimed' = claimed
  BY DEF Forward
<1>2. number \in 1 .. Len(sources) /\ sources \in Seq(SourceFile) /\ rounds \in Nat /\ rounds < MaxRounds
  BY <1>1 DEF SourceInv
<1>3. File \in SourceFile /\ File.methods \in Seq(MethodDeclaration) /\ Len(File.methods) \in Nat
  BY <1>2, SourceFileIs
<1>4. MaxRounds \in Nat \ {0}
  BY SourceInputs
<1>5. SummariesTold
  BY <1>1 DEF SourceInv
<1>6. Summarised(File.methods, after) /\ summaries \subseteq after
  BY <1>3, <1>5, RoundGrows DEF SummariesTold
<1>7. File' = File
  BY <1>1 DEF File
<1>8. limits' = {} => /\ limits = {} /\ ~NoRoom(File.methods, after)
                      /\ last => after = summaries
  BY <1>1
<1>9. step' = "statements" /\ limits' = {} => after = summaries
  BY <1>1, <1>8
<1>10. step' # "statements" => step' = "forward" /\ rounds' < MaxRounds
  <2>1. ~last => rounds + 1 < MaxRounds
    BY <1>2, <1>3, LastRound
  <2> HIDE DEF last
  <2> QED BY <1>1, <2>1
<1> HIDE DEF noted, last, after
<1>11. limits' = {} /\ ~Overloaded(File) => Direct(File.methods) \subseteq summaries'
  BY <1>1, <1>5, <1>6, <1>8 DEF SummariesTold
<1>12. step' = "statements" /\ limits' = {} /\ ~Overloaded(File) /\ ~Turns(File) => Closed(File.methods, summaries')
  <2>1. SUFFICES ASSUME step' = "statements", limits' = {}, ~Overloaded(File), ~Turns(File)
                 PROVE  Closed(File.methods, summaries')
    OBVIOUS
  <2>2. after = summaries /\ summaries' = summaries
    BY <1>1, <1>9, <2>1
  <2>3. Round(File.methods, summaries) = summaries /\ ~NoRoom(File.methods, summaries)
    BY <1>8, <2>1, <2>2 DEF after
  <2>4. Summarised(File.methods, summaries)
    BY <1>5 DEF SummariesTold
  <2>5. Closed(File.methods, summaries)
    BY <1>3, <2>1, <2>3, <2>4, FixedIsClosed
  <2> QED BY <2>2, <2>5
<1>13. SummariesTold'
  BY <1>1, <1>6, <1>7, <1>11, <1>12 DEF SummariesTold
<1>14. IsFiniteSet(summaries') /\ Cardinality(summaries') <= MaxSummaries
  BY <1>1, <1>6 DEF Summarised
<1>15. \A n : ReportedIn(n)' = ReportedIn(n)
  BY <1>1 DEF ReportedIn
<1>16. claimed = "none"
  BY <1>1 DEF SourceInv
<1>17. rounds' \in 0 .. MaxRounds /\ step' \in {"forward", "statements"}
  BY <1>1, <1>2, <1>4
<1> QED BY <1>1, <1>2, <1>8, <1>10, <1>13, <1>14, <1>15, <1>16, <1>17 DEF SourceInv

LEMMA NextFile ==
    ASSUME NEW a \in Nat, NEW b \in Nat, 1 <= a, b >= a + 1
    PROVE  a \in 1 .. b - 1 /\ a \notin 1 .. a - 1 /\ \A n \in 1 .. a - 1 : n \in 1 .. b - 1
OBVIOUS

LEMMA SourceAnalyzes == ASSUME SourceInv, NEW parses \in BOOLEAN, Analyze(parses) PROVE SourceInv'
<1> DEFINE sites == LexicalSites(File, summaries) \cup (IF parses THEN AstSites(File) ELSE {})
           new == {<<number, i>> : i \in sites}
           room == MaxCandidates - Cardinality(reports)
<1>1. /\ step = "statements" /\ step' = "read"
      /\ parsed' = IF parses THEN parsed \cup {number} ELSE parsed
      /\ sources' = sources /\ summaries' = summaries /\ rounds' = rounds
      /\ failures' = failures /\ claimed' = claimed
  BY DEF Analyze
<1>2. PICK kept \in SUBSET new :
         /\ IF Cardinality(new) < room
              THEN kept = new /\ number' = number + 1 /\ limits' = limits
            ELSE /\ Cardinality(kept) = room
                 /\ number' = Len(sources) + 1
                 /\ limits' = limits \cup {"candidate_count"}
         /\ reports' = reports \cup kept
  BY DEF Analyze
<1>3. /\ number \in 1 .. Len(sources) /\ sources \in Seq(SourceFile) /\ SummariesTold
      /\ IsFiniteSet(reports) /\ Cardinality(reports) <= MaxCandidates
      /\ \A r \in reports : r[1] \in 1 .. number - 1
      /\ parsed \subseteq 1 .. number - 1 /\ failures \subseteq 1 .. number - 1 /\ parsed \cap failures = {}
  BY <1>1 DEF SourceInv
<1>4. File \in SourceFile /\ Len(sources) \in Nat /\ DOMAIN sources = 1 .. Len(sources)
  BY <1>3, SourceFileIs
<1>5. Len(File.body) \in Nat /\ DOMAIN File.body = 1 .. Len(File.body)
  BY <1>4, FileIs
<1>6. sites \subseteq DOMAIN File.body
  BY DEF LexicalSites, AstSites
<1>7. IsFiniteSet(new)
  <2>1. IsFiniteSet(DOMAIN File.body)
    BY <1>5, IntervalFinite
  <2>2. IsFiniteSet(sites)
    BY <1>6, <2>1, FS_Subset
  <2> DEFINE f == [i \in sites |-> <<number, i>>]
  <2> HIDE DEF sites
  <2>3. DOMAIN f = sites /\ {f[i] : i \in DOMAIN f} = new
    OBVIOUS
  <2>4. IsFiniteSet({f[i] : i \in DOMAIN f})
    <3>1. IsFiniteSet(DOMAIN f)
      BY <2>2, <2>3
    <3> HIDE DEF f
    <3> QED BY <3>1, ValuesFinite
  <2> QED BY <2>3, <2>4
<1>8. MaxCandidates \in Nat /\ Cardinality(reports) \in Nat /\ Cardinality(new) \in Nat
  BY <1>3, <1>7, SourceInputs, FS_CardinalityType
<1>9. IsFiniteSet(kept) /\ Cardinality(kept) \in Nat /\ Cardinality(kept) <= room
  <2>1. IsFiniteSet(kept) /\ Cardinality(kept) \in Nat
    BY <1>2, <1>7, FS_Subset, FS_CardinalityType
  <2>2. Cardinality(kept) <= room
    <3> HIDE DEF new
    <3>1. CASE Cardinality(new) < room
      BY <1>2, <1>8, <3>1
    <3>2. CASE ~(Cardinality(new) < room)
      BY <1>2, <1>8, <3>2
    <3> QED BY <3>1, <3>2
  <2> QED BY <2>1, <2>2
<1>10. IsFiniteSet(reports') /\ Cardinality(reports') <= MaxCandidates
  <2>1. /\ IsFiniteSet(reports \cup kept)
        /\ Cardinality(reports \cup kept) = Cardinality(reports) + Cardinality(kept) - Cardinality(reports \cap kept)
    BY <1>3, <1>9, FS_Union
  <2>2. IsFiniteSet(reports \cap kept)
    BY <1>3, FS_Intersection
  <2>3. Cardinality(reports \cap kept) \in Nat
    BY <2>2, FS_CardinalityType
  <2> HIDE DEF new
  <2> QED BY <1>2, <1>8, <1>9, <2>1, <2>3
<1>11. number' \in 1 .. Len(sources) + 1 /\ number' >= number + 1
  BY <1>2, <1>3, <1>4
<1>12. number \in 1 .. number' - 1 /\ number \notin 1 .. number - 1 /\ \A n \in 1 .. number - 1 : n \in 1 .. number' - 1
  <2>1. number \in Nat /\ 1 <= number
    BY <1>3, <1>4
  <2>2. number' \in Nat
    BY <1>4, <1>11
  <2> QED BY <1>11, <2>1, <2>2, NextFile
<1>13. /\ \A r \in reports' : r[1] \in 1 .. number' - 1
       /\ parsed' \subseteq 1 .. number' - 1 /\ failures' \subseteq 1 .. number' - 1 /\ parsed' \cap failures' = {}
       /\ number \notin failures /\ number \notin parsed
  <2>1. \A r \in kept : r[1] = number
    BY <1>2
  <2>2. \A r \in reports' : r[1] \in 1 .. number' - 1
    BY <1>2, <1>3, <1>12, <2>1
  <2>3. /\ parsed' \subseteq 1 .. number' - 1 /\ failures' \subseteq 1 .. number' - 1 /\ parsed' \cap failures' = {}
        /\ number \notin failures /\ number \notin parsed
    BY <1>1, <1>3, <1>12
  <2> QED BY <2>2, <2>3
<1>14. claimed = "none"
  BY <1>1 DEF SourceInv
<1>15. ASSUME limits' = {}, failures' = {}, NEW n \in 1 .. number' - 1, n \in DOMAIN sources'
       PROVE  Followed(sources'[n], ReportedIn(n)', n \in parsed')
  <2>1. limits = {} /\ failures = {} /\ kept = new /\ number' = number + 1
    <3> HIDE DEF new
    <3> QED BY <1>1, <1>2, <1>15
  <2>2. CASE n = number
    <3>1. ReportedIn(n)' = {i \in DOMAIN File.body : <<n, i>> \in reports \/ <<n, i>> \in new}
      BY <1>1, <1>2, <2>1, <2>2 DEF ReportedIn, File
    <3>2. \A i : <<n, i>> \notin reports
      <4>1. ASSUME NEW i, <<n, i>> \in reports PROVE FALSE
        <5>1. <<n, i>>[1] \in 1 .. number - 1
          BY <1>3, <4>1
        <5> QED BY <1>3, <1>4, <2>2, <5>1
      <4> QED BY <4>1
    <3>3. \A i : <<n, i>> \in new <=> i \in sites
      <4> HIDE DEF sites
      <4> QED BY <2>2
    <3>4. ReportedIn(n)' = sites
      <4> HIDE DEF sites, new
      <4> QED BY <1>6, <3>1, <3>2, <3>3
    <3>5. Summarised(File.methods, summaries)
      BY <1>3 DEF SummariesTold
    <3>6. ~Overloaded(File) => Direct(File.methods) \subseteq summaries
      BY <1>3, <2>1 DEF SummariesTold
    <3>7. ~Overloaded(File) /\ ~Turns(File) => Closed(File.methods, summaries)
      BY <1>1, <1>3, <2>1 DEF SummariesTold
    <3>8. Followed(File, sites, parses)
      BY <1>4, <3>5, <3>6, <3>7, ReadingFollows
    <3>9. n \in parsed' <=> parses
      BY <1>1, <1>13, <2>2
    <3>10. (n \in parsed') = parses
      BY <3>9
    <3>11. sources'[n] = File
      BY <1>1, <2>2 DEF File
    <3> QED BY <3>4, <3>8, <3>10, <3>11
  <2>3. CASE n # number
    <3>1. n \in 1 .. number - 1 /\ n \in DOMAIN sources
      BY <1>1, <1>3, <1>4, <1>15, <2>1, <2>3
    <3>2. Followed(sources[n], ReportedIn(n), n \in parsed)
      BY <2>1, <3>1 DEF SourceInv
    <3>3. \A i : <<n, i>> \notin new
      BY <2>3
    <3>4. ReportedIn(n)' = ReportedIn(n)
      <4> HIDE DEF new
      <4> QED BY <1>1, <1>2, <2>1, <3>3 DEF ReportedIn
    <3>5. (n \in parsed') = (n \in parsed)
      BY <1>1, <2>3
    <3> QED BY <1>1, <3>2, <3>4, <3>5
  <2> QED BY <2>2, <2>3
<1> QED BY <1>1, <1>3, <1>10, <1>11, <1>13, <1>14, <1>15 DEF SourceInv

LEMMA SourceFails == ASSUME SourceInv, FileFails PROVE SourceInv'
<1>1. /\ step = "statements" /\ step' = "read" /\ number' = number + 1
      /\ failures' = failures \cup {number}
      /\ sources' = sources /\ summaries' = summaries /\ rounds' = rounds /\ reports' = reports
      /\ parsed' = parsed /\ limits' = limits /\ claimed' = claimed
  BY DEF FileFails
<1>2. /\ number \in 1 .. Len(sources) /\ sources \in Seq(SourceFile)
      /\ \A r \in reports : r[1] \in 1 .. number - 1
      /\ parsed \subseteq 1 .. number - 1 /\ failures \subseteq 1 .. number - 1 /\ parsed \cap failures = {}
      /\ claimed = "none"
  BY <1>1 DEF SourceInv
<1>3. Len(sources) \in Nat
  BY <1>2
<1>4. number \in 1 .. number' - 1 /\ number \notin 1 .. number - 1 /\ \A n \in 1 .. number - 1 : n \in 1 .. number' - 1
  <2>1. number \in Nat /\ 1 <= number /\ number' \in Nat /\ number' >= number + 1
    BY <1>1, <1>2, <1>3
  <2> QED BY <2>1, NextFile
<1>5. number' \in 1 .. Len(sources) + 1
  BY <1>1, <1>2, <1>3
<1>6. /\ \A r \in reports' : r[1] \in 1 .. number' - 1
      /\ parsed' \subseteq 1 .. number' - 1 /\ failures' \subseteq 1 .. number' - 1 /\ parsed' \cap failures' = {}
  BY <1>1, <1>2, <1>4
<1>7. failures' # {}
  BY <1>1
<1> QED BY <1>1, <1>2, <1>5, <1>6, <1>7 DEF SourceInv

LEMMA SourceConcludes == ASSUME SourceInv, Conclude PROVE SourceInv'
<1>1. /\ step = "read" /\ number > Len(sources)
      /\ claimed' = IF limits # {} \/ failures # {} THEN "partial" ELSE "analyzed"
      /\ sources' = sources /\ number' = number /\ step' = step /\ summaries' = summaries /\ rounds' = rounds
      /\ reports' = reports /\ parsed' = parsed /\ limits' = limits /\ failures' = failures
  BY DEF Conclude
<1>2. \A n : ReportedIn(n)' = ReportedIn(n)
  BY <1>1 DEF ReportedIn
<1> QED BY <1>1, <1>2 DEF SourceInv

LEMMA SourceStep == SourceInv /\ [stNext]_stVars => SourceInv'
<1>1. SUFFICES ASSUME SourceInv, [stNext]_stVars PROVE SourceInv'
  OBVIOUS
<1>2. CASE UNCHANGED stVars
  <2>1. /\ sources' = sources /\ number' = number /\ step' = step /\ summaries' = summaries /\ rounds' = rounds
        /\ reports' = reports /\ parsed' = parsed /\ limits' = limits /\ failures' = failures /\ claimed' = claimed
    BY <1>2 DEF stVars
  <2>2. \A n : ReportedIn(n)' = ReportedIn(n)
    BY <2>1 DEF ReportedIn
  <2>3. SummariesTold' = SummariesTold
    BY <2>1 DEF SummariesTold, File
  <2> QED BY <1>1, <2>1, <2>2, <2>3 DEF SourceInv
<1>3. CASE AnalyzeFile
  BY <1>1, <1>3, SourceAnalyzes DEF AnalyzeFile
<1> QED BY <1>1, <1>2, <1>3, SourceReads, SourceForwards, SourceFails, SourceConcludes DEF stNext

LEMMA SourceTypes == ASSUME SourceInv PROVE stTypeOK
<1>1. Len(sources) \in Nat /\ DOMAIN sources = 1 .. Len(sources) /\ number \in 1 .. Len(sources) + 1
  BY DEF SourceInv
<1>2. \A n \in 1 .. number - 1 : n \in DOMAIN sources
  BY <1>1
<1> QED BY <1>2 DEF SourceInv, stTypeOK

LEMMA SourcesAtTheEnd == ASSUME SourceInv PROVE SourcesFollowed
<1>1. SUFFICES ASSUME claimed = "analyzed", NEW n \in DOMAIN sources
               PROVE  Followed(sources[n], {i \in DOMAIN sources[n].body : <<n, i>> \in reports}, n \in parsed)
  BY DEF SourcesFollowed
<1>2. /\ number \in 1 .. Len(sources) + 1 /\ number > Len(sources) /\ limits = {} /\ failures = {}
      /\ sources \in Seq(SourceFile)
  BY <1>1 DEF SourceInv
<1>3. n \in 1 .. number - 1
  BY <1>1, <1>2
<1>4. Followed(sources[n], ReportedIn(n), n \in parsed)
  BY <1>1, <1>2, <1>3 DEF SourceInv
<1> QED BY <1>4 DEF ReportedIn

\* A directory that is called analyzed was: what the readings found in each file is what its statements do (taint_engine.py:1502,
\* java_ast_taint.py:373), for every directory, all limits and every order of calls.
THEOREM SourcesTrue == stSpec => []SourcesFollowed
<1>1. stInit => SourceInv
  BY SourceStarts
<1>2. SourceInv /\ [stNext]_stVars => SourceInv'
  BY SourceStep
<1>3. SourceInv => SourcesFollowed
  BY SourcesAtTheEnd
<1> QED BY <1>1, <1>2, <1>3, PTL DEF stSpec

-----------------------------------------------------------------------------
(***************************************************************************)
(* The three records together.                                             *)
(***************************************************************************)
EvidenceInv == ExtractionInv /\ SourceInv /\ IosInv

LEMMA EvidenceStarts == evInit => EvidenceInv
BY ExtractionStarts, SourceStarts, IosStarts DEF evInit, EvidenceInv

LEMMA EvidenceStep == EvidenceInv /\ [evNext]_evVars => EvidenceInv'
<1>1. SUFFICES ASSUME EvidenceInv, [evNext]_evVars PROVE EvidenceInv'
  OBVIOUS
<1>2. [exNext]_exVars /\ [stNext]_stVars /\ [irNext]_irVars
  BY <1>1 DEF evNext, evVars
<1> QED BY <1>1, <1>2, ExtractionStep, SourceStep, IosStep DEF EvidenceInv

\* The evidence of an application has its types, whichever record is made first.
THEOREM EvidenceTyped == evSpec => []evTypeOK
<1>1. evInit => EvidenceInv
  BY EvidenceStarts
<1>2. EvidenceInv /\ [evNext]_evVars => EvidenceInv'
  BY EvidenceStep
<1>3. EvidenceInv => evTypeOK
  BY IosTyped, SourceTypes DEF ExtractionInv, EvidenceInv, evTypeOK
<1> QED BY <1>1, <1>2, <1>3, PTL DEF evSpec

\* The evidence of an application is honest: what each record says was done is so, for the
\* file whose digest it carries, and what is reported of its sources is what they do.
THEOREM EvidenceTrue == evSpec => [](EvidenceHonest /\ SourcesFollowed)
<1>1. evInit => EvidenceInv
  BY EvidenceStarts
<1>2. EvidenceInv /\ [evNext]_evVars => EvidenceInv'
  BY EvidenceStep
<1>3. EvidenceInv => EvidenceHonest /\ SourcesFollowed
  BY HonestAtTheEnd, SourcesAtTheEnd, ReviewHonestAtTheEnd DEF EvidenceHonest, EvidenceInv
<1> QED BY <1>1, <1>2, <1>3, PTL DEF evSpec
=============================================================================
