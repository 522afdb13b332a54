-------------------------- MODULE JobTrackerProofs --------------------------
(***************************************************************************)
(* Theorems about JobTracker for any jobs, documents, keys and entries:    *)
(* type correctness, the agreement of maps and counts with the documents,  *)
(* what makes a job terminal and that it stays so, uniqueness of keys and  *)
(* manifest entries, and how far the watchers of a job are behind.         *)
(***************************************************************************)
EXTENDS JobTracker, FiniteSetTheorems, TLAPS

-----------------------------------------------------------------------------
(* Counting.                                                               *)

\* The documents of S that have the status s.
With(S, s) == {d \in S : status[d] = s}

\* The documents of S that have the status s after the step.
WithNext(S, s) == {d \in S : status'[d] = s}

LEMMA DocsFinite ==
    ASSUME NEW S \in SUBSET Docs
    PROVE  IsFiniteSet(S) /\ Cardinality(S) \in Nat
BY JobTrackerAssumption, FS_Subset, FS_CardinalityType

LEMMA AdjustedTyped ==
    ASSUME NEW c \in [Statuses -> Nat], NEW D \in SUBSET Docs, NEW new \in Statuses
    PROVE  Adjusted(c, D, new) \in [Statuses -> Nat]
<1>1. ASSUME NEW s \in Statuses
      PROVE  (IF s = new THEN c[s] + Cardinality(D)
              ELSE Floor(c[s] - Cardinality({d \in D : status[d] = s}))) \in Nat
    <2>1. Cardinality(D) \in Nat /\ Cardinality({d \in D : status[d] = s}) \in Nat
        BY DocsFinite
    <2>2. c[s] \in Nat
        OBVIOUS
    <2>. QED BY <2>1, <2>2 DEF Floor
<1>. QED BY <1>1 DEF Adjusted

\* Members of S that leave, and others that come.
LEMMA CountDifference ==
    ASSUME NEW S \in SUBSET Docs, NEW D \in SUBSET S
    PROVE  Cardinality(S \ D) = Cardinality(S) - Cardinality(D)
<1>1. Cardinality(S \ D) = Cardinality(S) - Cardinality(S \cap D)
    BY DocsFinite, FS_Difference
<1>2. S \cap D = D
    OBVIOUS
<1>. QED BY <1>1, <1>2

LEMMA CountUnion ==
    ASSUME NEW S \in SUBSET Docs, NEW D \in SUBSET Docs, S \cap D = {}
    PROVE  Cardinality(S \cup D) = Cardinality(S) + Cardinality(D)
<1>1. Cardinality(S \cup D) = Cardinality(S) + Cardinality(D) - Cardinality(S \cap D)
    BY DocsFinite, FS_Union
<1>2. Cardinality(S \cap D) = 0
    BY FS_EmptySet
<1>. QED BY <1>1, <1>2, DocsFinite

\* _adjust_counts_locked keeps counts that are right: S are the documents of a
\* job, of which those in D get the status new.
LEMMA AdjustedCounts ==
    ASSUME NEW S \in SUBSET Docs, NEW D \in SUBSET S,
           NEW new \in Statuses, NEW c \in [Statuses -> Nat],
           \A s \in Statuses : c[s] = Cardinality(With(S, s)),
           \A d \in D : status[d] # new,
           \A d \in S : status'[d] = IF d \in D THEN new ELSE status[d],
           NEW s \in Statuses
    PROVE  Adjusted(c, D, new)[s] = Cardinality(WithNext(S, s))
<1>. DEFINE W == WithNext(S, s)
<1>1. CASE s = new
    <2>1. W = With(S, s) \cup D
        BY <1>1 DEF With, WithNext
    <2>2. With(S, s) \cap D = {}
        BY <1>1 DEF With
    <2>3. With(S, s) \in SUBSET Docs /\ D \in SUBSET Docs
        BY DEF With
    <2>4. Cardinality(W) = Cardinality(With(S, s)) + Cardinality(D)
        BY <2>1, <2>2, <2>3, CountUnion
    <2>. QED BY <1>1, <2>4 DEF Adjusted
<1>2. CASE s # new
    <2>. DEFINE E == {d \in D : status[d] = s}
    <2>1. W = With(S, s) \ E
        BY <1>2 DEF With, WithNext
    <2>2. E \subseteq With(S, s) /\ With(S, s) \in SUBSET Docs
        BY DEF With
    <2>3. Cardinality(W) = c[s] - Cardinality(E)
        BY <2>1, <2>2, CountDifference
    <2>4. W \in SUBSET Docs /\ E \in SUBSET Docs
        BY <2>1, <2>2
    <2>5. Cardinality(W) \in Nat /\ Cardinality(E) \in Nat
        BY <2>4, DocsFinite
    <2>6. Floor(c[s] - Cardinality(E)) = c[s] - Cardinality(E)
        BY <2>3, <2>5 DEF Floor
    <2>. QED BY <1>2, <2>3, <2>6 DEF Adjusted
<1>. QED BY <1>1, <1>2

-----------------------------------------------------------------------------
(* Type correctness.                                                       *)

\* The two maps that are rebuilt when jobs are dropped.
LEMMA MapsTyped ==
    ASSUME TypeOK, NEW X
    PROVE  /\ KeysAfter(X) \in [Keys -> Jobs \cup {NoJob}]
           /\ AcceptedAfter(X) \in [Jobs \X Entries -> Docs \cup {NoDoc}]
BY DEF TypeOK, KeysAfter, AcceptedAfter

LEMMA EmptyTyped == EmptyCounts \in [Statuses -> Nat]
BY DEF EmptyCounts

LEMMA AggregatesTyped ==
    ASSUME TypeOK, NEW X, ForgetAggregates(X)
    PROVE  /\ jobStatus' \in [Jobs -> JobStatuses]
           /\ counts' \in [Jobs -> [Statuses -> Nat]]
           /\ documentIds' \in [Jobs -> SUBSET Docs]
           /\ progress' \in [Jobs -> Int]
<1>1. jobStatus' \in [Jobs -> JobStatuses]
    BY DEF TypeOK, ForgetAggregates, JobStatuses
<1>2. counts' \in [Jobs -> [Statuses -> Nat]]
    BY EmptyTyped DEF TypeOK, ForgetAggregates
<1>3. documentIds' \in [Jobs -> SUBSET Docs] /\ progress' \in [Jobs -> Int]
    BY DEF TypeOK, ForgetAggregates
<1>. QED BY <1>1, <1>2, <1>3

LEMMA DropTyped ==
    ASSUME TypeOK, NEW X, Drop(X), created' \in SUBSET Jobs,
           outcome' \in [Docs -> {"none", "registered", "replayed", "refused", "error"}],
           UNCHANGED <<status, registrations, rolledBack>>
    PROVE  TypeOK'
<1>1. ForgetAggregates(X)
    BY DEF Drop
<1>2. /\ accepted' \in [Jobs \X Entries -> Docs \cup {NoDoc}]
      /\ idempotency' \in [Keys -> Jobs \cup {NoJob}]
    BY MapsTyped DEF Drop
<1>. QED BY <1>1, <1>2, AggregatesTyped DEF TypeOK, Drop

\* What a report does to the counts of one job.
After(j, T, new) == IF Mine(T, j) = {} THEN counts[j] ELSE Adjusted(counts[j], Mine(T, j), new)

LEMMA AfterTyped ==
    ASSUME TypeOK, NEW j \in Jobs, NEW T \in SUBSET Docs, NEW new \in Statuses
    PROVE  After(j, T, new) \in [Statuses -> Nat]
<1>1. counts[j] \in [Statuses -> Nat] /\ Mine(T, j) \in SUBSET Docs
    BY DEF TypeOK, Mine
<1>. QED BY <1>1, AdjustedTyped DEF After

\* The terminal count that the watchers of job j are told of after a report.
Seen(j, T, new) ==
    IF Mine(T, j) # {} /\ Finalizes(j, After(j, T, new))
    THEN TerminalCount(After(j, T, new)) - 1 ELSE TerminalCount(After(j, T, new))

\* A report, taken apart: the jobs X are dropped, the documents T are marked.
Report(X, T, new) ==
    LET final(j) == Mine(T, j) # {} /\ Finalizes(j, After(j, T, new))
    IN /\ X \subseteq aged /\ T = Marked(T) /\ \A d \in T : JobOf[d] \notin X
       /\ status' = [d \in Docs |-> IF d \in T THEN new ELSE status[d]]
       /\ counts' = [j \in Jobs |-> IF j \in X THEN EmptyCounts ELSE After(j, T, new)]
       /\ jobStatus' = [j \in Jobs |-> IF j \in X THEN "pending"
                                       ELSE IF final(j) THEN Derived(After(j, T, new)) ELSE jobStatus[j]]
       /\ progress' = [j \in Jobs |-> IF j \in X THEN 0 ELSE IF Mine(T, j) = {} THEN progress[j]
                                      ELSE Milestone(j, Seen(j, T, new))]
       /\ documentIds' = [j \in Jobs |-> IF j \in X THEN {} ELSE documentIds[j]]
       /\ jobs' = jobs \ X /\ aged' = aged \ X
       /\ documents' = documents \ Dropped(X)
       /\ accepted' = AcceptedAfter(X)
       /\ idempotency' = KeysAfter(X)
       /\ UNCHANGED <<registrations, created, outcome, rolledBack>>

LEMMA MilestoneTyped ==
    ASSUME TypeOK, NEW j \in Jobs, NEW n \in Int
    PROVE  Milestone(j, n) \in Int
<1>1. progress[j] \in Int /\ ProgressStep \in Nat /\ ProgressStep > 0
    BY JobTrackerAssumption DEF TypeOK
<1>2. ((n - progress[j]) \div ProgressStep) \in Int
    BY <1>1
<1>. QED BY <1>1, <1>2 DEF Milestone

LEMMA MarkTerminalReports ==
    ASSUME NEW D \in SUBSET Docs, NEW new \in DocTerminal, MarkTerminal(D, new)
    PROVE  Report({JobOf[d] : d \in D \cap documents} \cap aged, Marked(D), new)
<1>1. Marked(D) = Marked(Marked(D))
    BY DEF Marked
<1>2. \A d \in Marked(D) : JobOf[d] \notin {JobOf[e] : e \in D \cap documents} \cap aged
    BY DEF Marked
<1>. QED BY <1>1, <1>2 DEF MarkTerminal, Report, After, Seen

LEMMA ReportTyped ==
    ASSUME TypeOK, NEW X, NEW T \in SUBSET Docs, NEW new \in DocTerminal, Report(X, T, new)
    PROVE  TypeOK'
<1>1. /\ accepted' \in [Jobs \X Entries -> Docs \cup {NoDoc}]
      /\ idempotency' \in [Keys -> Jobs \cup {NoJob}]
    BY MapsTyped DEF Report
<1>2. new \in Statuses
    BY DEF DocTerminal, Statuses
<1>3. counts' \in [Jobs -> [Statuses -> Nat]]
    BY <1>2, AfterTyped, EmptyTyped DEF Report
<1>4. jobStatus' \in [Jobs -> JobStatuses]
    <2>1. \A j \in Jobs : Derived(After(j, T, new)) \in JobStatuses /\ jobStatus[j] \in JobStatuses
        BY DEF Derived, JobStatuses, JobTerminal, TypeOK
    <2>2. "pending" \in JobStatuses
        BY DEF JobStatuses
    <2>. QED BY <2>1, <2>2 DEF Report
<1>5. status' \in [Docs -> Statuses]
    BY <1>2 DEF TypeOK, Report
<1>6. progress' \in [Jobs -> Int]
    <2>1. ASSUME NEW j \in Jobs PROVE progress[j] \in Int /\ Milestone(j, Seen(j, T, new)) \in Int
        <3>1. After(j, T, new) \in [Statuses -> Nat]
            BY <1>2, AfterTyped
        <3>2. TerminalCount(After(j, T, new)) \in Int
            BY <3>1 DEF TerminalCount, Statuses
        <3>3. Seen(j, T, new) \in Int
            BY <3>2 DEF Seen
        <3>. QED BY <3>3, MilestoneTyped DEF TypeOK
    <2>. QED BY <2>1 DEF Report
<1>. QED BY <1>1, <1>3, <1>4, <1>5, <1>6 DEF TypeOK, Report

\* The branch of MarkProcessing in which the document moves.
Begins(d) ==
    LET j == JobOf[d] IN
    /\ d \in documents /\ j \notin aged /\ status[d] = "pending"
    /\ status' = [status EXCEPT ![d] = "processing"]
    /\ counts' = [counts EXCEPT ![j] = Adjusted(@, {d}, "processing")]
    /\ jobStatus' = [jobStatus EXCEPT ![j] = IF @ = "pending" THEN "processing" ELSE @]
    /\ UNCHANGED <<documentIds, progress, mapVars, aged, registrations, created, outcome, rolledBack>>

\* An upload that repeats an entry whose document is missing.
Stranded(d) == Prior(d) # NoDoc /\ Prior(d) \notin documents

\* What has been registered stays so, and only a stranded upload ends in an error.
HistoryGrows ==
    /\ created \subseteq created' /\ rolledBack' = rolledBack
    /\ \A d \in Docs : outcome[d] = "registered" => outcome'[d] = "registered"
    /\ \A d \in Docs : outcome'[d] = "error" => outcome[d] = "error" \/ Stranded(d)

\* The jobs X expire, and nothing else happens.
Expires(X) == X \subseteq aged /\ Drop(X) /\ UNCHANGED status /\ HistoryGrows

Quiet == UNCHANGED <<aggVars, mapVars, status>> /\ HistoryGrows

\* Every step is of one of these kinds.
Kinds ==
    \/ \E j \in Jobs : RegisterJob(j)
    \/ \E d \in Docs : RegisterDocument(d) \/ Begins(d) \/ UnregisterPending(d)
    \/ \E X \in SUBSET Jobs : Expires(X)
    \/ \E X \in SUBSET Jobs, T \in SUBSET Docs, new \in DocTerminal : Report(X, T, new)
    \/ Restart \/ Quiet

LEMMA StepKinds ==
    ASSUME TypeOK, [Next]_vars
    PROVE  TypeOK' /\ Kinds
<1>. USE DEF Kinds
<1>1. ASSUME NEW j \in Jobs, RegisterJob(j) PROVE TypeOK' /\ Kinds
    <2>1. ForgetAggregates(aged) /\ created' \in SUBSET Jobs
        BY <1>1 DEF RegisterJob, TypeOK
    <2>2. accepted' \in [Jobs \X Entries -> Docs \cup {NoDoc}]
        BY <1>1, MapsTyped DEF RegisterJob
    <2>3. idempotency' \in [Keys -> Jobs \cup {NoJob}]
        BY <1>1, MapsTyped DEF RegisterJob
    <2>4. TypeOK'
        BY <1>1, <2>1, <2>2, <2>3, AggregatesTyped DEF RegisterJob, TypeOK
    <2>. QED BY <1>1, <2>4
<1>2. ASSUME NEW j \in Jobs, RegisterJobRefused(j) PROVE TypeOK' /\ Kinds
    <2>1. Drop(aged) /\ created' \in SUBSET Jobs /\ UNCHANGED <<status, registrations, outcome, rolledBack>>
        BY <1>2 DEF RegisterJobRefused, TypeOK
    <2>2. Expires(aged) /\ aged \in SUBSET Jobs
        BY <1>2, <2>1 DEF RegisterJobRefused, Expires, HistoryGrows, TypeOK
    <2>3. TypeOK'
        BY <2>1, DropTyped DEF TypeOK
    <2>. QED BY <2>2, <2>3
<1>3. ASSUME NEW j \in Jobs, AgeOut(j) PROVE TypeOK' /\ Kinds
    BY <1>3 DEF AgeOut, Live, Quiet, HistoryGrows, TypeOK, aggVars, mapVars
<1>4. ASSUME NEW X, Read(X) PROVE TypeOK' /\ Kinds
    <2>1. X \subseteq aged /\ Drop(X) /\ UNCHANGED <<status, registrations, created, outcome, rolledBack>>
        BY <1>4 DEF Read
    <2>2. Expires(X) /\ X \in SUBSET Jobs
        BY <2>1 DEF Expires, HistoryGrows, TypeOK
    <2>3. TypeOK'
        BY <2>1, DropTyped DEF TypeOK
    <2>. QED BY <2>2, <2>3
<1>5. ASSUME NEW d \in Docs, NEW how \in {"registered", "replayed", "refused", "error"}, Answer(d, how)
      PROVE  /\ outcome' \in [Docs -> {"none", "registered", "replayed", "refused", "error"}]
             /\ UNCHANGED <<created, rolledBack>> /\ (how = "error" => Stranded(d)) => HistoryGrows
    BY <1>5 DEF Answer, HistoryGrows, TypeOK
<1>6. ASSUME NEW d \in Docs, NoJobForDocument(d) PROVE TypeOK' /\ Kinds
    <2>. DEFINE X == {JobOf[d]} \cap aged
    <2>1. Drop(X) /\ Answer(d, "refused") /\ UNCHANGED <<status, registrations, created, rolledBack>>
        BY <1>6 DEF NoJobForDocument
    <2>2. Expires(X) /\ X \in SUBSET Jobs
        BY <1>5, <2>1 DEF Expires, TypeOK
    <2>3. TypeOK'
        <3>1. created' \in SUBSET Jobs
            BY <2>1 DEF TypeOK
        <3>. QED BY <1>5, <2>1, <3>1, DropTyped
    <2>. QED BY <2>2, <2>3
<1>7. ASSUME NEW d \in Docs, ReplayDocument(d) \/ RefuseDocument(d) PROVE TypeOK' /\ Kinds
    <2>1. \E how \in {"replayed", "refused", "error"} :
             Answer(d, how) /\ (how = "error" => Stranded(d))
        BY <1>7 DEF ReplayDocument, RefuseDocument, Stranded
    <2>2. UNCHANGED <<aggVars, mapVars, status, registrations, aged, created, rolledBack>>
        BY <1>7 DEF ReplayDocument, RefuseDocument
    <2>3. Quiet /\ outcome' \in [Docs -> {"none", "registered", "replayed", "refused", "error"}]
        BY <1>5, <2>1, <2>2 DEF Quiet
    <2>4. TypeOK'
        BY <2>2, <2>3 DEF TypeOK, aggVars, mapVars
    <2>. QED BY <2>3, <2>4
<1>8. ASSUME NEW d \in Docs, RegisterDocument(d) PROVE TypeOK' /\ Kinds
    <2>1. /\ outcome' \in [Docs -> {"none", "registered", "replayed", "refused", "error"}]
        BY <1>5, <1>8 DEF RegisterDocument
    <2>2. /\ AcceptedAfter(Evicted) \in [Jobs \X Entries -> Docs \cup {NoDoc}]
          /\ KeysAfter(Evicted) \in [Keys -> Jobs \cup {NoJob}]
        BY MapsTyped
    <2>3. accepted' \in [Jobs \X Entries -> Docs \cup {NoDoc}]
        BY <1>8, <2>2 DEF RegisterDocument
    <2>4. counts' \in [Jobs -> [Statuses -> Nat]]
        <3>1. JobOf[d] \in Jobs
            BY JobTrackerAssumption
        <3>2. [counts[JobOf[d]] EXCEPT !["pending"] = @ + 1] \in [Statuses -> Nat]
            BY <3>1 DEF TypeOK, Statuses
        <3>. QED BY <1>8, <3>2, EmptyTyped DEF RegisterDocument, TypeOK
    <2>5. /\ jobStatus' \in [Jobs -> JobStatuses] /\ progress' \in [Jobs -> Int]
          /\ documentIds' \in [Jobs -> SUBSET Docs] /\ status' \in [Docs -> Statuses]
        BY <1>8 DEF RegisterDocument, TypeOK, JobStatuses, Statuses
    <2>6. registrations' \in 0..(EvictionInterval - 1)
        <3>1. EvictionInterval \in Nat /\ EvictionInterval > 0 /\ registrations + 1 \in Int
            BY JobTrackerAssumption DEF TypeOK
        <3>2. (registrations + 1) % EvictionInterval \in 0..(EvictionInterval - 1)
            BY <3>1
        <3>. QED BY <1>8, <3>2 DEF RegisterDocument
    <2>7. /\ idempotency' \in [Keys -> Jobs \cup {NoJob}] /\ created' \subseteq Jobs
          /\ jobs' \subseteq Jobs /\ aged' \subseteq jobs' /\ documents' \subseteq Docs
          /\ rolledBack' \subseteq Docs
        BY <1>8, <2>2 DEF RegisterDocument, TypeOK
    <2>8. TypeOK'
        BY <2>1, <2>3, <2>4, <2>5, <2>6, <2>7 DEF TypeOK
    <2>. QED BY <1>8, <2>8
<1>9. ASSUME NEW d \in Docs, MarkProcessing(d) PROVE TypeOK' /\ Kinds
    <2>1. JobOf[d] \in Jobs
        BY JobTrackerAssumption
    <2>2. CASE JobOf[d] \in aged /\ Drop({JobOf[d]}) /\ UNCHANGED status
        <3>1. UNCHANGED <<status, registrations, created, outcome, rolledBack>>
            BY <1>9, <2>2 DEF MarkProcessing
        <3>2. Expires({JobOf[d]})
            BY <2>2, <3>1 DEF Expires, HistoryGrows
        <3>3. TypeOK'
            <4>1. created' \in SUBSET Jobs
                BY <3>1 DEF TypeOK
            <4>2. outcome' \in [Docs -> {"none", "registered", "replayed", "refused", "error"}]
                BY <3>1 DEF TypeOK
            <4>. QED BY <2>2, <3>1, <4>1, <4>2, DropTyped
        <3>. QED BY <2>1, <3>2, <3>3
    <2>3. CASE Begins(d)
        <3>1. Adjusted(counts[JobOf[d]], {d}, "processing") \in [Statuses -> Nat]
            BY <2>1, AdjustedTyped DEF TypeOK, Statuses
        <3>2. counts' \in [Jobs -> [Statuses -> Nat]]
            BY <2>3, <3>1 DEF Begins, TypeOK
        <3>3. status' \in [Docs -> Statuses] /\ jobStatus' \in [Jobs -> JobStatuses]
            BY <2>3 DEF Begins, TypeOK, Statuses, JobStatuses
        <3>4. TypeOK'
            BY <2>3, <3>2, <3>3 DEF Begins, TypeOK, mapVars
        <3>. QED BY <2>3, <3>4
    <2>4. (JobOf[d] \in aged /\ Drop({JobOf[d]}) /\ UNCHANGED status) \/ Begins(d)
        BY <1>9 DEF MarkProcessing, Begins
    <2>. QED BY <2>2, <2>3, <2>4
<1>10. ASSUME NEW d \in Docs, UnregisterPending(d) PROVE TypeOK' /\ Kinds
    <2>1. JobOf[d] \in Jobs
        BY JobTrackerAssumption
    <2>2. Floor(counts[JobOf[d]]["pending"] - 1) \in Nat
        BY <2>1 DEF Floor, TypeOK, Statuses
    <2>3. counts' \in [Jobs -> [Statuses -> Nat]]
        BY <1>10, <2>1, <2>2 DEF UnregisterPending, TypeOK, Statuses
    <2>4. TypeOK'
        BY <1>10, <2>3 DEF UnregisterPending, TypeOK
    <2>. QED BY <1>10, <2>4
<1>11. ASSUME NEW d \in Docs, NEW new \in DocTerminal, MarkTerminal({d}, new) PROVE TypeOK' /\ Kinds
    <2>. DEFINE X == {JobOf[e] : e \in {d} \cap documents} \cap aged
    <2>1. Report(X, Marked({d}), new)
        BY <1>11, MarkTerminalReports
    <2>2. X \in SUBSET Jobs /\ Marked({d}) \in SUBSET Docs
        BY DEF Marked, TypeOK
    <2>. QED BY <2>1, <2>2, ReportTyped
<1>12. ASSUME Restart PROVE TypeOK' /\ Kinds
    <2>1. /\ counts' \in [Jobs -> [Statuses -> Nat]]
          /\ jobStatus' \in [Jobs -> JobStatuses] /\ documentIds' \in [Jobs -> SUBSET Docs]
          /\ progress' \in [Jobs -> Int]
        BY <1>12, EmptyTyped DEF Restart, JobStatuses
    <2>2. 0 \in 0..(EvictionInterval - 1)
        BY JobTrackerAssumption
    <2>. QED BY <1>12, <2>1, <2>2 DEF Restart, TypeOK
<1>13. CASE UNCHANGED vars
    BY <1>13 DEF vars, Quiet, HistoryGrows, TypeOK, aggVars, mapVars
<1>. QED BY <1>1, <1>2, <1>3, <1>4, <1>6, <1>7, <1>8, <1>9, <1>10, <1>11, <1>12, <1>13 DEF Next

LEMMA InitTyped == Init => TypeOK
<1>. SUFFICES ASSUME Init PROVE TypeOK
    OBVIOUS
<1>1. 0 \in 0..(EvictionInterval - 1)
    BY JobTrackerAssumption
<1>. QED BY <1>1, EmptyTyped DEF Init, TypeOK, Statuses, JobStatuses

\* Every variable of the tracker keeps its type, for any jobs and documents.
THEOREM TypeCorrect == Spec => []TypeOK
<1>1. TypeOK /\ [Next]_vars => TypeOK'
    BY StepKinds
<1>. QED BY <1>1, InitTyped, PTL DEF Spec

-----------------------------------------------------------------------------
(* The maps agree.                                                         *)

\* A job's documents are its own and were registered; an absent job has none.
MapInv ==
    /\ jobs \subseteq created
    /\ \A j \in Jobs, d \in Docs : d \in documentIds[j] => JobOf[d] = j /\ outcome[d] = "registered"
    /\ \A j \in Jobs \ jobs : documentIds[j] = {} /\ counts[j] = EmptyCounts /\ jobStatus[j] = "pending"

LEMMA DroppedMine ==
    ASSUME TypeOK, MapInv, NEW X \in SUBSET Jobs, NEW d \in Docs
    PROVE  d \in Dropped(X) <=> JobOf[d] \in X /\ d \in documentIds[JobOf[d]]
BY JobTrackerAssumption DEF Dropped, MapInv

LEMMA MapStep ==
    ASSUME TypeOK, TypeOK', MapInv, NoOrphans, Kinds
    PROVE  MapInv' /\ NoOrphans'
<1>0. \A d \in Docs : JobOf[d] \in Jobs
    BY JobTrackerAssumption
<1>1. ASSUME NEW j \in Jobs, RegisterJob(j) PROVE MapInv' /\ NoOrphans'
    <2>1. aged \in SUBSET Jobs /\ j \notin jobs
        BY <1>1 DEF TypeOK, MapInv, RegisterJob
    <2>2. MapInv'
        BY <1>1 DEF RegisterJob, ForgetAggregates, MapInv, TypeOK
    <2>3. NoOrphans'
        BY <1>0, <1>1, <2>1, DroppedMine DEF RegisterJob, ForgetAggregates, NoOrphans, MapInv, TypeOK
    <2>. QED BY <2>2, <2>3
<1>2. ASSUME NEW d \in Docs, RegisterDocument(d) PROVE MapInv' /\ NoOrphans'
    <2>. DEFINE j == JobOf[d]
    <2>1. Evicted \in SUBSET Jobs /\ j \in Jobs /\ j \in jobs /\ j \notin Evicted
        BY <1>0, <1>2 DEF TypeOK, RegisterDocument, Evicted, Live
    <2>2. /\ outcome' = [outcome EXCEPT ![d] = "registered"]
          /\ documentIds' = [i \in Jobs |-> IF i \in Evicted THEN {}
                                            ELSE IF i = j THEN documentIds[j] \cup {d} ELSE documentIds[i]]
          /\ documents' = (documents \ Dropped(Evicted)) \cup {d}
          /\ jobs' = jobs \ Evicted /\ created' = created
        BY <1>2 DEF RegisterDocument, Answer
    <2>3. \A i \in Jobs \ jobs' : counts'[i] = EmptyCounts /\ jobStatus'[i] = "pending"
        BY <1>2, <2>1, <2>2 DEF RegisterDocument, MapInv
    <2>4. MapInv'
        BY <2>1, <2>2, <2>3 DEF MapInv, TypeOK
    <2>5. ASSUME NEW e \in Docs
          PROVE  e \in documents' <=> JobOf[e] \in jobs' /\ e \in documentIds'[JobOf[e]]
        <3>1. JobOf[e] \in Jobs
            BY <1>0
        <3>2. e \in Dropped(Evicted) <=> JobOf[e] \in Evicted /\ e \in documentIds[JobOf[e]]
            BY <2>1, DroppedMine
        <3>3. CASE e = d
            BY <2>1, <2>2, <3>3
        <3>4. CASE e # d
            BY <2>1, <2>2, <3>1, <3>2, <3>4 DEF NoOrphans
        <3>. QED BY <3>3, <3>4
    <2>. QED BY <2>4, <2>5 DEF NoOrphans
<1>3. ASSUME NEW d \in Docs, Begins(d) PROVE MapInv' /\ NoOrphans'
    <2>1. JobOf[d] \in jobs /\ \A j \in Jobs \ jobs : j # JobOf[d]
        BY <1>3 DEF Begins, NoOrphans
    <2>2. MapInv'
        BY <1>3, <2>1 DEF Begins, MapInv, mapVars, TypeOK
    <2>. QED BY <1>3, <2>2 DEF Begins, NoOrphans, mapVars
<1>4. ASSUME NEW d \in Docs, UnregisterPending(d) PROVE MapInv' /\ NoOrphans'
    <2>1. JobOf[d] \in jobs /\ \A j \in Jobs \ jobs : j # JobOf[d]
        BY <1>4 DEF UnregisterPending, NoOrphans
    <2>2. MapInv'
        BY <1>4, <2>1 DEF UnregisterPending, MapInv, TypeOK
    <2>3. NoOrphans'
        BY <1>0, <1>4, <2>1 DEF UnregisterPending, NoOrphans, TypeOK
    <2>. QED BY <2>2, <2>3
<1>5. ASSUME NEW X \in SUBSET Jobs, Expires(X) PROVE MapInv' /\ NoOrphans'
    <2>1. MapInv'
        BY <1>5 DEF Expires, HistoryGrows, Drop, ForgetAggregates, MapInv, TypeOK
    <2>. QED BY <1>0, <1>5, <2>1, DroppedMine DEF Expires, Drop, ForgetAggregates, NoOrphans
<1>6. ASSUME NEW X \in SUBSET Jobs, NEW T \in SUBSET Docs, NEW new \in DocTerminal, Report(X, T, new)
      PROVE  MapInv' /\ NoOrphans'
    <2>1. ASSUME NEW j \in Jobs \ jobs PROVE Mine(T, j) = {}
        BY <1>6 DEF Mine, Report, Marked, NoOrphans
    <2>2. \A j \in Jobs \ jobs' : counts'[j] = EmptyCounts /\ jobStatus'[j] = "pending"
        BY <1>6, <2>1 DEF Report, After, MapInv
    <2>3. MapInv'
        BY <1>6, <2>2 DEF Report, MapInv
    <2>. QED BY <1>0, <1>6, <2>3, DroppedMine DEF Report, NoOrphans
<1>7. CASE Restart
    BY <1>7 DEF Restart, MapInv, NoOrphans
<1>8. CASE Quiet
    BY <1>8 DEF Quiet, HistoryGrows, MapInv, NoOrphans, aggVars, mapVars
<1>. QED BY <1>1, <1>2, <1>3, <1>4, <1>5, <1>6, <1>7, <1>8 DEF Kinds

-----------------------------------------------------------------------------
(* Manifest entries and idempotency keys.                                  *)

\* The manifest names the document that is known for an entry.
EntryInv ==
    \A d \in documents : EntryOf[d] # NoEntry => accepted[JobOf[d], EntryOf[d]] = d

LEMMA EntryStep ==
    ASSUME TypeOK, TypeOK', MapInv, NoOrphans, NoOrphans', EntryInv, Kinds
    PROVE  EntryInv'
<1>0. \A d \in Docs : JobOf[d] \in Jobs /\ (EntryOf[d] # NoEntry => EntryOf[d] \in Entries)
    BY JobTrackerAssumption
<1>1. ASSUME NEW X \in SUBSET Jobs, NEW d \in documents, JobOf[d] \notin X, EntryOf[d] # NoEntry
      PROVE  AcceptedAfter(X)[JobOf[d], EntryOf[d]] = d
    BY <1>0, <1>1 DEF AcceptedAfter, EntryInv, TypeOK
<1>2. ASSUME NEW j \in Jobs, RegisterJob(j) PROVE EntryInv'
    <2>1. \A d \in documents' : d \in documents /\ JobOf[d] \notin aged
        BY <1>0, <1>2, DroppedMine DEF RegisterJob, NoOrphans, TypeOK
    <2>. QED BY <1>1, <1>2, <2>1 DEF RegisterJob, EntryInv, TypeOK
<1>3. ASSUME NEW d \in Docs, RegisterDocument(d) PROVE EntryInv'
    <2>. DEFINE j == JobOf[d]
    <2>1. /\ Evicted \in SUBSET Jobs
          /\ accepted' = [je \in Jobs \X Entries |->
                            IF je = <<j, EntryOf[d]>> THEN d ELSE AcceptedAfter(Evicted)[je]]
          /\ documents' = (documents \ Dropped(Evicted)) \cup {d}
          /\ Prior(d) = NoDoc /\ j \notin Evicted
        BY <1>3 DEF TypeOK, RegisterDocument, Evicted, Live
    <2>2. ASSUME NEW e \in documents', EntryOf[e] # NoEntry
          PROVE  accepted'[JobOf[e], EntryOf[e]] = e
        <3>1. e \in Docs /\ <<JobOf[e], EntryOf[e]>> \in Jobs \X Entries
            BY <1>0, <2>2 DEF TypeOK
        <3>2. CASE e = d
            BY <2>1, <3>1, <3>2
        <3>3. CASE e # d
            <4>1. e \in documents /\ JobOf[e] \notin Evicted
                BY <2>1, <2>2, <3>1, <3>3, DroppedMine DEF NoOrphans
            <4>2. AcceptedAfter(Evicted)[JobOf[e], EntryOf[e]] = e
                BY <1>1, <2>1, <2>2, <4>1
            <4>3. accepted[JobOf[e], EntryOf[e]] = e
                BY <2>2, <4>1 DEF EntryInv
            <4>4. <<JobOf[e], EntryOf[e]>> # <<j, EntryOf[d]>>
                BY <2>1, <2>2, <3>1, <4>3, JobTrackerAssumption DEF Prior
            <4>. QED BY <2>1, <3>1, <4>2, <4>4
        <3>. QED BY <3>2, <3>3
    <2>. QED BY <2>2 DEF EntryInv
<1>4. ASSUME NEW d \in Docs, Begins(d) \/ UnregisterPending(d) PROVE EntryInv'
    BY <1>4 DEF Begins, UnregisterPending, EntryInv, mapVars
<1>5. ASSUME NEW X \in SUBSET Jobs, accepted' = AcceptedAfter(X), documents' = documents \ Dropped(X)
      PROVE  EntryInv'
    <2>1. \A d \in documents' : d \in documents /\ JobOf[d] \notin X
        BY <1>0, <1>5, DroppedMine DEF NoOrphans, TypeOK
    <2>. QED BY <1>1, <1>5, <2>1 DEF EntryInv
<1>6. ASSUME NEW X \in SUBSET Jobs,
             Expires(X) \/ \E T \in SUBSET Docs, new \in DocTerminal : Report(X, T, new)
      PROVE  EntryInv'
    BY <1>5, <1>6 DEF Expires, Drop, Report
<1>7. CASE Restart \/ Quiet
    BY <1>7 DEF Restart, Quiet, EntryInv, mapVars
<1>. QED BY <1>2, <1>3, <1>4, <1>6, <1>7 DEF Kinds

\* An entry leads to a document of its job that exists or was rolled back.
LeadInv ==
    \A je \in Jobs \X Entries : accepted[je] # NoDoc =>
        /\ JobOf[accepted[je]] = je[1] /\ EntryOf[accepted[je]] = je[2]
        /\ accepted[je] \in documents \cup rolledBack

LEMMA LeadStep ==
    ASSUME TypeOK, TypeOK', MapInv, NoOrphans, LeadInv, Kinds
    PROVE  LeadInv'
<1>1. ASSUME NEW X \in SUBSET Jobs, NEW je \in Jobs \X Entries, AcceptedAfter(X)[je] # NoDoc
      PROVE  /\ AcceptedAfter(X)[je] = accepted[je]
             /\ JobOf[accepted[je]] = je[1] /\ EntryOf[accepted[je]] = je[2]
             /\ accepted[je] \in (documents \ Dropped(X)) \cup rolledBack
    <2>. DEFINE d == accepted[je]
    <2>1. AcceptedAfter(X)[je] = d /\ ~(je[1] \in X /\ \E c \in documentIds[je[1]] \cap documents : EntryOf[c] = je[2])
        BY <1>1 DEF AcceptedAfter
    <2>2. d # NoDoc /\ d \in Docs
        BY <1>1, <2>1 DEF TypeOK
    <2>3. JobOf[d] = je[1] /\ EntryOf[d] = je[2] /\ d \in documents \cup rolledBack
        BY <2>2 DEF LeadInv
    <2>4. d \in documents => d \notin Dropped(X)
        BY <2>1, <2>2, <2>3, DroppedMine DEF NoOrphans
    <2>. QED BY <2>1, <2>3, <2>4
<1>2. ASSUME NEW X \in SUBSET Jobs, accepted' = AcceptedAfter(X),
             documents' = documents \ Dropped(X), UNCHANGED rolledBack
      PROVE  LeadInv'
    BY <1>1, <1>2 DEF LeadInv
<1>3. ASSUME NEW j \in Jobs, RegisterJob(j) PROVE LeadInv'
    <2>1. aged \in SUBSET Jobs
        BY DEF TypeOK
    <2>. QED BY <1>2, <1>3, <2>1 DEF RegisterJob
<1>4. ASSUME NEW d \in Docs, RegisterDocument(d) PROVE LeadInv'
    <2>1. /\ Evicted \in SUBSET Jobs /\ UNCHANGED rolledBack
          /\ accepted' = [je \in Jobs \X Entries |->
                            IF je = <<JobOf[d], EntryOf[d]>> THEN d ELSE AcceptedAfter(Evicted)[je]]
          /\ documents' = (documents \ Dropped(Evicted)) \cup {d}
        BY <1>4 DEF TypeOK, RegisterDocument, Evicted
    <2>2. ASSUME NEW je \in Jobs \X Entries, accepted'[je] # NoDoc
          PROVE  /\ JobOf[accepted'[je]] = je[1] /\ EntryOf[accepted'[je]] = je[2]
                 /\ accepted'[je] \in documents' \cup rolledBack'
        <3>1. CASE je = <<JobOf[d], EntryOf[d]>>
            BY <2>1, <3>1
        <3>2. CASE je # <<JobOf[d], EntryOf[d]>>
            <4>1. accepted'[je] = AcceptedAfter(Evicted)[je]
                BY <2>1, <3>2
            <4>. QED BY <1>1, <2>1, <2>2, <4>1
        <3>. QED BY <3>1, <3>2
    <2>. QED BY <2>2 DEF LeadInv
<1>5. ASSUME NEW d \in Docs, Begins(d) \/ UnregisterPending(d) PROVE LeadInv'
    BY <1>5 DEF Begins, UnregisterPending, LeadInv, mapVars
<1>6. ASSUME NEW X \in SUBSET Jobs,
             Expires(X) \/ \E T \in SUBSET Docs, new \in DocTerminal : Report(X, T, new)
      PROVE  LeadInv'
    BY <1>2, <1>6 DEF Expires, Drop, Report, HistoryGrows
<1>7. CASE Restart
    BY <1>7 DEF Restart, LeadInv
<1>8. CASE Quiet
    BY <1>8 DEF Quiet, HistoryGrows, LeadInv, mapVars
<1>. QED BY <1>3, <1>4, <1>5, <1>6, <1>7, <1>8 DEF Kinds

\* An upload that met a missing document repeats one that was rolled back.
ErrorInv ==
    \A d \in Docs : outcome[d] = "error" =>
        \E c \in rolledBack : JobOf[c] = JobOf[d] /\ EntryOf[c] = EntryOf[d]

LEMMA ErrorStep ==
    ASSUME TypeOK, LeadInv, ErrorInv, Kinds
    PROVE  ErrorInv'
<1>1. rolledBack \subseteq rolledBack'
    BY DEF Kinds, RegisterJob, RegisterDocument, Begins, UnregisterPending, Expires, Report, Restart,
           Quiet, HistoryGrows
<1>2. ASSUME NEW d \in Docs, outcome'[d] = "error" PROVE outcome[d] = "error" \/ Stranded(d)
    <2>1. CASE \E e \in Docs : RegisterDocument(e)
        BY <1>2, <2>1 DEF RegisterDocument, Answer, TypeOK
    <2>2. CASE \E X \in SUBSET Jobs : Expires(X)
        BY <1>2, <2>2 DEF Expires, HistoryGrows
    <2>3. CASE Quiet
        BY <1>2, <2>3 DEF Quiet, HistoryGrows
    <2>4. CASE UNCHANGED outcome
        BY <1>2, <2>4
    <2>. QED BY <2>1, <2>2, <2>3, <2>4
             DEF Kinds, RegisterJob, Begins, UnregisterPending, Report, Restart
<1>3. ASSUME NEW d \in Docs, Stranded(d)
      PROVE  \E c \in rolledBack : JobOf[c] = JobOf[d] /\ EntryOf[c] = EntryOf[d]
    <2>. DEFINE je == <<JobOf[d], EntryOf[d]>>
    <2>1. EntryOf[d] \in Entries /\ JobOf[d] \in Jobs /\ accepted[je] # NoDoc /\ accepted[je] \notin documents
        BY <1>3, JobTrackerAssumption DEF Stranded, Prior
    <2>2. je \in Jobs \X Entries /\ je[1] = JobOf[d] /\ je[2] = EntryOf[d]
        BY <2>1
    <2>. HIDE DEF je
    <2>. QED BY <2>1, <2>2 DEF LeadInv
<1>4. ASSUME NEW d \in Docs, outcome'[d] = "error"
      PROVE  \E c \in rolledBack' : JobOf[c] = JobOf[d] /\ EntryOf[c] = EntryOf[d]
    BY <1>1, <1>2, <1>3, <1>4 DEF ErrorInv
<1>. QED BY <1>4 DEF ErrorInv

LEMMA EntriesUnique ==
    ASSUME TypeOK, EntryInv
    PROVE  OneDocumentPerEntry
BY DEF EntryInv, OneDocumentPerEntry

\* A key leads to a live job that was registered with it.
KeyInv ==
    /\ OneJobPerKey
    /\ \A k \in Keys : idempotency[k] # NoJob => KeyOf[idempotency[k]] = k

LEMMA KeyStep ==
    ASSUME TypeOK, TypeOK', MapInv, KeyInv, Kinds
    PROVE  KeyInv'
<1>0. \A j \in Jobs : j # NoJob /\ (Keyed(j) => KeyOf[j] \in Keys)
    BY JobTrackerAssumption DEF Keyed
<1>1. ASSUME NEW X \in SUBSET Jobs, NEW k \in Keys
      PROVE  /\ KeysAfter(X)[k] # NoJob =>
                    KeysAfter(X)[k] \in jobs \ X /\ KeyOf[KeysAfter(X)[k]] = k
             /\ \A j \in jobs \ X : Keyed(j) /\ KeyOf[j] = k => KeysAfter(X)[k] = j
    BY <1>0 DEF KeysAfter, KeyInv, OneJobPerKey, TypeOK
<1>2. ASSUME NEW X \in SUBSET Jobs, idempotency' = KeysAfter(X), jobs' = jobs \ X
      PROVE  KeyInv'
    BY <1>0, <1>1, <1>2 DEF KeyInv, OneJobPerKey, TypeOK
<1>3. ASSUME NEW j \in Jobs, RegisterJob(j) PROVE KeyInv'
    <2>1. /\ idempotency' = [k \in Keys |-> IF Keyed(j) /\ k = KeyOf[j] THEN j ELSE KeysAfter(aged)[k]]
          /\ jobs' = (jobs \ aged) \cup {j} /\ j \notin jobs /\ ~Answered(j) /\ aged \in SUBSET Jobs
        BY <1>3 DEF RegisterJob, MapInv, TypeOK
    <2>2. Keyed(j) => KeysAfter(aged)[KeyOf[j]] = NoJob
        BY <1>0, <1>1, <2>1 DEF Answered, Owner
    <2>3. ASSUME NEW i \in jobs', Keyed(i) PROVE idempotency'[KeyOf[i]] = i
        <3>1. CASE i = j
            BY <1>0, <2>1, <2>3, <3>1
        <3>2. CASE i # j
            <4>1. i \in jobs \ aged /\ i \in Jobs
                BY <2>1, <2>3, <3>2 DEF TypeOK
            <4>2. KeyOf[i] \in Keys /\ KeysAfter(aged)[KeyOf[i]] = i
                BY <1>0, <1>1, <2>1, <2>3, <4>1
            <4>. QED BY <1>0, <2>1, <2>2, <4>1, <4>2
        <3>. QED BY <3>1, <3>2
    <2>4. ASSUME NEW k \in Keys, idempotency'[k] # NoJob
          PROVE  idempotency'[k] \in jobs' /\ KeyOf[idempotency'[k]] = k
        BY <1>1, <2>1, <2>4
    <2>. QED BY <2>3, <2>4 DEF KeyInv, OneJobPerKey, Keyed
<1>4. ASSUME NEW d \in Docs, RegisterDocument(d) PROVE KeyInv'
    BY <1>2, <1>4 DEF RegisterDocument, Evicted, TypeOK
<1>5. ASSUME NEW d \in Docs, Begins(d) \/ UnregisterPending(d) PROVE KeyInv'
    BY <1>5 DEF Begins, UnregisterPending, KeyInv, OneJobPerKey, Keyed, mapVars
<1>6. ASSUME NEW X \in SUBSET Jobs,
             Expires(X) \/ \E T \in SUBSET Docs, new \in DocTerminal : Report(X, T, new)
      PROVE  KeyInv'
    BY <1>2, <1>6 DEF Expires, Drop, Report
<1>7. CASE Restart \/ Quiet
    BY <1>7 DEF Restart, Quiet, KeyInv, OneJobPerKey, Keyed, mapVars
<1>. QED BY <1>3, <1>4, <1>5, <1>6, <1>7 DEF Kinds

-----------------------------------------------------------------------------
(* The counts are those of the documents.                                  *)

LEMMA EmptyCounted ==
    ASSUME NEW s \in Statuses, NEW P
    PROVE  EmptyCounts[s] = Cardinality({d \in {} : P[d] = s})
<1>1. {d \in {} : P[d] = s} = {}
    OBVIOUS
<1>. QED BY <1>1, FS_EmptySet DEF EmptyCounts

LEMMA CountStep ==
    ASSUME TypeOK, TypeOK', MapInv, NoOrphans, CountsMatchDocuments, Kinds
    PROVE  CountsMatchDocuments'
<1>0. \A d \in Docs : JobOf[d] \in Jobs
    BY JobTrackerAssumption
<1>a. \A j \in jobs : j \in Jobs /\ documentIds[j] \in SUBSET Docs /\ counts[j] \in [Statuses -> Nat]
    BY DEF TypeOK
<1>1. ASSUME NEW j \in Jobs, RegisterJob(j) PROVE CountsMatchDocuments'
    <2>1. ASSUME NEW i \in jobs', NEW s \in Statuses
          PROVE  counts'[i][s] = Cardinality({d \in documentIds'[i] : status'[d] = s})
        <3>1. CASE i = j
            <4>1. j \notin jobs /\ j \notin aged
                BY <1>1 DEF RegisterJob, MapInv, TypeOK
            <4>2. documentIds'[i] = {} /\ counts'[i] = EmptyCounts
                BY <1>1, <3>1, <4>1 DEF RegisterJob, ForgetAggregates, MapInv
            <4>. QED BY <4>2, EmptyCounted
        <3>2. CASE i # j
            <4>1. i \in jobs /\ i \notin aged
                BY <1>1, <2>1, <3>2 DEF RegisterJob
            <4>2. documentIds'[i] = documentIds[i] /\ counts'[i] = counts[i] /\ status' = status
                BY <1>1, <1>a, <4>1 DEF RegisterJob, ForgetAggregates
            <4>. QED BY <4>1, <4>2 DEF CountsMatchDocuments
        <3>. QED BY <3>1, <3>2
    <2>. QED BY <2>1 DEF CountsMatchDocuments
<1>2. ASSUME NEW d \in Docs, RegisterDocument(d) PROVE CountsMatchDocuments'
    <2>. DEFINE j == JobOf[d]
    <2>1. /\ j \in Jobs /\ j \in jobs /\ j \notin Evicted
          /\ outcome[d] = "none"
          /\ status' = [status EXCEPT ![d] = "pending"]
          /\ jobs' = jobs \ Evicted
          /\ documentIds' = [i \in Jobs |-> IF i \in Evicted THEN {}
                                            ELSE IF i = j THEN documentIds[j] \cup {d} ELSE documentIds[i]]
          /\ counts' = [i \in Jobs |-> IF i \in Evicted THEN EmptyCounts
                                 ELSE IF i = j THEN [counts[j] EXCEPT !["pending"] = @ + 1] ELSE counts[i]]
        BY <1>0, <1>2 DEF RegisterDocument, Answer, Live, Evicted
    <2>2. \A i \in Jobs : d \notin documentIds[i]
        BY <2>1 DEF MapInv
    <2>3. ASSUME NEW i \in jobs', NEW s \in Statuses
          PROVE  counts'[i][s] = Cardinality({e \in documentIds'[i] : status'[e] = s})
        <3>. DEFINE W == {e \in documentIds[i] : status[e] = s}
                    V == {e \in documentIds'[i] : status'[e] = s}
        <3>1. i \in Jobs /\ i \in jobs /\ i \notin Evicted
            BY <2>1, <2>3, <1>a
        <3>2. counts[i][s] = Cardinality(W) /\ W \in SUBSET Docs /\ d \notin W
            BY <1>a, <2>2, <3>1 DEF CountsMatchDocuments
        <3>3. IsFiniteSet(W)
            BY <3>2, DocsFinite
        <3>4. CASE i = j /\ s = "pending"
            <4>1. V = W \cup {d}
                BY <1>a, <2>1, <2>2, <3>1, <3>4 DEF TypeOK
            <4>2. Cardinality(V) = Cardinality(W) + 1
                BY <3>2, <3>3, <4>1, FS_AddElement
            <4>. QED BY <1>a, <2>1, <3>1, <3>2, <3>4, <4>2
        <3>5. CASE ~(i = j /\ s = "pending")
            <4>1. V = W
                BY <1>a, <2>1, <2>2, <3>1, <3>5 DEF TypeOK
            <4>2. counts'[i][s] = counts[i][s]
                BY <1>a, <2>1, <3>1, <3>5
            <4>. QED BY <3>2, <4>1, <4>2
        <3>. QED BY <3>4, <3>5
    <2>. QED BY <2>3 DEF CountsMatchDocuments
<1>3. ASSUME NEW d \in Docs, Begins(d) PROVE CountsMatchDocuments'
    <2>. DEFINE j == JobOf[d]
    <2>1. j \in Jobs /\ j \in jobs /\ d \in documentIds[j]
        BY <1>0, <1>3 DEF Begins, NoOrphans
    <2>2. ASSUME NEW i \in jobs', NEW s \in Statuses
          PROVE  counts'[i][s] = Cardinality({e \in documentIds'[i] : status'[e] = s})
        <3>1. i \in jobs /\ documentIds' = documentIds
            BY <1>3, <2>2 DEF Begins, mapVars
        <3>2. CASE i = j
            <4>1. counts'[i] = Adjusted(counts[j], {d}, "processing")
                BY <1>3, <2>1, <3>2 DEF Begins, TypeOK
            <4>2. /\ \A r \in Statuses : counts[j][r] = Cardinality(With(documentIds[j], r))
                  /\ "processing" \in Statuses
                BY <2>1 DEF CountsMatchDocuments, With, Statuses
            <4>5. /\ {d} \in SUBSET documentIds[j]
                  /\ \A e \in {d} : status[e] # "processing"
                  /\ \A e \in documentIds[j] : status'[e] = IF e \in {d} THEN "processing" ELSE status[e]
                BY <1>3, <1>a, <2>1 DEF Begins, TypeOK
            <4>3. documentIds[j] \in SUBSET Docs /\ counts[j] \in [Statuses -> Nat]
                BY <1>a, <2>1
            <4>4. Adjusted(counts[j], {d}, "processing")[s] = Cardinality(WithNext(documentIds[j], s))
                BY <4>2, <4>3, <4>5, AdjustedCounts
            <4>. QED BY <3>1, <3>2, <4>1, <4>4 DEF WithNext
        <3>3. CASE i # j
            <4>1. counts'[i] = counts[i]
                BY <1>3, <1>a, <3>1, <3>3 DEF Begins, TypeOK
            <4>2. {e \in documentIds'[i] : status'[e] = s} = {e \in documentIds[i] : status[e] = s}
                BY <1>3, <1>a, <3>1, <3>3 DEF Begins, MapInv, TypeOK
            <4>. QED BY <3>1, <4>1, <4>2 DEF CountsMatchDocuments
        <3>. QED BY <3>2, <3>3
    <2>. QED BY <2>2 DEF CountsMatchDocuments
<1>4. ASSUME NEW d \in Docs, UnregisterPending(d) PROVE CountsMatchDocuments'
    <2>. DEFINE j == JobOf[d]
    <2>1. /\ j \in Jobs /\ j \in jobs /\ d \in documentIds[j] /\ status[d] = "pending"
          /\ status' = status /\ jobs' = jobs
          /\ documentIds' = [documentIds EXCEPT ![j] = @ \ {d}]
          /\ counts' = [counts EXCEPT ![j]["pending"] = Floor(@ - 1)]
        BY <1>0, <1>4 DEF UnregisterPending, NoOrphans
    <2>2. ASSUME NEW i \in jobs', NEW s \in Statuses
          PROVE  counts'[i][s] = Cardinality({e \in documentIds'[i] : status'[e] = s})
        <3>. DEFINE W == {e \in documentIds[i] : status[e] = s}
                    V == {e \in documentIds'[i] : status'[e] = s}
        <3>1. i \in Jobs /\ i \in jobs /\ documentIds[i] \in SUBSET Docs /\ counts[i] \in [Statuses -> Nat]
            BY <1>a, <2>1, <2>2
        <3>2. counts[i][s] = Cardinality(W) /\ W \in SUBSET Docs
            BY <3>1 DEF CountsMatchDocuments
        <3>3. CASE i = j /\ s = "pending"
            <4>1. V = W \ {d} /\ d \in W
                BY <2>1, <3>1, <3>3 DEF TypeOK
            <4>4. IsFiniteSet(W) /\ Cardinality(W) \in Nat /\ V \in SUBSET Docs
                BY <3>2, <4>1, DocsFinite
            <4>5. Cardinality(V) \in Nat
                BY <4>4, DocsFinite
            <4>6. Cardinality(W \ {d}) = Cardinality(W) - 1
                BY <4>1, <4>4, FS_RemoveElement
            <4>2. Cardinality(V) = Cardinality(W) - 1 /\ Cardinality(V) \in Nat /\ Cardinality(W) \in Nat
                BY <4>1, <4>4, <4>5, <4>6
            <4>3. counts'[i][s] = Floor(counts[i][s] - 1)
                BY <2>1, <3>1, <3>3 DEF TypeOK, Statuses
            <4>. QED BY <3>2, <4>2, <4>3 DEF Floor
        <3>4. CASE ~(i = j /\ s = "pending")
            <4>1. V = W
                BY <2>1, <3>1, <3>4 DEF TypeOK
            <4>2. counts'[i][s] = counts[i][s]
                BY <2>1, <3>1, <3>4 DEF TypeOK
            <4>. QED BY <3>2, <4>1, <4>2
        <3>. QED BY <3>3, <3>4
    <2>. QED BY <2>2 DEF CountsMatchDocuments
<1>5. ASSUME NEW X \in SUBSET Jobs, Expires(X) PROVE CountsMatchDocuments'
    <2>1. \A j \in jobs' : /\ j \in jobs /\ counts'[j] = counts[j] /\ documentIds'[j] = documentIds[j]
        BY <1>5, <1>a DEF Expires, Drop, ForgetAggregates
    <2>. QED BY <1>5, <2>1 DEF Expires, CountsMatchDocuments
<1>6. ASSUME NEW X \in SUBSET Jobs, NEW T \in SUBSET Docs, NEW new \in DocTerminal, Report(X, T, new)
      PROVE  CountsMatchDocuments'
    <2>1. ASSUME NEW i \in jobs', NEW s \in Statuses
          PROVE  counts'[i][s] = Cardinality({e \in documentIds'[i] : status'[e] = s})
        <3>1. /\ i \in jobs /\ i \in Jobs /\ documentIds'[i] = documentIds[i]
              /\ counts'[i] = After(i, T, new)
              /\ \A e \in Docs : status'[e] = IF e \in T THEN new ELSE status[e]
            BY <1>6, <1>a, <2>1 DEF Report
        <3>2. /\ Mine(T, i) = documentIds[i] \cap T
              /\ \A e \in Mine(T, i) : status[e] # new
              /\ \A e \in documentIds[i] : status'[e] = IF e \in Mine(T, i) THEN new ELSE status[e]
            BY <1>6, <1>a, <3>1 DEF Mine, Report, Marked, NoOrphans, MapInv
        <3>3. CASE Mine(T, i) = {}
            <4>1. {e \in documentIds'[i] : status'[e] = s} = {e \in documentIds[i] : status[e] = s}
                BY <1>a, <3>1, <3>2, <3>3
            <4>. QED BY <3>1, <3>3, <4>1 DEF After, CountsMatchDocuments
        <3>4. CASE Mine(T, i) # {}
            <4>1. counts'[i] = Adjusted(counts[i], Mine(T, i), new)
                BY <3>1, <3>4 DEF After
            <4>2. /\ \A r \in Statuses : counts[i][r] = Cardinality(With(documentIds[i], r))
                  /\ documentIds[i] \in SUBSET Docs /\ counts[i] \in [Statuses -> Nat] /\ new \in Statuses
                BY <1>a, <3>1 DEF CountsMatchDocuments, With, DocTerminal, Statuses
            <4>3. Adjusted(counts[i], Mine(T, i), new)[s] = Cardinality(WithNext(documentIds[i], s))
                <5>1. /\ Mine(T, i) \in SUBSET documentIds[i] /\ documentIds[i] \in SUBSET Docs
                      /\ new \in Statuses /\ s \in Statuses /\ counts[i] \in [Statuses -> Nat]
                    BY <2>1, <3>2, <4>2
                <5>2. \A r \in Statuses : counts[i][r] = Cardinality(With(documentIds[i], r))
                    BY <4>2
                <5>3. \A e \in Mine(T, i) : status[e] # new
                    BY <3>2
                <5>4. \A e \in documentIds[i] : status'[e] = IF e \in Mine(T, i) THEN new ELSE status[e]
                    BY <3>2
                <5>5. ASSUME NEW S, NEW D, NEW c, S = documentIds[i], D = Mine(T, i), c = counts[i]
                      PROVE  Adjusted(c, D, new)[s] = Cardinality(WithNext(S, s))
                    <6>1. /\ D \in SUBSET S /\ S \in SUBSET Docs /\ c \in [Statuses -> Nat]
                          /\ \A e \in D : status[e] # new
                        BY <5>1, <5>3, <5>5
                    <6>2. \A r \in Statuses : c[r] = Cardinality(With(S, r))
                        BY <5>2, <5>5
                    <6>3. \A e \in S : status'[e] = IF e \in D THEN new ELSE status[e]
                        BY <5>4, <5>5
                    <6>. QED BY ONLY <5>1, <6>1, <6>2, <6>3, AdjustedCounts
                <5>. QED BY <5>5
            <4>. QED BY <3>1, <4>1, <4>3 DEF WithNext
        <3>. QED BY <3>3, <3>4
    <2>. QED BY <2>1 DEF CountsMatchDocuments
<1>7. CASE Restart
    BY <1>7 DEF Restart, CountsMatchDocuments
<1>8. CASE Quiet
    BY <1>8 DEF Quiet, CountsMatchDocuments, aggVars, mapVars
<1>. QED BY <1>1, <1>2, <1>3, <1>4, <1>5, <1>6, <1>7, <1>8 DEF Kinds

-----------------------------------------------------------------------------
(* Finalization.                                                           *)

\* A job of n documents with the documents S, the counts c and the status js is
\* terminal when all n are, with the status that the counts say.
FinalAt(S, c, js, n) ==
    /\ Cardinality(S) <= n
    /\ js \in JobTerminal <=> TerminalCount(c) = n
    /\ js \in JobTerminal => js = Derived(c)

FinalInv == \A j \in jobs : FinalAt(documentIds[j], counts[j], jobStatus[j], Expected[j])

\* Neither the terminal counts nor the terminal status changes, and no document
\* comes.
LEMMA FinalFrame ==
    ASSUME NEW S \in SUBSET Docs, NEW T \in SUBSET S, NEW c, NEW e, NEW js, NEW is, NEW n \in Nat,
           FinalAt(S, c, js, n),
           e["completed"] = c["completed"], e["failed"] = c["failed"],
           is = js \/ (js \notin JobTerminal /\ is \notin JobTerminal)
    PROVE  FinalAt(T, e, is, n)
<1>1. Cardinality(T) <= Cardinality(S) /\ Cardinality(T) \in Nat /\ Cardinality(S) \in Nat
    BY DocsFinite, FS_Subset
<1>2. TerminalCount(e) = TerminalCount(c) /\ Derived(e) = Derived(c)
    BY DEF TerminalCount, Derived
<1>3. Cardinality(T) <= n
    BY <1>1 DEF FinalAt
<1>. QED BY <1>2, <1>3 DEF FinalAt

\* The documents of a job that ended are as many as its counts say.
LEMMA EndedCounted ==
    ASSUME TypeOK, CountsMatchDocuments, NEW j \in jobs
    PROVE  /\ documentIds[j] \in SUBSET Docs /\ counts[j] \in [Statuses -> Nat] /\ Expected[j] \in Nat
           /\ \A s \in Statuses : counts[j][s] = Cardinality(With(documentIds[j], s))
           /\ Cardinality(With(documentIds[j], "completed") \cup With(documentIds[j], "failed"))
                = TerminalCount(counts[j])
<1>. DEFINE S == documentIds[j]
            C == With(S, "completed")
            F == With(S, "failed")
<1>1. S \in SUBSET Docs /\ counts[j] \in [Statuses -> Nat] /\ Expected[j] \in Nat
    BY JobTrackerAssumption DEF TypeOK
<1>2. \A s \in Statuses : counts[j][s] = Cardinality(With(S, s))
    BY DEF CountsMatchDocuments, With
<1>3. C \in SUBSET Docs /\ F \in SUBSET Docs /\ C \cap F = {}
    BY <1>1 DEF With
<1>4. Cardinality(C \cup F) = Cardinality(C) + Cardinality(F)
    BY <1>3, CountUnion
<1>5. counts[j]["completed"] = Cardinality(C) /\ counts[j]["failed"] = Cardinality(F)
    BY <1>2 DEF Statuses
<1>. QED BY <1>1, <1>2, <1>4, <1>5 DEF TerminalCount

\* No document of a terminal job is still open.
LEMMA TerminalJobEnded ==
    ASSUME TypeOK, CountsMatchDocuments, FinalInv, NEW j \in jobs, jobStatus[j] \in JobTerminal,
           NEW d \in documentIds[j]
    PROVE  status[d] \in DocTerminal
<1>. DEFINE S == documentIds[j]
            E == With(S, "completed") \cup With(S, "failed")
<1>1. /\ S \in SUBSET Docs /\ E \in SUBSET S
      /\ Cardinality(E) = TerminalCount(counts[j]) /\ Expected[j] \in Nat
    BY EndedCounted DEF With
<1>2. Cardinality(S) <= Expected[j] /\ TerminalCount(counts[j]) = Expected[j]
    BY DEF FinalInv, FinalAt
<1>3. /\ Cardinality(S) \in Nat /\ Cardinality(E) <= Cardinality(S)
      /\ Cardinality(S) = Cardinality(E) => S = E
    BY <1>1, DocsFinite, FS_Subset
<1>4. S = E
    BY <1>1, <1>2, <1>3
<1>. QED BY <1>4 DEF With, DocTerminal

LEMMA FinalStep ==
    ASSUME TypeOK, TypeOK', MapInv, NoOrphans, CountsMatchDocuments, FinalInv, Kinds
    PROVE  FinalInv'
<1>0. \A d \in Docs : JobOf[d] \in Jobs
    BY JobTrackerAssumption
<1>a. \A j \in Jobs : /\ documentIds[j] \in SUBSET Docs /\ counts[j] \in [Statuses -> Nat]
                      /\ Expected[j] \in Nat /\ Expected[j] > 0
    BY JobTrackerAssumption DEF TypeOK
<1>b. "completed" \in Statuses /\ "failed" \in Statuses
    BY DEF Statuses
<1>c. jobs \subseteq Jobs /\ jobs' \subseteq Jobs
    BY DEF TypeOK
\* A job that the step leaves alone, or that loses documents or begins.
<1>f. ASSUME NEW j \in jobs, documentIds'[j] \subseteq documentIds[j],
             counts'[j]["completed"] = counts[j]["completed"], counts'[j]["failed"] = counts[j]["failed"],
             jobStatus'[j] = jobStatus[j] \/ (jobStatus[j] \notin JobTerminal /\ jobStatus'[j] \notin JobTerminal)
      PROVE  FinalAt(documentIds'[j], counts'[j], jobStatus'[j], Expected[j])
    <2>1. FinalAt(documentIds[j], counts[j], jobStatus[j], Expected[j])
        BY DEF FinalInv
    <2>2. j \in Jobs
        BY <1>c
    <2>. QED BY <1>a, <1>f, <2>1, <2>2, FinalFrame
<1>1. ASSUME NEW j \in Jobs, RegisterJob(j) PROVE FinalInv'
    <2>1. ASSUME NEW i \in jobs'
          PROVE  FinalAt(documentIds'[i], counts'[i], jobStatus'[i], Expected[i])
        <3>1. CASE i = j
            <4>1. j \notin jobs /\ j \notin aged
                BY <1>1 DEF RegisterJob, MapInv, TypeOK
            <4>2. documentIds'[i] = {} /\ counts'[i] = EmptyCounts /\ jobStatus'[i] = "pending"
                BY <1>1, <3>1, <4>1 DEF RegisterJob, ForgetAggregates, MapInv
            <4>3. Cardinality({}) = 0 /\ TerminalCount(EmptyCounts) = 0 /\ "pending" \notin JobTerminal
                BY <1>b, FS_EmptySet DEF TerminalCount, EmptyCounts, JobTerminal
            <4>4. Expected[i] \in Nat /\ Expected[i] > 0
                BY <1>a, <3>1
            <4>. QED BY <4>2, <4>3, <4>4 DEF FinalAt
        <3>2. CASE i # j
            <4>1. i \in jobs /\ i \notin aged /\ i \in Jobs
                BY <1>1, <1>c, <2>1, <3>2 DEF RegisterJob
            <4>2. documentIds'[i] = documentIds[i] /\ counts'[i] = counts[i] /\ jobStatus'[i] = jobStatus[i]
                BY <1>1, <4>1 DEF RegisterJob, ForgetAggregates
            <4>. QED BY <1>f, <4>1, <4>2
        <3>. QED BY <3>1, <3>2
    <2>. QED BY <2>1 DEF FinalInv
<1>2. ASSUME NEW d \in Docs, RegisterDocument(d) PROVE FinalInv'
    <2>. DEFINE j == JobOf[d]
    <2>1. /\ j \in Jobs /\ j \in jobs /\ j \notin Evicted
          /\ jobStatus[j] \notin JobTerminal /\ ~Full(j)
          /\ jobs' = jobs \ Evicted
          /\ documentIds' = [i \in Jobs |-> IF i \in Evicted THEN {}
                                            ELSE IF i = j THEN documentIds[j] \cup {d} ELSE documentIds[i]]
          /\ counts' = [i \in Jobs |-> IF i \in Evicted THEN EmptyCounts
                                 ELSE IF i = j THEN [counts[j] EXCEPT !["pending"] = @ + 1] ELSE counts[i]]
          /\ jobStatus' = [i \in Jobs |-> IF i \in Evicted THEN "pending" ELSE jobStatus[i]]
        BY <1>0, <1>2 DEF RegisterDocument, Live, Evicted
    <2>2. ASSUME NEW i \in jobs'
          PROVE  FinalAt(documentIds'[i], counts'[i], jobStatus'[i], Expected[i])
        <3>1. i \in Jobs /\ i \in jobs /\ i \notin Evicted /\ jobStatus'[i] = jobStatus[i]
            BY <1>c, <2>1, <2>2
        <3>2. CASE i = j
            <4>1. documentIds'[j] = documentIds[j] \cup {d}
                BY <2>1
            <4>2. Cardinality(documentIds'[j]) <= Cardinality(documentIds[j]) + 1
                <5>1. IsFiniteSet(documentIds[j]) /\ Cardinality(documentIds[j]) \in Nat
                    BY <1>a, <2>1, DocsFinite
                <5>2. Cardinality(documentIds[j] \cup {d}) =
                         IF d \in documentIds[j] THEN Cardinality(documentIds[j]) ELSE Cardinality(documentIds[j]) + 1
                    BY ONLY <5>1, FS_AddElement
                <5>. QED BY <4>1, <5>1, <5>2
            <4>3. /\ Cardinality(documentIds[j]) \in Nat /\ Cardinality(documentIds'[j]) \in Nat
                  /\ Expected[j] \in Nat /\ ~(Cardinality(documentIds[j]) >= Expected[j])
                <5>1. documentIds[j] \in SUBSET Docs /\ documentIds'[j] \in SUBSET Docs
                    BY <1>a, <2>1, <4>1
                <5>. QED BY <1>a, <2>1, <5>1, DocsFinite DEF Full
            <4>4. Cardinality(documentIds'[j]) <= Expected[j]
                BY <4>2, <4>3
            <4>5. counts'[j]["completed"] = counts[j]["completed"] /\ counts'[j]["failed"] = counts[j]["failed"]
                BY <1>a, <1>b, <2>1
            <4>6. TerminalCount(counts'[j]) = TerminalCount(counts[j]) /\ jobStatus'[j] = jobStatus[j]
                BY <2>1, <4>5 DEF TerminalCount
            <4>7. TerminalCount(counts[j]) # Expected[j]
                BY <2>1 DEF FinalInv, FinalAt
            <4>. QED BY <2>1, <3>2, <4>4, <4>6, <4>7 DEF FinalAt
        <3>3. CASE i # j
            <4>1. documentIds'[i] = documentIds[i] /\ counts'[i] = counts[i]
                BY <2>1, <3>1, <3>3
            <4>. QED BY <1>f, <3>1, <4>1
        <3>. QED BY <3>2, <3>3
    <2>. QED BY <2>2 DEF FinalInv
<1>3. ASSUME NEW d \in Docs, Begins(d) PROVE FinalInv'
    <2>1. JobOf[d] \in Jobs /\ JobOf[d] \in jobs
        BY <1>0, <1>3 DEF Begins, NoOrphans
    <2>2. ASSUME NEW s \in DocTerminal PROVE Adjusted(counts[JobOf[d]], {d}, "processing")[s] = counts[JobOf[d]][s]
        <3>1. s \in Statuses /\ s # "processing" /\ {e \in {d} : status[e] = s} = {}
            BY <1>3 DEF Begins, DocTerminal, Statuses
        <3>2. Cardinality({e \in {d} : status[e] = s}) = 0 /\ counts[JobOf[d]][s] \in Nat
            BY <1>a, <2>1, <3>1, FS_EmptySet
        <3>. QED BY <3>1, <3>2 DEF Adjusted, Floor
    <2>3. ASSUME NEW i \in jobs'
          PROVE  FinalAt(documentIds'[i], counts'[i], jobStatus'[i], Expected[i])
        <3>1. i \in jobs /\ i \in Jobs /\ documentIds' = documentIds
            BY <1>3, <1>c, <2>3 DEF Begins, mapVars
        <3>2. counts'[i]["completed"] = counts[i]["completed"] /\ counts'[i]["failed"] = counts[i]["failed"]
            BY <1>3, <2>1, <2>2, <3>1 DEF Begins, TypeOK, DocTerminal
        <3>3. jobStatus'[i] = jobStatus[i] \/ (jobStatus[i] \notin JobTerminal /\ jobStatus'[i] \notin JobTerminal)
            BY <1>3, <2>1, <3>1 DEF Begins, TypeOK, JobTerminal
        <3>. QED BY <1>f, <3>1, <3>2, <3>3
    <2>. QED BY <2>3 DEF FinalInv
<1>4. ASSUME NEW d \in Docs, UnregisterPending(d) PROVE FinalInv'
    <2>1. JobOf[d] \in Jobs /\ JobOf[d] \in jobs
        BY <1>0, <1>4 DEF UnregisterPending, NoOrphans
    <2>2. ASSUME NEW i \in jobs'
          PROVE  FinalAt(documentIds'[i], counts'[i], jobStatus'[i], Expected[i])
        <3>1. i \in jobs /\ i \in Jobs /\ jobStatus'[i] = jobStatus[i]
            BY <1>4, <1>c, <2>2 DEF UnregisterPending
        <3>2. documentIds'[i] \subseteq documentIds[i]
            BY <1>4, <3>1 DEF UnregisterPending, TypeOK
        <3>3. counts'[i]["completed"] = counts[i]["completed"] /\ counts'[i]["failed"] = counts[i]["failed"]
            BY <1>4, <1>a, <1>b, <2>1, <3>1 DEF UnregisterPending, TypeOK
        <3>. QED BY <1>f, <3>1, <3>2, <3>3
    <2>. QED BY <2>2 DEF FinalInv
<1>5. ASSUME NEW X \in SUBSET Jobs, Expires(X) PROVE FinalInv'
    <2>1. \A j \in jobs' : /\ j \in jobs /\ documentIds'[j] = documentIds[j]
                           /\ counts'[j] = counts[j] /\ jobStatus'[j] = jobStatus[j]
        BY <1>5, <1>c DEF Expires, Drop, ForgetAggregates
    <2>. QED BY <2>1 DEF FinalInv
<1>6. ASSUME NEW X \in SUBSET Jobs, NEW T \in SUBSET Docs, NEW new \in DocTerminal, Report(X, T, new)
      PROVE  FinalInv'
    <2>1. ASSUME NEW i \in jobs'
          PROVE  FinalAt(documentIds'[i], counts'[i], jobStatus'[i], Expected[i])
        <3>. DEFINE D == Mine(T, i)
                    c == Adjusted(counts[i], D, new)
        <3>1. /\ i \in jobs /\ i \in Jobs /\ documentIds'[i] = documentIds[i]
              /\ counts'[i] = After(i, T, new)
              /\ jobStatus'[i] = IF D # {} /\ Finalizes(i, After(i, T, new))
                                 THEN Derived(After(i, T, new)) ELSE jobStatus[i]
            BY <1>6, <1>c, <2>1 DEF Report
        <3>2. CASE D = {}
            <4>1. counts'[i] = counts[i] /\ jobStatus'[i] = jobStatus[i]
                BY <3>1, <3>2 DEF After
            <4>. QED BY <1>f, <3>1, <4>1
        <3>3. CASE D # {}
            <4>1. D \in SUBSET documentIds[i] /\ \A e \in D : status[e] \notin DocTerminal
                BY <1>6, <3>1 DEF Mine, Report, Marked, NoOrphans
            <4>2. counts'[i] = c
                BY <3>1, <3>3 DEF After
            <4>3. jobStatus'[i] = IF Finalizes(i, c) THEN Derived(c) ELSE jobStatus[i]
                BY <3>1, <3>3 DEF After
            <4>4. jobStatus[i] \notin JobTerminal
                BY <3>1, <3>3, <4>1, TerminalJobEnded
            <4>5. Derived(c) \in JobTerminal
                BY DEF Derived, JobTerminal
            <4>6. Cardinality(documentIds[i]) <= Expected[i]
                BY <3>1 DEF FinalInv, FinalAt
            <4>. HIDE DEF c
            <4>. QED BY <3>1, <4>2, <4>3, <4>4, <4>5, <4>6 DEF FinalAt, Finalizes
        <3>. QED BY <3>2, <3>3
    <2>. QED BY <2>1 DEF FinalInv
<1>7. CASE Restart
    BY <1>7 DEF Restart, FinalInv
<1>8. CASE Quiet
    BY <1>8 DEF Quiet, FinalInv, aggVars, mapVars
<1>. QED BY <1>1, <1>2, <1>3, <1>4, <1>5, <1>6, <1>7, <1>8 DEF Kinds

\* The counts say what the documents are, so the status does.
LEMMA FinalMeans ==
    ASSUME TypeOK, CountsMatchDocuments, FinalInv
    PROVE  FinalizedExactly
<1>1. ASSUME NEW j \in jobs
      PROVE  LET ended == {d \in documentIds[j] : status[d] \in DocTerminal}
                 failed == {d \in ended : status[d] = "failed"}
             IN /\ Cardinality(documentIds[j]) <= Expected[j]
                /\ jobStatus[j] \in JobTerminal <=> Cardinality(ended) = Expected[j]
                /\ jobStatus[j] = "completed" => failed = {}
                /\ jobStatus[j] = "failed" => failed = ended
                /\ jobStatus[j] = "partial_success" => failed # {} /\ failed # ended
    <2>. DEFINE C == With(documentIds[j], "completed")
                F == With(documentIds[j], "failed")
                ended == {d \in documentIds[j] : status[d] \in DocTerminal}
                failed == {d \in ended : status[d] = "failed"}
    <2>1. ended = C \cup F /\ failed = F /\ C \cap F = {}
        BY DEF With, DocTerminal
    <2>2. FinalAt(documentIds[j], counts[j], jobStatus[j], Expected[j])
        BY DEF FinalInv
    <2>3. Cardinality(C \cup F) = TerminalCount(counts[j])
        BY EndedCounted
    <2>4. /\ counts[j]["completed"] = Cardinality(C) /\ counts[j]["failed"] = Cardinality(F)
          /\ C \in SUBSET Docs /\ F \in SUBSET Docs
        BY EndedCounted DEF Statuses, With
    <2>5. /\ Cardinality(C) \in Nat /\ Cardinality(F) \in Nat
          /\ Cardinality(C) = 0 <=> C = {}
          /\ Cardinality(F) = 0 <=> F = {}
        BY <2>4, DocsFinite, FS_EmptySet
    <2>6. /\ Derived(counts[j]) = "completed" => F = {}
          /\ Derived(counts[j]) = "failed" => C = {}
          /\ Derived(counts[j]) = "partial_success" => C # {} /\ F # {}
        BY <2>4, <2>5 DEF Derived
    <2>7. jobStatus[j] \in JobTerminal => jobStatus[j] = Derived(counts[j])
        BY <2>2 DEF FinalAt
    <2>8. /\ jobStatus[j] = "completed" => F = {}
          /\ jobStatus[j] = "failed" => C = {}
          /\ jobStatus[j] = "partial_success" => C # {} /\ F # {}
        BY <2>6, <2>7 DEF JobTerminal
    <2>9. /\ Cardinality(documentIds[j]) <= Expected[j]
          /\ jobStatus[j] \in JobTerminal <=> Cardinality(ended) = Expected[j]
        BY <2>1, <2>2, <2>3 DEF FinalAt
    <2>. QED BY <2>1, <2>8, <2>9
<1>. QED BY <1>1 DEF FinalizedExactly

-----------------------------------------------------------------------------
(* Milestones.                                                             *)

\* An open job is fewer than a step behind; an absent job has announced nothing.
RecentAt(p, n, js) == p \in 0..n /\ (js \notin JobTerminal => n - p < ProgressStep)

ProgressInv ==
    /\ \A j \in jobs : RecentAt(progress[j], TerminalCount(counts[j]), jobStatus[j])
    /\ \A j \in Jobs \ jobs : progress[j] = 0

\* Rounding down to a multiple of the step.
LEMMA Rounded ==
    ASSUME NEW a \in Nat, NEW m \in Nat \ {0}
    PROVE  m * (a \div m) \in 0..a /\ a - m * (a \div m) < m
<1>1. m * (a \div m) \in 0..a
    OBVIOUS
<1>2. a - m * (a \div m) < m
    OBVIOUS
<1>. QED BY <1>1, <1>2

LEMMA MilestoneRecent ==
    ASSUME NEW j \in Jobs, progress[j] \in Nat, NEW n \in Nat, progress[j] <= n
    PROVE  Milestone(j, n) \in 0..n /\ n - Milestone(j, n) < ProgressStep
<1>. DEFINE a == n - progress[j]
            r == ProgressStep * (a \div ProgressStep)
<1>1. a \in Nat /\ ProgressStep \in Nat \ {0}
    BY JobTrackerAssumption
<1>2. r \in 0..a /\ a - r < ProgressStep
    BY <1>1, Rounded
<1>3. Milestone(j, n) = progress[j] + r
    BY DEF Milestone
<1>. HIDE DEF r
<1>. QED BY <1>1, <1>2, <1>3

\* Marking D, none of which has ended, adds D to the terminal documents.
LEMMA TerminalGrows ==
    ASSUME NEW c \in [Statuses -> Nat], NEW D \in SUBSET Docs, NEW new \in DocTerminal,
           \A d \in D : status[d] \notin DocTerminal
    PROVE  TerminalCount(Adjusted(c, D, new)) = TerminalCount(c) + Cardinality(D)
<1>1. Cardinality(D) \in Nat
    BY DocsFinite
<1>2. ASSUME NEW s \in DocTerminal, s # new PROVE Adjusted(c, D, new)[s] = c[s]
    <2>1. s \in Statuses /\ {d \in D : status[d] = s} = {}
        BY <1>2 DEF DocTerminal, Statuses
    <2>2. Cardinality({d \in D : status[d] = s}) = 0 /\ c[s] \in Nat
        BY <2>1, FS_EmptySet
    <2>. QED BY <1>2, <2>1, <2>2 DEF Adjusted, Floor
<1>3. Adjusted(c, D, new)[new] = c[new] + Cardinality(D)
    BY DEF Adjusted, DocTerminal, Statuses
<1>4. c["completed"] \in Nat /\ c["failed"] \in Nat
    BY DEF Statuses
<1>. QED BY <1>1, <1>2, <1>3, <1>4 DEF TerminalCount, DocTerminal

LEMMA ProgressStepKeeps ==
    ASSUME TypeOK, TypeOK', MapInv, NoOrphans, ProgressInv, Kinds
    PROVE  ProgressInv'
<1>0. \A d \in Docs : JobOf[d] \in Jobs
    BY JobTrackerAssumption
<1>a. \A j \in Jobs : counts[j] \in [Statuses -> Nat]
    BY DEF TypeOK
<1>b. "completed" \in Statuses /\ "failed" \in Statuses
    BY DEF Statuses
<1>c. jobs \subseteq Jobs /\ jobs' \subseteq Jobs
    BY DEF TypeOK
\* A job that the step leaves alone, or whose documents come, begin or leave.
<1>f. ASSUME NEW j \in jobs, progress'[j] = progress[j],
             counts'[j]["completed"] = counts[j]["completed"], counts'[j]["failed"] = counts[j]["failed"],
             jobStatus'[j] = jobStatus[j] \/ (jobStatus[j] \notin JobTerminal /\ jobStatus'[j] \notin JobTerminal)
      PROVE  RecentAt(progress'[j], TerminalCount(counts'[j]), jobStatus'[j])
    <2>1. TerminalCount(counts'[j]) = TerminalCount(counts[j])
        BY <1>f DEF TerminalCount
    <2>. QED BY <1>f, <2>1 DEF ProgressInv, RecentAt
<1>e. /\ TerminalCount(EmptyCounts) = 0 /\ 0 \in 0..0 /\ 0 - 0 < ProgressStep
    BY <1>b, JobTrackerAssumption DEF TerminalCount, EmptyCounts
<1>1. ASSUME NEW j \in Jobs, RegisterJob(j) PROVE ProgressInv'
    <2>1. j \notin jobs /\ j \notin aged /\ jobs' = (jobs \ aged) \cup {j} /\ ForgetAggregates(aged)
        BY <1>1 DEF RegisterJob, MapInv, TypeOK
    <2>2. ASSUME NEW i \in jobs'
          PROVE  RecentAt(progress'[i], TerminalCount(counts'[i]), jobStatus'[i])
        <3>1. CASE i = j
            <4>1. progress'[i] = 0 /\ counts'[i] = EmptyCounts
                BY <2>1, <3>1 DEF ForgetAggregates, MapInv, ProgressInv
            <4>. QED BY <4>1, <1>e DEF RecentAt
        <3>2. CASE i # j
            <4>1. i \in jobs /\ i \notin aged /\ i \in Jobs
                BY <1>c, <2>1, <2>2, <3>2
            <4>2. progress'[i] = progress[i] /\ counts'[i] = counts[i] /\ jobStatus'[i] = jobStatus[i]
                BY <2>1, <4>1 DEF ForgetAggregates
            <4>. QED BY <1>f, <4>1, <4>2
        <3>. QED BY <3>1, <3>2
    <2>3. \A i \in Jobs \ jobs' : progress'[i] = 0
        BY <2>1 DEF ForgetAggregates, ProgressInv
    <2>. QED BY <2>2, <2>3 DEF ProgressInv
<1>2. ASSUME NEW d \in Docs, RegisterDocument(d) PROVE ProgressInv'
    <2>. DEFINE j == JobOf[d]
    <2>1. /\ j \in Jobs /\ jobs' = jobs \ Evicted
          /\ counts' = [i \in Jobs |-> IF i \in Evicted THEN EmptyCounts
                                 ELSE IF i = j THEN [counts[j] EXCEPT !["pending"] = @ + 1] ELSE counts[i]]
          /\ jobStatus' = [i \in Jobs |-> IF i \in Evicted THEN "pending" ELSE jobStatus[i]]
          /\ progress' = [i \in Jobs |-> IF i \in Evicted THEN 0 ELSE progress[i]]
        BY <1>0, <1>2 DEF RegisterDocument
    <2>2. ASSUME NEW i \in jobs'
          PROVE  RecentAt(progress'[i], TerminalCount(counts'[i]), jobStatus'[i])
        <3>1. i \in Jobs /\ i \in jobs /\ i \notin Evicted
            BY <1>c, <2>1, <2>2
        <3>2. counts'[i]["completed"] = counts[i]["completed"] /\ counts'[i]["failed"] = counts[i]["failed"]
            BY <1>a, <1>b, <2>1, <3>1
        <3>3. progress'[i] = progress[i] /\ jobStatus'[i] = jobStatus[i]
            BY <2>1, <3>1
        <3>. QED BY <1>f, <3>1, <3>2, <3>3
    <2>3. \A i \in Jobs \ jobs' : progress'[i] = 0
        BY <2>1 DEF ProgressInv
    <2>. QED BY <2>2, <2>3 DEF ProgressInv
<1>3. ASSUME NEW d \in Docs, Begins(d) PROVE ProgressInv'
    <2>1. JobOf[d] \in Jobs
        BY <1>0
    <2>2. ASSUME NEW s \in DocTerminal PROVE Adjusted(counts[JobOf[d]], {d}, "processing")[s] = counts[JobOf[d]][s]
        <3>1. s \in Statuses /\ s # "processing" /\ {e \in {d} : status[e] = s} = {}
            BY <1>3 DEF Begins, DocTerminal, Statuses
        <3>2. Cardinality({e \in {d} : status[e] = s}) = 0 /\ counts[JobOf[d]][s] \in Nat
            BY <1>a, <2>1, <3>1, FS_EmptySet
        <3>. QED BY <3>1, <3>2 DEF Adjusted, Floor
    <2>3. ASSUME NEW i \in jobs'
          PROVE  RecentAt(progress'[i], TerminalCount(counts'[i]), jobStatus'[i])
        <3>1. i \in jobs /\ i \in Jobs /\ progress'[i] = progress[i]
            BY <1>3, <1>c, <2>3 DEF Begins, mapVars
        <3>2. counts'[i]["completed"] = counts[i]["completed"] /\ counts'[i]["failed"] = counts[i]["failed"]
            BY <1>3, <2>1, <2>2, <3>1 DEF Begins, TypeOK, DocTerminal
        <3>3. jobStatus'[i] = jobStatus[i] \/ (jobStatus[i] \notin JobTerminal /\ jobStatus'[i] \notin JobTerminal)
            BY <1>3, <2>1, <3>1 DEF Begins, TypeOK, JobTerminal
        <3>. QED BY <1>f, <3>1, <3>2, <3>3
    <2>4. jobs' = jobs /\ progress' = progress
        BY <1>3 DEF Begins, mapVars
    <2>. QED BY <2>3, <2>4 DEF ProgressInv
<1>4. ASSUME NEW d \in Docs, UnregisterPending(d) PROVE ProgressInv'
    <2>1. JobOf[d] \in Jobs
        BY <1>0
    <2>2. jobs' = jobs /\ progress' = progress /\ jobStatus' = jobStatus
        BY <1>4 DEF UnregisterPending
    <2>3. ASSUME NEW i \in jobs'
          PROVE  RecentAt(progress'[i], TerminalCount(counts'[i]), jobStatus'[i])
        <3>1. i \in jobs /\ i \in Jobs
            BY <1>c, <2>2, <2>3
        <3>2. counts'[i]["completed"] = counts[i]["completed"] /\ counts'[i]["failed"] = counts[i]["failed"]
            BY <1>4, <1>a, <1>b, <2>1, <3>1 DEF UnregisterPending, TypeOK
        <3>. QED BY <1>f, <2>2, <3>1, <3>2
    <2>. QED BY <2>2, <2>3 DEF ProgressInv
<1>5. ASSUME NEW X \in SUBSET Jobs, Expires(X) PROVE ProgressInv'
    <2>1. jobs' = jobs \ X /\ ForgetAggregates(X)
        BY <1>5 DEF Expires, Drop
    <2>2. \A j \in jobs' : /\ j \in jobs /\ progress'[j] = progress[j]
                           /\ counts'[j] = counts[j] /\ jobStatus'[j] = jobStatus[j]
        BY <1>c, <2>1 DEF ForgetAggregates
    <2>3. \A i \in Jobs \ jobs' : progress'[i] = 0
        BY <2>1 DEF ForgetAggregates, ProgressInv
    <2>. QED BY <2>2, <2>3 DEF ProgressInv
<1>6. ASSUME NEW X \in SUBSET Jobs, NEW T \in SUBSET Docs, NEW new \in DocTerminal, Report(X, T, new)
      PROVE  ProgressInv'
    <2>1. ASSUME NEW i \in jobs'
          PROVE  RecentAt(progress'[i], TerminalCount(counts'[i]), jobStatus'[i])
        <3>. DEFINE D == Mine(T, i)
                    c == Adjusted(counts[i], D, new)
        <3>1. /\ i \in jobs /\ i \in Jobs
              /\ counts'[i] = After(i, T, new)
              /\ jobStatus'[i] = IF D # {} /\ Finalizes(i, After(i, T, new))
                                 THEN Derived(After(i, T, new)) ELSE jobStatus[i]
              /\ progress'[i] = IF D = {} THEN progress[i] ELSE Milestone(i, Seen(i, T, new))
            BY <1>6, <1>c, <2>1 DEF Report
        <3>2. CASE D = {}
            <4>1. counts'[i] = counts[i] /\ jobStatus'[i] = jobStatus[i] /\ progress'[i] = progress[i]
                BY <3>1, <3>2 DEF After
            <4>. QED BY <1>f, <3>1, <4>1
        <3>3. CASE D # {}
            <4>1. D \in SUBSET Docs /\ \A e \in D : status[e] \notin DocTerminal
                BY <1>6 DEF Mine, Report, Marked
            <4>2. After(i, T, new) = c
                BY <3>3 DEF After
            <4>3. Cardinality(D) \in Nat /\ Cardinality(D) # 0
                BY <3>3, <4>1, DocsFinite, FS_EmptySet
            <4>4. TerminalCount(c) = TerminalCount(counts[i]) + Cardinality(D)
                BY <1>a, <3>1, <4>1, TerminalGrows
            <4>5. TerminalCount(counts[i]) \in Nat
                BY <1>a, <1>b, <3>1 DEF TerminalCount
            <4>6. progress[i] \in 0..TerminalCount(counts[i])
                BY <3>1 DEF ProgressInv, RecentAt
            <4>. HIDE DEF c
            <4>. DEFINE n == Seen(i, T, new)
            <4>7. n = IF Finalizes(i, c) THEN TerminalCount(c) - 1 ELSE TerminalCount(c)
                BY <3>3, <4>2 DEF Seen
            <4>. HIDE DEF n
            <4>8. n \in Nat /\ progress[i] \in Nat /\ progress[i] <= n /\ n <= TerminalCount(c)
                BY <4>3, <4>4, <4>5, <4>6, <4>7
            <4>9. Milestone(i, n) \in 0..n /\ n - Milestone(i, n) < ProgressStep
                BY <3>1, <4>8, MilestoneRecent
            <4>10. progress'[i] = Milestone(i, n)
                BY <3>1, <3>3 DEF n
            <4>11. progress'[i] \in 0..TerminalCount(c)
                <5>1. TerminalCount(c) \in Nat
                    BY <4>3, <4>4, <4>5
                <5>. QED BY <4>8, <4>9, <4>10, <5>1
            <4>12. jobStatus'[i] \notin JobTerminal => TerminalCount(c) - progress'[i] < ProgressStep
                <5>1. Derived(c) \in JobTerminal
                    BY DEF Derived, JobTerminal
                <5>2. jobStatus'[i] \notin JobTerminal => ~Finalizes(i, c)
                    BY <3>1, <3>3, <4>2, <5>1
                <5>. QED BY <4>7, <4>9, <4>10, <5>2
            <4>. QED BY <3>1, <4>2, <4>11, <4>12 DEF RecentAt
        <3>. QED BY <3>2, <3>3
    <2>2. ASSUME NEW i \in Jobs, i \notin jobs' PROVE progress'[i] = 0
        <3>1. CASE i \in X
            BY <1>6, <3>1 DEF Report
        <3>2. CASE i \notin X
            <4>1. i \notin jobs
                BY <1>6, <2>2, <3>2 DEF Report
            <4>2. Mine(T, i) = {}
                BY <1>6, <4>1 DEF Report, Marked, Mine, NoOrphans
            <4>. QED BY <1>6, <3>2, <4>1, <4>2 DEF Report, ProgressInv
        <3>. QED BY <3>1, <3>2
    <2>. QED BY <2>1, <2>2 DEF ProgressInv
<1>7. CASE Restart
    BY <1>7 DEF Restart, ProgressInv
<1>8. CASE Quiet
    BY <1>8 DEF Quiet, ProgressInv, aggVars, mapVars
<1>. QED BY <1>1, <1>2, <1>3, <1>4, <1>5, <1>6, <1>7, <1>8 DEF Kinds

-----------------------------------------------------------------------------
(* The inductive invariant, and what follows from it.                      *)

\* What the proofs need of one another: each part is inductive given those
\* before it.
IInv ==
    /\ TypeOK /\ MapInv /\ NoOrphans /\ EntryInv /\ LeadInv /\ ErrorInv /\ KeyInv
    /\ CountsMatchDocuments /\ FinalInv /\ ProgressInv

LEMMA IInvInit == Init => IInv
<1>. SUFFICES ASSUME Init PROVE IInv
    OBVIOUS
<1>1. TypeOK
    BY InitTyped
<1>2. MapInv
    BY DEF Init, MapInv
<1>3. NoOrphans /\ EntryInv /\ LeadInv /\ ErrorInv /\ CountsMatchDocuments /\ FinalInv
    BY DEF Init, NoOrphans, EntryInv, LeadInv, ErrorInv, CountsMatchDocuments, FinalInv
<1>4. KeyInv
    BY DEF Init, KeyInv, OneJobPerKey
<1>5. ProgressInv
    BY DEF Init, ProgressInv
<1>. QED BY <1>1, <1>2, <1>3, <1>4, <1>5 DEF IInv

LEMMA IInvStep == IInv /\ [Next]_vars => IInv'
<1>. SUFFICES ASSUME IInv, [Next]_vars PROVE IInv'
    OBVIOUS
<1>1. TypeOK' /\ Kinds
    BY StepKinds DEF IInv
<1>2. MapInv' /\ NoOrphans'
    BY <1>1, MapStep DEF IInv
<1>3. EntryInv' /\ LeadInv' /\ ErrorInv'
    BY <1>1, <1>2, EntryStep, LeadStep, ErrorStep DEF IInv
<1>4. KeyInv'
    BY <1>1, KeyStep DEF IInv
<1>5. CountsMatchDocuments'
    BY <1>1, CountStep DEF IInv
<1>6. FinalInv'
    BY <1>1, FinalStep DEF IInv
<1>7. ProgressInv'
    BY <1>1, ProgressStepKeeps DEF IInv
<1>. QED BY <1>1, <1>2, <1>3, <1>4, <1>5, <1>6, <1>7 DEF IInv

LEMMA IInvHolds == Spec => []IInv
<1>. QED BY IInvInit, IInvStep, PTL DEF Spec

\* The map of documents and the jobs' lists agree in every reachable state: no
\* eviction, rollback or restart leaves a document without its job.
THEOREM DocumentsNeverOrphaned == Spec => []NoOrphans
<1>1. IInv => NoOrphans
    BY DEF IInv
<1>. QED BY <1>1, IInvHolds, PTL

\* The counts kept beside the documents are exact in every reachable state.
THEOREM CountsExact == Spec => []CountsMatchDocuments
<1>1. IInv => CountsMatchDocuments
    BY DEF IInv
<1>. QED BY <1>1, IInvHolds, PTL

\* A job ends when its last document does, with the status they call for.
THEOREM JobsFinalizeExactly == Spec => []FinalizedExactly
<1>1. IInv => FinalizedExactly
    BY FinalMeans DEF IInv
<1>. QED BY <1>1, IInvHolds, PTL

\* Watchers of an open job are fewer than progress_step documents behind, and are
\* told of no document that has not ended, for any progress_step (_progress_step).
THEOREM WatchersKeepUp == Spec => []ProgressIsRecent
<1>1. IInv => ProgressIsRecent
    BY DEF IInv, ProgressInv, RecentAt, ProgressIsRecent
<1>. QED BY <1>1, IInvHolds, PTL

\* No two live jobs ever answer to one idempotency key.
THEOREM KeysNeverShared == Spec => []OneJobPerKey
<1>1. IInv => OneJobPerKey
    <2>1. \A j \in Jobs : j # NoJob
        BY JobTrackerAssumption
    <2>. QED BY <2>1 DEF IInv, TypeOK, KeyInv, OneJobPerKey
<1>. QED BY <1>1, IInvHolds, PTL

\* No two documents of a job ever stand for one manifest entry.
THEOREM EntriesNeverDoubled == Spec => []OneDocumentPerEntry
<1>1. IInv => OneDocumentPerEntry
    BY EntriesUnique DEF IInv
<1>. QED BY <1>1, IInvHolds, PTL

\* The maps of jobs, documents, manifest entries and idempotency keys agree:
\* only the upload that unregister_pending takes back leaves its entry behind,
\* and only a repetition of such an upload meets a missing document.
THEOREM MapsAlwaysAgree == Spec => []MapsAgree
<1>1. IInv => EntriesAgree
    BY DEF IInv, EntryInv, LeadInv, ErrorInv, EntriesAgree
<1>2. NoOrphans /\ OneJobPerKey /\ EntriesAgree => MapsAgree
    BY DEF MapsAgree
<1>. QED BY <1>1, <1>2, IInvHolds, DocumentsNeverOrphaned, KeysNeverShared, PTL

\* What is finished stays finished: a late or duplicate report changes neither
\* a terminal document nor a terminal job while they are kept.
THEOREM FinishedStaysFinished == Spec => TerminalIsFinal
<1>. DEFINE P == /\ \A d \in documents \cap documents' : status[d] \in DocTerminal => status'[d] = status[d]
                 /\ \A j \in jobs \cap jobs' : jobStatus[j] \in JobTerminal =>
                      jobStatus'[j] = jobStatus[j] /\ documentIds'[j] = documentIds[j] /\ counts'[j] = counts[j]
<1>1. IInv /\ [Next]_vars => [P]_vars
    <2>. SUFFICES ASSUME IInv, [Next]_vars PROVE P
        OBVIOUS
    <2>1. TypeOK /\ NoOrphans /\ MapInv /\ CountsMatchDocuments /\ FinalInv /\ Kinds
        BY StepKinds DEF IInv
    <2>2. /\ jobs \subseteq Jobs /\ documents \subseteq Docs /\ \A d \in Docs : JobOf[d] \in Jobs
          /\ \A j \in jobs : \A d \in documentIds[j] : jobStatus[j] \in JobTerminal => status[d] \in DocTerminal
        BY <2>1, TerminalJobEnded, JobTrackerAssumption DEF TypeOK
    <2>3. ASSUME NEW j \in Jobs, RegisterJob(j) PROVE P
        BY <2>1, <2>2, <2>3 DEF RegisterJob, ForgetAggregates, MapInv
    <2>4. ASSUME NEW d \in Docs, RegisterDocument(d) PROVE P
        <3>1. outcome[d] = "none" /\ jobStatus[JobOf[d]] \notin JobTerminal
            BY <2>4 DEF RegisterDocument, Answer
        <3>2. d \notin documents
            BY <2>1, <2>2, <3>1 DEF NoOrphans, MapInv
        <3>3. \A e \in documents : status'[e] = status[e]
            BY <2>1, <2>2, <2>4, <3>2 DEF RegisterDocument, TypeOK
        <3>. QED BY <2>2, <2>4, <3>1, <3>3 DEF RegisterDocument
    <2>5. ASSUME NEW d \in Docs, Begins(d) \/ UnregisterPending(d) PROVE P
        <3>1. /\ status[d] = "pending" /\ d \in documentIds[JobOf[d]] /\ JobOf[d] \in jobs
              /\ \A e \in Docs : e # d => status'[e] = status[e]
            BY <2>1, <2>2, <2>5 DEF Begins, UnregisterPending, NoOrphans, TypeOK
        <3>2. jobStatus[JobOf[d]] \notin JobTerminal
            BY <2>2, <3>1 DEF DocTerminal
        <3>3. \A j \in jobs : j # JobOf[d] =>
                jobStatus'[j] = jobStatus[j] /\ documentIds'[j] = documentIds[j] /\ counts'[j] = counts[j]
            BY <2>1, <2>2, <2>5 DEF Begins, UnregisterPending, TypeOK
        <3>. QED BY <2>2, <3>1, <3>2, <3>3 DEF DocTerminal
    <2>6. ASSUME NEW X \in SUBSET Jobs, Expires(X) PROVE P
        BY <2>2, <2>6 DEF Expires, Drop, ForgetAggregates
    <2>7. ASSUME NEW X \in SUBSET Jobs, NEW T \in SUBSET Docs, NEW new \in DocTerminal, Report(X, T, new)
          PROVE  P
        <3>1. \A d \in T : status[d] \notin DocTerminal /\ JobOf[d] \in jobs /\ d \in documentIds[JobOf[d]]
            BY <2>1, <2>7 DEF Report, Marked, NoOrphans
        <3>2. \A j \in jobs : jobStatus[j] \in JobTerminal => Mine(T, j) = {}
            BY <2>2, <3>1 DEF Mine
        <3>3. \A j \in jobs \cap jobs' : jobStatus[j] \in JobTerminal =>
                jobStatus'[j] = jobStatus[j] /\ documentIds'[j] = documentIds[j] /\ counts'[j] = counts[j]
            BY <2>2, <2>7, <3>2 DEF Report, After
        <3>. QED BY <2>2, <2>7, <3>1, <3>3 DEF Report
    <2>8. CASE Restart
        BY <2>8 DEF Restart
    <2>9. CASE Quiet
        BY <2>9 DEF Quiet, aggVars, mapVars
    <2>. QED BY <2>1, <2>3, <2>4, <2>5, <2>6, <2>7, <2>8, <2>9 DEF Kinds
<1>. QED BY <1>1, IInvHolds, PTL DEF Spec, TerminalIsFinal

\* A job past its TTL cannot be revived: every handler drops it or leaves it.
THEOREM AgedStaysAged == Spec => AgedNeverAdvances
<1>. DEFINE P == \A j \in aged : j \in jobs' =>
                   /\ j \in aged' /\ jobStatus'[j] = jobStatus[j] /\ documentIds'[j] \subseteq documentIds[j]
                   /\ \A d \in documentIds'[j] : status'[d] = status[d]
<1>1. IInv /\ [Next]_vars => [P]_vars
    <2>. SUFFICES ASSUME IInv, [Next]_vars PROVE P
        OBVIOUS
    <2>1. TypeOK /\ MapInv
        BY DEF IInv
    <2>2. /\ aged \subseteq jobs /\ jobs \subseteq Jobs /\ jobs \subseteq created
          /\ \A d \in Docs : JobOf[d] \in Jobs
          /\ \A j \in Jobs : documentIds[j] \subseteq Docs /\ \A d \in documentIds[j] : JobOf[d] = j
        BY <2>1, JobTrackerAssumption DEF TypeOK, MapInv
    <2>3. ASSUME NEW X, Drop(X), UNCHANGED status PROVE P
        BY <2>2, <2>3 DEF Drop, ForgetAggregates
    <2>4. ASSUME UNCHANGED <<aggVars, mapVars, status>>, aged \subseteq aged' PROVE P
        BY <2>4 DEF aggVars, mapVars
    <2>5. ASSUME NEW j \in Jobs, RegisterJob(j) \/ RegisterJobRefused(j) \/ AgeOut(j) PROVE P
        <3>1. CASE RegisterJob(j)
            BY <2>2, <3>1 DEF RegisterJob
        <3>2. CASE RegisterJobRefused(j)
            BY <2>3, <3>2 DEF RegisterJobRefused
        <3>3. CASE AgeOut(j)
            BY <2>4, <3>3 DEF AgeOut
        <3>. QED BY <2>5, <3>1, <3>2, <3>3
    <2>6. ASSUME NEW X, Read(X) PROVE P
        BY <2>3, <2>6 DEF Read
    <2>7. ASSUME NEW d \in Docs, NoJobForDocument(d) PROVE P
        BY <2>3, <2>7 DEF NoJobForDocument
    <2>8. ASSUME NEW d \in Docs, ReplayDocument(d) \/ RefuseDocument(d) PROVE P
        BY <2>4, <2>8 DEF ReplayDocument, RefuseDocument
    <2>9. ASSUME NEW d \in Docs, RegisterDocument(d) PROVE P
        BY <2>1, <2>2, <2>9 DEF RegisterDocument, Live, TypeOK
    <2>10. ASSUME NEW d \in Docs, MarkProcessing(d) PROVE P
        <3>1. CASE Drop({JobOf[d]}) /\ UNCHANGED status
            BY <2>3, <3>1
        <3>2. CASE Begins(d)
            BY <2>1, <2>2, <3>2 DEF Begins, mapVars, TypeOK
        <3>. QED BY <2>10, <3>1, <3>2 DEF MarkProcessing, Begins
    <2>11. ASSUME NEW d \in Docs, UnregisterPending(d) PROVE P
        BY <2>1, <2>2, <2>11 DEF UnregisterPending, TypeOK
    <2>12. ASSUME NEW d \in Docs, NEW new \in DocTerminal, MarkTerminal({d}, new) PROVE P
        <3>. DEFINE X == {JobOf[e] : e \in {d} \cap documents} \cap aged
        <3>1. Report(X, Marked({d}), new)
            BY <2>1, <2>12, MarkTerminalReports
        <3>2. \A j \in aged : Mine(Marked({d}), j) = {}
            BY DEF Mine, Marked
        <3>3. \A j \in aged : \A e \in documentIds[j] : e \notin Marked({d})
            BY <2>2 DEF Marked
        <3>. QED BY <2>2, <3>1, <3>2, <3>3 DEF Report
    <2>13. CASE Restart
        BY <2>13 DEF Restart
    <2>14. CASE UNCHANGED vars
        BY <2>4, <2>14 DEF vars
    <2>. QED BY <2>5, <2>6, <2>7, <2>8, <2>9, <2>10, <2>11, <2>12, <2>13, <2>14 DEF Next
<1>. QED BY <1>1, IInvHolds, PTL DEF Spec, AgedNeverAdvances
=============================================================================
