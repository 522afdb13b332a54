----------------------------- MODULE JobTracker -----------------------------
(***************************************************************************)
(* The gateway's in-memory tracker of jobs and documents                   *)
(* (service/services/job_tracker.py, JobTracker).                          *)
(*                                                                         *)
(* Every public method holds one lock and awaits nothing, so each is one   *)
(* action.  A job id and an attempt id are drawn fresh for every request   *)
(* (uuid4), so what a request says - the job, manifest entry and content   *)
(* of an upload, the key and fingerprint of a job - is a constant function *)
(* of its id.  A key stands for the pair (scope, idempotency_key).         *)
(*                                                                         *)
(* Time is the action AgeOut: a job is aged once its TTL has passed, since *)
(* its creation while it is open and since its finalization afterwards.    *)
(* An aged job stays in memory until somebody looks at it.                 *)
(*                                                                         *)
(* Operators named X_Mutant... are wrong versions of X that the model      *)
(* never uses; they stand for the mistakes its properties must notice.     *)
(***************************************************************************)
EXTENDS Integers, FiniteSets

CONSTANTS
    Jobs, Docs,          (* the ids that create_job and the uploads draw       *)
    Entries, Keys,       (* manifest entry ids; scoped idempotency keys        *)
    NoJob, NoDoc, NoEntry, NoKey, NoPrint,
    Expected,            (* [Jobs -> Nat]: expected_documents                  *)
    KeyOf, PrintOf,      (* [Jobs -> ...]: idempotency_key and fingerprint     *)
    JobOf, EntryOf,      (* [Docs -> ...]: what an upload is for               *)
    ContentOf,           (* [Docs -> ...]: filename and content_sha256         *)
    MaxJobs,             (* max_jobs                                           *)
    ProgressStep,        (* _progress_step                                     *)
    EvictionInterval     (* _EVICTION_INTERVAL                                 *)

ASSUME JobTrackerAssumption ==
    /\ IsFiniteSet(Jobs) /\ IsFiniteSet(Docs)
    /\ NoJob \notin Jobs /\ NoDoc \notin Docs /\ NoEntry \notin Entries /\ NoKey \notin Keys
    /\ Expected \in [Jobs -> Nat \ {0}]
    /\ KeyOf \in [Jobs -> Keys \cup {NoKey}] /\ DOMAIN PrintOf = Jobs
    /\ JobOf \in [Docs -> Jobs] /\ EntryOf \in [Docs -> Entries \cup {NoEntry}]
    /\ DOMAIN ContentOf = Docs
    /\ MaxJobs \in Nat /\ ProgressStep \in Nat \ {0} /\ EvictionInterval \in Nat \ {0}

VARIABLES
    jobs,          (* the keys of _jobs                                        *)
    jobStatus,     (* [Jobs -> JobAggregateStatus]                             *)
    counts,        (* [Jobs -> [Statuses -> Nat]]: the rolled-up counts        *)
    documentIds,   (* [Jobs -> SUBSET Docs]: arrival order is left out         *)
    progress,      (* _progress_published                                      *)
    documents,     (* the keys of _documents                                   *)
    status,        (* [Docs -> DocumentStatus]                                 *)
    accepted,      (* [Jobs \X Entries -> Docs]: _accepted_manifest_entries    *)
    idempotency,   (* [Keys -> Jobs]: _idempotency                             *)
    registrations, (* _reg_count, modulo the eviction interval                 *)
    aged,          (* the jobs whose TTL has passed                            *)
    created,       (* history: job ids that register_job has seen              *)
    outcome,       (* history: [Docs -> how register_document answered]        *)
    rolledBack     (* history: the uploads that unregister_pending took back   *)

aggVars == <<jobStatus, counts, documentIds, progress>>
mapVars == <<jobs, documents, accepted, idempotency>>
vars == <<aggVars, mapVars, status, registrations, aged, created, outcome, rolledBack>>

Statuses == {"pending", "processing", "completed", "failed"}
DocTerminal == {"completed", "failed"}
JobTerminal == {"completed", "failed", "partial_success"}
JobStatuses == {"pending", "processing"} \cup JobTerminal

EmptyCounts_MutantMissing == [s \in {"pending"} |-> 0]
EmptyCounts == [s \in Statuses |-> 0]

Init ==
    /\ jobs = {} /\ documents = {}
    /\ jobStatus = [j \in Jobs |-> "pending"]
    /\ counts = [j \in Jobs |-> EmptyCounts]
    /\ documentIds = [j \in Jobs |-> {}]
    /\ progress = [j \in Jobs |-> 0]
    /\ status = [d \in Docs |-> "pending"]
    /\ accepted = [je \in Jobs \X Entries |-> NoDoc]
    /\ idempotency = [k \in Keys |-> NoJob]
    /\ registrations = 0 /\ aged = {} /\ created = {}
    /\ outcome = [d \in Docs |-> "none"] /\ rolledBack = {}

-----------------------------------------------------------------------------
(* _drop_job_locked, for each job of X.                                    *)

\* The documents that leave with the jobs X.
Dropped(X) == UNION {documentIds[j] : j \in X}

\* A manifest entry is forgotten only through a document that still exists.
AcceptedAfter_MutantKept(X) == accepted
AcceptedAfter(X) ==
    [je \in Jobs \X Entries |->
        IF je[1] \in X /\ \E d \in documentIds[je[1]] \cap documents : EntryOf[d] = je[2]
        THEN NoDoc ELSE accepted[je]]

\* A key is released only by the job that owns it.
KeysAfter_MutantAnyOwner(X) ==
    [k \in Keys |-> IF \E j \in X : KeyOf[j] = k THEN NoJob ELSE idempotency[k]]
KeysAfter(X) ==
    [k \in Keys |-> IF \E j \in X : KeyOf[j] = k /\ idempotency[k] = j
                    THEN NoJob ELSE idempotency[k]]

\* The aggregates of X are gone; an absent job has the values of a new one.
ForgetAggregates(X) ==
    /\ jobStatus' = [j \in Jobs |-> IF j \in X THEN "pending" ELSE jobStatus[j]]
    /\ counts' = [j \in Jobs |-> IF j \in X THEN EmptyCounts ELSE counts[j]]
    /\ documentIds' = [j \in Jobs |-> IF j \in X THEN {} ELSE documentIds[j]]
    /\ progress' = [j \in Jobs |-> IF j \in X THEN 0 ELSE progress[j]]

Drop(X) ==
    /\ ForgetAggregates(X)
    /\ jobs' = jobs \ X /\ aged' = aged \ X
    /\ documents' = documents \ Dropped(X)
    /\ accepted' = AcceptedAfter(X)
    /\ idempotency' = KeysAfter(X)

Live_MutantUnchecked(j) == j \in jobs
Live(j) == j \in jobs \ aged

-----------------------------------------------------------------------------
(* register_job.                                                           *)

Keyed(j) == KeyOf[j] # NoKey /\ PrintOf[j] # NoPrint

\* The job that already holds j's key, once the aged jobs are gone.
Owner(j) == IF Keyed(j) THEN KeysAfter(aged)[KeyOf[j]] ELSE NoJob

\* The key is taken: the job it was taken for is the answer if the request is
\* the same (a job that is no longer there does not answer), else an error.
Answered(j) ==
    Owner(j) # NoJob /\ (PrintOf[Owner(j)] # PrintOf[j] \/ Owner(j) \in jobs \ aged)

AtCapacity == Cardinality(jobs \ aged) >= MaxJobs

RegisterJobRefused(j) ==
    /\ j \notin created
    /\ Answered(j) \/ AtCapacity
    /\ Drop(aged)
    /\ created' = created \cup {j}
    /\ UNCHANGED <<status, registrations, outcome, rolledBack>>

RegisterJob(j) ==
    /\ j \notin created
    /\ ~Answered(j) /\ ~AtCapacity
    /\ ForgetAggregates(aged)
    /\ jobs' = (jobs \ aged) \cup {j} /\ aged' = {}
    /\ documents' = documents \ Dropped(aged)
    /\ accepted' = AcceptedAfter(aged)
    /\ idempotency' = [k \in Keys |-> IF Keyed(j) /\ k = KeyOf[j] THEN j ELSE KeysAfter(aged)[k]]
    /\ created' = created \cup {j}
    /\ UNCHANGED <<status, registrations, outcome, rolledBack>>

-----------------------------------------------------------------------------
(* register_document_idempotent: the manifest replay is looked up before   *)
(* the job's status and capacity.                                          *)

\* The attempt that the upload's manifest entry was accepted for.
Prior(d) == IF EntryOf[d] = NoEntry THEN NoDoc ELSE accepted[JobOf[d], EntryOf[d]]

Answer(d, how) == outcome[d] = "none" /\ outcome' = [outcome EXCEPT ![d] = how]

NoJobForDocument(d) ==
    /\ ~Live(JobOf[d])
    /\ Drop({JobOf[d]} \cap aged)
    /\ Answer(d, "refused")
    /\ UNCHANGED <<status, registrations, created, rolledBack>>

ReplayDocument(d) ==
    /\ Live(JobOf[d]) /\ Prior(d) # NoDoc
    /\ Answer(d, IF Prior(d) \notin documents THEN "error"
                 ELSE IF ContentOf[Prior(d)] # ContentOf[d] THEN "refused" ELSE "replayed")
    /\ UNCHANGED <<aggVars, mapVars, status, registrations, aged, created, rolledBack>>

Full(j) == Cardinality(documentIds[j]) >= Expected[j]

RefuseDocument(d) ==
    /\ Live(JobOf[d]) /\ Prior(d) = NoDoc
    /\ jobStatus[JobOf[d]] \in JobTerminal \/ Full(JobOf[d])
    /\ Answer(d, "refused")
    /\ UNCHANGED <<aggVars, mapVars, status, registrations, aged, created, rolledBack>>

\* Every EvictionInterval-th registration evicts the aged jobs as well.
Evicted == IF (registrations + 1) % EvictionInterval = 0 THEN aged ELSE {}

RegisterDocument(d) ==
    LET j == JobOf[d] IN
    /\ Live(j) /\ Prior(d) = NoDoc
    /\ jobStatus[j] \notin JobTerminal /\ ~Full(j)
    /\ Answer(d, "registered")
    /\ status' = [status EXCEPT ![d] = "pending"]
    /\ documents' = (documents \ Dropped(Evicted)) \cup {d}
    /\ jobStatus' = [i \in Jobs |-> IF i \in Evicted THEN "pending" ELSE jobStatus[i]]
    /\ progress' = [i \in Jobs |-> IF i \in Evicted THEN 0 ELSE progress[i]]
    /\ documentIds' = [i \in Jobs |-> IF i \in Evicted THEN {}
                                      ELSE IF i = j THEN documentIds[j] \cup {d} ELSE documentIds[i]]
    /\ counts' = [i \in Jobs |-> IF i \in Evicted THEN EmptyCounts
                                 ELSE IF i = j THEN [counts[j] EXCEPT !["pending"] = @ + 1] ELSE counts[i]]
    /\ accepted' = [je \in Jobs \X Entries |-> IF je = <<j, EntryOf[d]>> THEN d ELSE AcceptedAfter(Evicted)[je]]
    /\ idempotency' = KeysAfter(Evicted)
    /\ jobs' = jobs \ Evicted /\ aged' = aged \ Evicted
    /\ registrations' = (registrations + 1) % EvictionInterval
    /\ UNCHANGED <<created, rolledBack>>

-----------------------------------------------------------------------------
(* Document transitions.                                                   *)

Floor(n) == IF n < 0 THEN 0 ELSE n

\* The documents of job j among D.
Mine(D, j) == {d \in D : JobOf[d] = j}

\* _adjust_counts_locked, for the documents D of one job that become new.
Adjusted_MutantOldKept(c, D, new) == [c EXCEPT ![new] = @ + Cardinality(D)]
Adjusted(c, D, new) ==
    [s \in Statuses |-> IF s = new THEN c[s] + Cardinality(D)
                        ELSE Floor(c[s] - Cardinality({d \in D : status[d] = s}))]

MarkProcessing(d) ==
    LET j == JobOf[d] IN
    /\ d \in documents
    /\ \/ /\ j \in aged /\ Drop({j}) /\ UNCHANGED status
       \/ /\ j \notin aged /\ status[d] = "pending"
          /\ status' = [status EXCEPT ![d] = "processing"]
          /\ counts' = [counts EXCEPT ![j] = Adjusted(@, {d}, "processing")]
          /\ jobStatus' = [jobStatus EXCEPT ![j] = IF @ = "pending" THEN "processing" ELSE @]
          /\ UNCHANGED <<documentIds, progress, mapVars, aged>>
    /\ UNCHANGED <<registrations, created, outcome, rolledBack>>

\* Roll back an upload that no worker can have claimed.  The manifest entry is
\* left behind, and an aged job is not dropped.
UnregisterPending(d) ==
    LET j == JobOf[d] IN
    /\ d \in documents /\ status[d] = "pending"
    /\ documents' = documents \ {d}
    /\ documentIds' = [documentIds EXCEPT ![j] = @ \ {d}]
    /\ counts' = [counts EXCEPT ![j]["pending"] = Floor(@ - 1)]
    /\ rolledBack' = rolledBack \cup {d}
    /\ UNCHANGED <<jobStatus, progress, jobs, accepted, idempotency,
                   status, registrations, aged, created, outcome>>

\* _derive_terminal_status_locked on the counts c.
Derived(c) ==
    IF c["failed"] = 0 /\ c["completed"] > 0 THEN "completed"
    ELSE IF c["completed"] > 0 THEN "partial_success" ELSE "failed"

TerminalCount(c) == c["completed"] + c["failed"]

Finalizes_MutantArrived(j, c) ==
    TerminalCount(c) = Cardinality(documentIds[j]) /\ jobStatus[j] \notin JobTerminal
Finalizes(j, c) == TerminalCount(c) = Expected[j] /\ jobStatus[j] \notin JobTerminal

\* The last milestone that is published while the terminal count rises to n.
Milestone_MutantLate(j, n) == IF n - progress[j] > ProgressStep THEN n ELSE progress[j]
Milestone(j, n) == progress[j] + ProgressStep * ((n - progress[j]) \div ProgressStep)

\* The documents of D that are still to become terminal, once the aged jobs
\* among theirs are dropped.
Marked_MutantTerminalToo(D) == {d \in D \cap documents : JobOf[d] \notin aged}
Marked(D) == {d \in D \cap documents : JobOf[d] \notin aged /\ status[d] \notin DocTerminal}

\* mark_completed / mark_failed, one call after the other for the documents D.
MarkTerminal(D, new) ==
    LET X == {JobOf[d] : d \in D \cap documents} \cap aged
        T == Marked(D)
        after(j) == IF Mine(T, j) = {} THEN counts[j] ELSE Adjusted(counts[j], Mine(T, j), new)
        final(j) == Mine(T, j) # {} /\ Finalizes(j, after(j))
        seen(j) == IF final(j) THEN TerminalCount(after(j)) - 1 ELSE TerminalCount(after(j))
    IN /\ status' = [d \in Docs |-> IF d \in T THEN new ELSE status[d]]
       /\ counts' = [j \in Jobs |-> IF j \in X THEN EmptyCounts ELSE after(j)]
       /\ jobStatus' = [j \in Jobs |-> IF j \in X THEN "pending"
                                       ELSE IF final(j) THEN Derived(after(j)) ELSE jobStatus[j]]
       /\ progress' = [j \in Jobs |-> IF j \in X THEN 0
                                      ELSE IF Mine(T, j) = {} THEN progress[j]
                                      ELSE Milestone(j, seen(j))]
       /\ documentIds' = [j \in Jobs |-> IF j \in X THEN {} ELSE documentIds[j]]
       /\ jobs' = jobs \ X /\ aged' = aged \ X
       /\ documents' = documents \ Dropped(X)
       /\ accepted' = AcceptedAfter(X)
       /\ idempotency' = KeysAfter(X)
       /\ UNCHANGED <<registrations, created, outcome, rolledBack>>

-----------------------------------------------------------------------------
(* Time, reads and restarts.                                               *)

AgeOut(j) ==
    /\ Live(j)
    /\ aged' = aged \cup {j}
    /\ UNCHANGED <<aggVars, mapVars, status, registrations, created, outcome, rolledBack>>

\* A read of one job or document drops its job if it is aged; a listing drops
\* every aged job.
Read(X) ==
    /\ X # {} /\ X \subseteq aged
    /\ Drop(X)
    /\ UNCHANGED <<status, registrations, created, outcome, rolledBack>>

\* A new gateway process starts with an empty tracker.
Restart ==
    /\ jobs' = {} /\ documents' = {} /\ aged' = {} /\ registrations' = 0
    /\ jobStatus' = [j \in Jobs |-> "pending"]
    /\ counts' = [j \in Jobs |-> EmptyCounts]
    /\ documentIds' = [j \in Jobs |-> {}]
    /\ progress' = [j \in Jobs |-> 0]
    /\ accepted' = [je \in Jobs \X Entries |-> NoDoc]
    /\ idempotency' = [k \in Keys |-> NoJob]
    /\ UNCHANGED <<status, created, outcome, rolledBack>>

Next ==
    \/ \E j \in Jobs : RegisterJob(j) \/ RegisterJobRefused(j) \/ AgeOut(j) \/ Read({j})
    \/ \E d \in Docs :
         \/ NoJobForDocument(d) \/ ReplayDocument(d) \/ RefuseDocument(d) \/ RegisterDocument(d)
         \/ MarkProcessing(d) \/ UnregisterPending(d)
         \/ \E new \in DocTerminal : MarkTerminal({d}, new)
    \/ Read(aged)
    \/ Restart

Spec == Init /\ [][Next]_vars

-----------------------------------------------------------------------------
(* Invariants.                                                             *)

\* Every variable has its type; progress is bounded by ProgressIsRecent.
TypeOK ==
    /\ jobs \subseteq Jobs /\ aged \subseteq jobs /\ created \subseteq Jobs
    /\ jobStatus \in [Jobs -> JobStatuses]
    /\ counts \in [Jobs -> [Statuses -> Nat]]
    /\ documentIds \in [Jobs -> SUBSET Docs]
    /\ progress \in [Jobs -> Int]
    /\ documents \subseteq Docs
    /\ status \in [Docs -> Statuses]
    /\ accepted \in [Jobs \X Entries -> Docs \cup {NoDoc}]
    /\ idempotency \in [Keys -> Jobs \cup {NoJob}]
    /\ registrations \in 0..(EvictionInterval - 1) /\ rolledBack \subseteq Docs
    /\ outcome \in [Docs -> {"none", "registered", "replayed", "refused", "error"}]

\* The tracker's two maps agree: a document is known exactly while its job
\* lists it, so no eviction or rollback leaves a document without its job.
NoOrphans ==
    \A d \in Docs : d \in documents <=> JobOf[d] \in jobs /\ d \in documentIds[JobOf[d]]

\* The rolled-up counts are what counting the documents would give, whatever
\* sequence of transitions, duplicates, rollbacks and evictions led here.
CountsMatchDocuments ==
    \A j \in jobs : \A s \in Statuses :
        counts[j][s] = Cardinality({d \in documentIds[j] : status[d] = s})

\* A job is terminal exactly when expected_documents documents are, and its
\* status says how they ended (job_tracker.py:15-25).
FinalizedExactly ==
    \A j \in jobs :
        LET ended == {d \in documentIds[j] : status[d] \in DocTerminal}
            failed == {d \in ended : status[d] = "failed"}
        IN /\ Cardinality(documentIds[j]) <= Expected[j]
           /\ jobStatus[j] \in JobTerminal <=> Cardinality(ended) = Expected[j]
           /\ jobStatus[j] = "completed" => failed = {}
           /\ jobStatus[j] = "failed" => failed = ended
           /\ jobStatus[j] = "partial_success" => failed # {} /\ failed # ended

\* Two live jobs never answer to the same idempotency key, and the key of a
\* live job leads to that job: a retried create cannot open a second job.
OneJobPerKey ==
    /\ \A j \in jobs : Keyed(j) => idempotency[KeyOf[j]] = j
    /\ \A k \in Keys : idempotency[k] # NoJob => idempotency[k] \in jobs

\* One document per manifest entry, however often a file is sent again.
OneDocumentPerEntry ==
    \A c, d \in documents :
        c # d /\ JobOf[c] = JobOf[d] => EntryOf[c] = NoEntry \/ EntryOf[c] # EntryOf[d]

\* A document's manifest entry leads to it, and an entry leads to nothing but a
\* document of its own job that exists or an upload that was rolled back, whose
\* entry stays behind (job_tracker.py:546).  A repeated upload meets the missing
\* document of such an entry (job_tracker.py:473), and only of such an entry: no
\* eviction, expiry or restart leaves a repeated upload an entry without document.
EntriesAgree ==
    /\ \A d \in documents : EntryOf[d] # NoEntry => accepted[JobOf[d], EntryOf[d]] = d
    /\ \A je \in Jobs \X Entries : accepted[je] # NoDoc =>
          /\ JobOf[accepted[je]] = je[1] /\ EntryOf[accepted[je]] = je[2]
          /\ accepted[je] \in documents \cup rolledBack
    /\ \A d \in Docs : outcome[d] = "error" =>
          \E c \in rolledBack : JobOf[c] = JobOf[d] /\ EntryOf[c] = EntryOf[d]

\* The tracker's four maps - jobs, documents, manifest entries and idempotency
\* keys - agree through evictions, replays and restarts; a rollback leaves the
\* entry of its upload behind, and nothing else of it.
MapsAgree == NoOrphans /\ OneJobPerKey /\ EntriesAgree

\* While a job is open its watchers are fewer than progress_step documents
\* behind, and no milestone is announced before it is reached.
ProgressIsRecent ==
    \A j \in jobs :
        /\ progress[j] \in 0..TerminalCount(counts[j])
        /\ jobStatus[j] \notin JobTerminal => TerminalCount(counts[j]) - progress[j] < ProgressStep

-----------------------------------------------------------------------------
(* Action properties.                                                      *)

\* What is finished stays finished until it is dropped: a late or duplicate
\* report changes neither a terminal document nor a terminal job.
TerminalIsFinal ==
    [][/\ \A d \in documents \cap documents' : status[d] \in DocTerminal => status'[d] = status[d]
       /\ \A j \in jobs \cap jobs' : jobStatus[j] \in JobTerminal =>
            jobStatus'[j] = jobStatus[j] /\ documentIds'[j] = documentIds[j] /\ counts'[j] = counts[j]]_vars

\* An aged job cannot be revived: nothing moves it or its documents forward.
AgedNeverAdvances ==
    [][\A j \in aged : j \in jobs' =>
         /\ j \in aged' /\ jobStatus'[j] = jobStatus[j] /\ documentIds'[j] \subseteq documentIds[j]
         /\ \A d \in documentIds'[j] : status'[d] = status[d]]_vars
=============================================================================
