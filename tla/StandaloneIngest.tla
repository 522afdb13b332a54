-------------------------- MODULE StandaloneIngest --------------------------
(***************************************************************************)
(* The service in standalone mode: upload handlers, job tracker, sidecar   *)
(* store, and the in-process pools with their bounded queues and workers   *)
(* (services/pipeline_pool.py).  JobTracker and SidecarStore are used as   *)
(* they are; an action here is what one coroutine does between two awaits. *)
(*                                                                         *)
(* An upload looks up its job, awaits the body of the file, and then binds *)
(* its sidecar, registers the document and submits the work without        *)
(* awaiting anything: Queue.put_nowait never suspends.                     *)
(*                                                                         *)
(* Operators named X_Mutant... are wrong versions of X that the model      *)
(* never uses; they stand for the mistakes its properties must notice.     *)
(***************************************************************************)
EXTENDS Integers, Sequences, FiniteSets

CONSTANTS
    Jobs, Docs, Entries, Keys, NoJob, NoDoc, NoEntry, NoKey, NoPrint, Expected,
    KeyOf, PrintOf, JobOf, EntryOf, ContentOf, MaxJobs, ProgressStep, EvictionInterval,
    Sidecars, SingleUse, MaxEntries,
    NoSidecar, SidecarOf,   (* [Docs -> Sidecars \cup {NoSidecar}]               *)
    Pools, PoolOf,          (* [Docs -> Pools]: the route of an upload           *)
    QueueSize,              (* [Pools -> Nat]: max_queue_size                    *)
    Workers, Serves         (* [Workers -> Pools]: the worker coroutines         *)

\* The last line repeats what JobTracker assumes.
ASSUME StandaloneIngestAssumption ==
    /\ SidecarOf \in [Docs -> Sidecars \cup {NoSidecar}] /\ NoSidecar \notin Sidecars
    /\ PoolOf \in [Docs -> Pools] /\ QueueSize \in [Pools -> Nat \ {0}]
    /\ Serves \in [Workers -> Pools]
    /\ SingleUse \subseteq Sidecars /\ MaxEntries \in Nat \ {0}
    /\ NoDoc \notin Docs /\ JobOf \in [Docs -> Jobs]

VARIABLES
    jobs, jobStatus, counts, documentIds, progress, documents, status,
    accepted, idempotency, registrations, aged, created, outcome, rolledBack,
    entries, expired, drawn,
    reading,   (* uploads that have found their job and await their file       *)
    queue,     (* [Pools -> Seq(Docs)]: _queue                                 *)
    running,   (* [Workers -> Docs \cup {NoDoc}]: what a worker executes       *)
    turnedAway (* history: documents registered and then answered with 429     *)

JT == INSTANCE JobTracker
SS == INSTANCE SidecarStore

trackerVars == <<jobs, jobStatus, counts, documentIds, progress, documents, status,
                 accepted, idempotency, registrations, aged, created, outcome, rolledBack>>
sidecarVars == <<entries, expired, drawn>>
poolVars == <<queue, running>>
vars == <<trackerVars, sidecarVars, poolVars, reading, turnedAway>>

Init ==
    /\ JT!Init /\ SS!Init
    /\ reading = {} /\ turnedAway = {}
    /\ queue = [p \in Pools |-> <<>>]
    /\ running = [k \in Workers |-> NoDoc]

-----------------------------------------------------------------------------
(* Uploads.                                                                *)

CreateJob(j) ==
    /\ JT!RegisterJob(j)
    /\ UNCHANGED <<sidecarVars, poolVars, reading, turnedAway>>

\* _require_job, before the file is read: an upload for no job ends with 404.
FindJob(d) ==
    /\ outcome[d] = "none" /\ d \notin reading
    /\ \/ JT!Live(JobOf[d]) /\ reading' = reading \cup {d} /\ UNCHANGED trackerVars
       \/ JT!NoJobForDocument(d) /\ UNCHANGED reading
    /\ UNCHANGED <<sidecarVars, poolVars, turnedAway>>

HasSidecar(d) == SidecarOf[d] # NoSidecar

\* _bind_sidecar_for_admission finds nothing: 404, whatever became of the entry.
SidecarIsGone(d) ==
    /\ d \in reading /\ HasSidecar(d) /\ ~SS!Available(SidecarOf[d])
    /\ SS!Consume(SidecarOf[d])
    /\ JT!Answer(d, "refused")
    /\ reading' = reading \ {d}
    /\ UNCHANGED <<jobs, jobStatus, counts, documentIds, progress, documents, status, accepted,
                   idempotency, registrations, aged, created, rolledBack, poolVars,
                   turnedAway>>

Bind(d) == IF HasSidecar(d) THEN SS!Consume(SidecarOf[d]) ELSE UNCHANGED sidecarVars

Bound(d) == d \in reading /\ (HasSidecar(d) => SS!Available(SidecarOf[d]))

\* The registration raises (404, 409, or KeyError for a replay of a document
\* that is gone); the sidecar has been consumed and is not restored.
RegistrationFails(d) ==
    /\ Bound(d)
    /\ JT!NoJobForDocument(d) \/ JT!RefuseDocument(d) \/ JT!ReplayDocument(d)
    /\ outcome'[d] # "replayed"
    /\ Bind(d)
    /\ reading' = reading \ {d}
    /\ UNCHANGED <<poolVars, turnedAway>>

\* An idempotent duplicate is answered 202 with the earlier attempt, and what
\* it consumed is restored.
Duplicate(d) ==
    /\ Bound(d)
    /\ JT!ReplayDocument(d) /\ outcome'[d] = "replayed"
    /\ reading' = reading \ {d}
    /\ UNCHANGED <<sidecarVars, poolVars, turnedAway>>

HasRoom(p) == Len(queue[p]) < QueueSize[p]

Admit(d) ==
    LET p == PoolOf[d] IN
    /\ Bound(d) /\ HasRoom(p)
    /\ JT!RegisterDocument(d)
    /\ Bind(d)
    /\ queue' = [queue EXCEPT ![p] = Append(@, d)]
    /\ reading' = reading \ {d}
    /\ UNCHANGED <<running, turnedAway>>

\* HTTP 429 from _enqueue_or_reject: the document stays registered, and the
\* sidecar consumed.
TurnAway(d) ==
    /\ Bound(d) /\ ~HasRoom(PoolOf[d])
    /\ JT!RegisterDocument(d)
    /\ Bind(d)
    /\ turnedAway' = turnedAway \cup {d}
    /\ reading' = reading \ {d}
    /\ UNCHANGED poolVars

-----------------------------------------------------------------------------
(* The workers.                                                            *)

\* The tracker's transitions return without effect when they do not apply.
Begun(d) ==
    IF d \in documents /\ (JobOf[d] \in aged \/ status[d] = "pending")
    THEN JT!MarkProcessing(d) ELSE UNCHANGED trackerVars

Ended_MutantDropped(d, how) ==
    IF d \in documents /\ how = "completed" THEN JT!MarkTerminal({d}, how) ELSE UNCHANGED trackerVars
Ended(d, how) == IF d \in documents THEN JT!MarkTerminal({d}, how) ELSE UNCHANGED trackerVars

Idle(k) == running[k] = NoDoc

\* What is left of a queue once a worker has taken its head.
Rest_MutantShared(q) == q
Rest(q) == Tail(q)

Take(k) ==
    LET p == Serves[k]  d == Head(queue[p]) IN
    /\ Idle(k) /\ queue[p] # <<>>
    /\ queue' = [queue EXCEPT ![p] = Rest(@)]
    /\ running' = [running EXCEPT ![k] = d]
    /\ Begun(d)
    /\ UNCHANGED <<sidecarVars, reading, turnedAway>>

\* The pipeline returns rows, or anything in it raises.
Finish(k, how) ==
    /\ ~Idle(k)
    /\ Ended(running[k], how)
    /\ running' = [running EXCEPT ![k] = NoDoc]
    /\ UNCHANGED <<queue, sidecarVars, reading, turnedAway>>

-----------------------------------------------------------------------------
(* Sidecars, time, and the end of the process.                             *)

SidecarStep(s) ==
    /\ SS!Put(s) \/ SS!Delete(s) \/ SS!Expire(s)
    /\ UNCHANGED <<trackerVars, poolVars, reading, turnedAway>>

TimePasses ==
    /\ \E j \in Jobs : JT!AgeOut(j) \/ JT!Read({j})
    /\ UNCHANGED <<sidecarVars, poolVars, reading, turnedAway>>

\* The pools are shut down without draining, and everything is in memory.
Restart ==
    /\ JT!Restart
    /\ entries' = {} /\ expired' = {} /\ reading' = {}
    /\ queue' = [p \in Pools |-> <<>>]
    /\ running' = [k \in Workers |-> NoDoc]
    /\ UNCHANGED <<drawn, turnedAway>>

Next ==
    \/ \E j \in Jobs : CreateJob(j)
    \/ \E d \in Docs :
         \/ FindJob(d) \/ SidecarIsGone(d) \/ RegistrationFails(d) \/ Duplicate(d)
         \/ Admit(d) \/ TurnAway(d)
    \/ \E k \in Workers : Take(k) \/ (\E how \in JT!DocTerminal : Finish(k, how))
    \/ \E s \in Sidecars : SidecarStep(s)
    \/ TimePasses
    \/ Restart

Spec == Init /\ [][Next]_vars

\* A worker that has something to do does it, and a pipeline run ends.
Fairness ==
    \A k \in Workers : WF_vars(Take(k)) /\ WF_vars(\E how \in JT!DocTerminal : Finish(k, how))

FairSpec == Spec /\ Fairness

-----------------------------------------------------------------------------


Queued(d) == Cardinality({i \in DOMAIN queue[PoolOf[d]] : queue[PoolOf[d]][i] = d})
Running(d) == Cardinality({k \in Workers : running[k] = d})

\* A document that was admitted is in exactly one place until it ends, and what
\* a client is told of it says where: pending in the queue, processing with one
\* worker, ended with neither.  No document is executed twice.
PoolMatchesTracker ==
    \A d \in Docs :
        /\ Queued(d) + Running(d) <= 1
        /\ d \in documents \ turnedAway =>
             /\ status[d] = "pending" <=> Queued(d) = 1
             /\ status[d] = "processing" <=> Running(d) = 1

\* A single-use sidecar is bound to at most one registered document, however
\* many uploads name it, are answered as duplicates or fail, and is spent then.
SidecarBoundOnce ==
    \A s \in SingleUse :
        LET bound == {d \in Docs : SidecarOf[d] = s /\ outcome[d] = "registered"}
        IN Cardinality(bound) <= 1 /\ (bound # {} => s \notin entries)

\* Every document that was admitted ends, unless its job expires or the
\* service stops.
AdmittedEnds ==
    \A d \in Docs :
        (d \in documents \ turnedAway) ~>
            (d \notin documents \/ JobOf[d] \in aged \/ status[d] \in JT!DocTerminal)

\* "Upload a file under an existing job, with retry on 429" (client.py:801): a
\* retry that is told that its file has been accepted names a document that
\* somebody works on or has ended.
RetryIsWorkedOn ==
    \A d \in Docs :
        outcome[d] = "replayed" /\ JT!Live(JobOf[d]) /\ JT!Prior(d) \in documents =>
            \/ status[JT!Prior(d)] \in JT!DocTerminal
            \/ Queued(JT!Prior(d)) + Running(JT!Prior(d)) = 1
=============================================================================
