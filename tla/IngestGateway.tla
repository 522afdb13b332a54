--------------------------- MODULE IngestGateway ---------------------------
(***************************************************************************)
(* The split service: the gateway's upload handlers, its work broker and   *)
(* job tracker, its completion callback, and the worker pods that claim,   *)
(* execute and report.  WorkBroker and JobTracker are used as they are; an *)
(* action here is one handler step and the calls it makes into both.       *)
(*                                                                         *)
(* A worker pod runs one execution coroutine and is named as the claimer   *)
(* it is for the broker.  Requests and answers may be lost; a worker that  *)
(* gets no answer to its callback sends it again, so several callbacks of  *)
(* one delivery may be under way.  When a worker's retries are used up it  *)
(* goes on and leaves the callback to a background task that keeps sending *)
(* it and keeps the lease alive; here it simply stays with the callback.   *)
(*                                                                         *)
(* Operators named X_Mutant... are wrong versions of X that the model      *)
(* never uses; they stand for the mistakes its properties must notice.     *)
(***************************************************************************)
EXTENDS Integers, Sequences, FiniteSets

CONSTANTS
    Work, Pools, Claimers, NoWork, NoPool, PoolOf, ClaimsFrom, HasSidecar,
    PayloadBytes, SidecarBytes, QueueLimit, LeaseCap, SpoolLimit,
    MaxDeliveryAttempts, Losable, MaxGeneration,
    Jobs, Entries, Keys, NoJob, NoDoc, NoEntry, NoKey, NoPrint, Expected,
    KeyOf, PrintOf, JobOf, EntryOf, ContentOf, MaxJobs, ProgressStep, EvictionInterval,
    Retain,        (* the works whose rows the client asked for and that have some *)
    NoClaimer,
    MaxCalls       (* bound: callback handlers under way at a time                *)

\* The lines after the first repeat what WorkBroker and JobTracker assume.
ASSUME IngestGatewayAssumption ==
    /\ Retain \subseteq Work /\ NoClaimer \notin Claimers /\ MaxCalls \in Nat
    /\ NoWork \notin Work /\ PoolOf \in [Work -> Pools] /\ ClaimsFrom \in [Claimers -> Pools]
    /\ MaxDeliveryAttempts \in Nat \ {0}
    /\ JobOf \in [Work -> Jobs]

VARIABLES
    phase, notified, awaited, records, queue, lease, generation, activated, attempts,
    spoolBytes, files, unlinking, op, admission, claim, fate,
    jobs, jobStatus, counts, documentIds, progress, documents, status,
    accepted, idempotency, registrations, aged, created, outcome, rolledBack,
    uploading,     (* upload handlers between registration and admission        *)
    worker,        (* [Claimers -> [at, work, gen]]: the execution coroutines:  *)
                   (* idle, claiming, fetching, running, completed or failed    *)
    leasedTo,      (* [Work -> Claimers \cup {NoClaimer}]: lease.worker_ip      *)
    held,          (* <<c, w>>: the rows of w in the memory of worker c         *)
    calls,         (* the job_callback handlers under way, [from, work, gen,    *)
                   (* stage], at the stage look, copy, ack or unlink            *)
    stored         (* the works whose rows the gateway has                      *)

WB == INSTANCE WorkBroker
JT == INSTANCE JobTracker WITH Docs <- Work

brokerVars == <<phase, notified, awaited, records, queue, lease, generation, activated, attempts,
                spoolBytes, files, unlinking, op, admission, claim, fate>>
trackerVars == <<jobs, jobStatus, counts, documentIds, progress, documents, status,
                 accepted, idempotency, registrations, aged, created, outcome, rolledBack>>
workerVars == <<worker, leasedTo, held>>
gatewayVars == <<uploading, calls, stored>>
vars == <<brokerVars, trackerVars, workerVars, gatewayVars>>

Idle == [at |-> "idle", work |-> NoWork, gen |-> 0]
Init ==
    /\ WB!Init /\ JT!Init
    /\ uploading = {} /\ calls = {} /\ stored = {} /\ held = {}
    /\ worker = [c \in Claimers |-> Idle]
    /\ leasedTo = [w \in Work |-> NoClaimer]

-----------------------------------------------------------------------------
(* Uploads: the document is registered first and admitted second.          *)

CreateJob(j) ==
    /\ phase # "down"
    /\ JT!RegisterJob(j)
    /\ UNCHANGED <<brokerVars, workerVars, gatewayVars>>

Upload(w) ==
    /\ phase # "down"
    /\ \/ JT!RegisterDocument(w) /\ uploading' = uploading \cup {w}
       \/ /\ JT!NoJobForDocument(w) \/ JT!ReplayDocument(w) \/ JT!RefuseDocument(w)
          /\ UNCHANGED uploading
    /\ UNCHANGED <<brokerVars, workerVars, calls, stored>>

EnqueueStart(w) ==
    /\ w \in uploading
    /\ WB!EnqueueStart(w)
    /\ uploading' = uploading \ {w}
    /\ UNCHANGED <<trackerVars, workerVars, calls, stored>>

EnqueueProceeds(w) ==
    /\ WB!EnqueueAdmit(w) \/ WB!SpoolPayload(w) \/ WB!SpoolSidecar(w) \/ WB!SpoolFails(w)
    /\ UNCHANGED <<trackerVars, workerVars, gatewayVars>>

\* A rejected or failed admission takes the document back out of the tracker.
RollBack_MutantForgotten(w) == UNCHANGED trackerVars
RollBack(w) ==
    IF w \in documents /\ status[w] = "pending" THEN JT!UnregisterPending(w) ELSE UNCHANGED trackerVars

EnqueueRefused(w) ==
    /\ WB!EnqueueReject(w) \/ WB!EnqueueUndo(w)
    /\ RollBack(w)
    /\ UNCHANGED <<workerVars, gatewayVars>>

-----------------------------------------------------------------------------
(* Deliveries that end in the broker: exhausted works are marked failed.   *)

Exhaust_MutantSilent(X) == UNCHANGED trackerVars
Exhaust(X) == IF X = {} THEN UNCHANGED trackerVars ELSE JT!MarkTerminal(X, "failed")

Sweep(p) ==
    /\ WB!Sweep(p)
    /\ Exhaust(WB!Spent(WB!Due(p)))
    /\ UNCHANGED <<workerVars, gatewayVars>>

LeaseDue(w) == WB!LeaseDue(w) /\ UNCHANGED <<trackerVars, workerVars, gatewayVars>>

-----------------------------------------------------------------------------
(* A worker: claim, fetch and verify the inputs, activate, execute, report. *)

Become(c, at) == worker' = [worker EXCEPT ![c].at = at]
GoIdle(c) == worker' = [worker EXCEPT ![c] = Idle]

\* A delivery that no activation has counted is given up only below the bound.
MayAbandon(w) == activated[w] = generation[w] \/ generation[w] < MaxGeneration

ClaimCall(c) ==
    /\ worker[c].at = "idle"
    /\ WB!ClaimCall(c)
    /\ Become(c, "claiming")
    /\ UNCHANGED <<trackerVars, leasedTo, held, gatewayVars>>

\* The answer reaches the worker, or the lease belongs to nobody that knows it.
ClaimGrant(c, w) ==
    /\ WB!ClaimGrant(c, w)
    /\ Exhaust(WB!Spent(WB!Due(ClaimsFrom[c])))
    /\ leasedTo' = [leasedTo EXCEPT ![w] = c]
    /\ \/ /\ worker[c].at = "claiming"
          /\ worker' = [worker EXCEPT ![c] = [at |-> "fetching", work |-> w, gen |-> generation[w] + 1]]
       \/ /\ generation[w] + 1 < MaxGeneration
          /\ worker' = [worker EXCEPT ![c] = IF @.at = "claiming" THEN Idle ELSE @]
    /\ UNCHANGED <<held, gatewayVars>>

ClaimWait(c) ==
    /\ WB!ClaimWait(c)
    /\ Exhaust(WB!Spent(WB!Due(ClaimsFrom[c])))
    /\ UNCHANGED <<workerVars, gatewayVars>>

\* HTTP 204: the worker asks again.
ClaimEmpty(c) ==
    /\ WB!ClaimTimeout(c) \/ WB!ClaimStopped(c)
    /\ worker' = [worker EXCEPT ![c] = IF @.at = "claiming" THEN Idle ELSE @]
    /\ UNCHANGED <<trackerVars, leasedTo, held, gatewayVars>>

\* An input cannot be fetched or is not what the claim said: the lease is
\* released, unless it is stale by now or the release request is lost.
FetchFails(c) ==
    LET w == worker[c].work  g == worker[c].gen IN
    /\ worker[c].at = "fetching"
    /\ \/ WB!Release(w, g) /\ Exhaust(WB!Spent({w}))
       \/ WB!PayloadMissing(w, g) /\ Exhaust(WB!Spent({w}))
       \/ ~WB!Current(w, g) /\ UNCHANGED <<brokerVars, trackerVars>>
       \/ MayAbandon(w) /\ UNCHANGED <<brokerVars, trackerVars>>
    /\ GoIdle(c)
    /\ UNCHANGED <<leasedTo, held, gatewayVars>>

\* The tracker shows the document as processing from the first activation on.
Begun_MutantUnseen(w) == UNCHANGED trackerVars
Begun(w) ==
    IF w \in documents /\ (JobOf[w] \in aged \/ status[w] = "pending")
    THEN JT!MarkProcessing(w) ELSE UNCHANGED trackerVars

\* The worker has fetched every input, so all were there.  Again the answer may
\* be lost: the claim fails and the lease runs out.
Activate(c) ==
    LET w == worker[c].work IN
    /\ worker[c].at = "fetching" /\ WB!FilesOf(w) \subseteq files
    /\ WB!Activate(w, worker[c].gen)
    /\ Begun(w)
    /\ Become(c, "running") \/ GoIdle(c)
    /\ UNCHANGED <<leasedTo, held, gatewayVars>>

Heartbeat(c) ==
    /\ worker[c].at \in {"running", "completed", "failed"}
    /\ WB!Heartbeat(worker[c].work, worker[c].gen)
    /\ UNCHANGED <<trackerVars, workerVars, gatewayVars>>

\* The pipeline returns rows, which are kept for the gateway, or raises.
Execute(c) ==
    /\ worker[c].at = "running"
    /\ \/ /\ Become(c, "completed")
          /\ held' = IF worker[c].work \in Retain THEN held \cup {<<c, worker[c].work>>} ELSE held
       \/ Become(c, "failed") /\ UNCHANGED held
    /\ UNCHANGED <<brokerVars, trackerVars, leasedTo, gatewayVars>>

\* The pod is lost with its memory, or the coroutine gives up.  (A claim is
\* abandoned only below the bound, too.)
WorkerLost(c) ==
    /\ worker[c].at # "idle"
    /\ worker[c].at = "claiming" => \A w \in Work : generation[w] + 1 < MaxGeneration
    /\ worker[c].at = "fetching" => MayAbandon(worker[c].work)
    /\ GoIdle(c)
    /\ held' = {h \in held : h[1] # c}
    /\ UNCHANGED <<brokerVars, trackerVars, leasedTo, gatewayVars>>

-----------------------------------------------------------------------------
(* job_callback: validate the lease, copy the rows, mark the document, and  *)
(* acknowledge the work.                                                    *)

Reporting(c) == worker[c].at \in {"completed", "failed"}
Call(c, stage) == [from |-> c, work |-> worker[c].work, gen |-> worker[c].gen, stage |-> stage]
Known(w) == w \in documents /\ JobOf[w] \notin aged

Mark(w, new) == IF w \in documents THEN JT!MarkTerminal({w}, new) ELSE UNCHANGED trackerVars

\* Rows are copied before the document may become completed.
Handoff_MutantSkipped(w) == FALSE
Handoff(w) == w \in Retain

CallbackArrives(c) ==
    LET w == worker[c].work IN
    /\ Reporting(c)
    /\ WB!CallbackValid(w, worker[c].gen)
    /\ Cardinality(calls) < MaxCalls
    /\ \/ /\ worker[c].at = "completed" /\ Handoff(w) /\ Known(w)
          /\ calls' = calls \cup {Call(c, "look")}
          /\ UNCHANGED trackerVars
       \/ /\ worker[c].at = "completed" => ~Handoff(w)
          /\ calls' = calls \cup {Call(c, "ack")}
          /\ Mark(w, worker[c].at)
    /\ UNCHANGED <<brokerVars, workerVars, uploading, stored>>

\* HTTP 409 for a superseded lease and 410 for a document the tracker has
\* forgotten: the worker gives the delivery up.
CallbackRejected(c) ==
    LET w == worker[c].work IN
    /\ Reporting(c)
    /\ \/ ~WB!CallbackValid(w, worker[c].gen) /\ UNCHANGED trackerVars
       \/ /\ WB!CallbackValid(w, worker[c].gen)
          /\ worker[c].at = "completed" /\ w \in Retain /\ ~Known(w)
          /\ JT!Drop({JobOf[w]} \cap aged)
          /\ UNCHANGED <<status, registrations, created, outcome, rolledBack>>
    /\ GoIdle(c)
    /\ UNCHANGED <<brokerVars, leasedTo, held, gatewayVars>>

Moved(k, stage) == calls' = (calls \ {k}) \cup {[k EXCEPT !.stage = stage]}

\* The caller is still waiting for this callback's answer.
Awaits(k) == worker[k.from].work = k.work /\ worker[k.from].gen = k.gen /\ Reporting(k.from)

\* The lease the handler's record carries by now, if it carries one.
Unleased(w) == fate[w] = "exhausted" \/ (w \in records /\ lease[w] = "none")
Owner(k) == IF Unleased(k.work) THEN k.from ELSE leasedTo[k.work]

\* The gateway has rows of an earlier delivery: nothing is copied.
LookFinds(k) ==
    /\ k \in calls /\ k.stage = "look"
    /\ k.work \in stored
    /\ Mark(k.work, "completed")
    /\ Moved(k, "ack")
    /\ UNCHANGED <<brokerVars, workerVars, uploading, stored>>

LookMisses(k) ==
    /\ k \in calls /\ k.stage = "look"
    /\ k.work \notin stored
    /\ \/ Owner(k) = k.from /\ Moved(k, "copy") /\ UNCHANGED worker
       \/ /\ Owner(k) # k.from       \* HTTP 409: another worker owns the lease
          /\ calls' = calls \ {k}
          /\ worker' = [worker EXCEPT ![k.from] = IF Awaits(k) THEN Idle ELSE @]
    /\ UNCHANGED <<brokerVars, trackerVars, leasedTo, held, uploading, stored>>

Copy(k) ==
    /\ k \in calls /\ k.stage = "copy"
    /\ <<k.from, k.work>> \in held
    /\ stored' = stored \cup {k.work}
    /\ Mark(k.work, "completed")
    /\ Moved(k, "ack")
    /\ UNCHANGED <<brokerVars, workerVars, uploading>>

\* HTTP 503: the store or the worker cannot be read; the worker will retry.
HandoffFails(k) ==
    /\ k \in calls /\ k.stage \in {"look", "copy"}
    /\ calls' = calls \ {k}
    /\ UNCHANGED <<brokerVars, trackerVars, workerVars, uploading, stored>>

Acknowledge(k) ==
    /\ k \in calls /\ k.stage = "ack"
    /\ WB!Acknowledge(k.work, k.gen)
    /\ Moved(k, "unlink")
    /\ UNCHANGED <<trackerVars, workerVars, uploading, stored>>

\* HTTP 200, also when the lease was lost meanwhile.  A worker that gets the
\* answer drops its rows; one that does not sends its callback again.
Answer(k) ==
    /\ k \in calls
    /\ \/ k.stage = "ack" /\ ~WB!Current(k.work, k.gen) /\ UNCHANGED brokerVars
       \/ k.stage = "unlink" /\ WB!AckDone(k.work)
    /\ calls' = calls \ {k}
    /\ \/ UNCHANGED <<worker, held>>
       \/ /\ Awaits(k) /\ GoIdle(k.from)
          /\ held' = IF worker[k.from].at = "completed" THEN held \ {<<k.from, k.work>>} ELSE held
    /\ UNCHANGED <<trackerVars, leasedTo, uploading, stored>>

-----------------------------------------------------------------------------
(* Time, files, and the end of the gateway process.                        *)

AgeOut(j) == JT!AgeOut(j) /\ UNCHANGED <<brokerVars, workerVars, gatewayVars>>
Read(X) == JT!Read(X) /\ UNCHANGED <<brokerVars, workerVars, gatewayVars>>

\* Rows outlive the job they belong to, by the choice of their TTL.
RowsExpire(w) ==
    /\ w \in stored /\ ~Known(w)
    /\ stored' = stored \ {w}
    /\ UNCHANGED <<brokerVars, trackerVars, workerVars, uploading, calls>>

Unlink ==
    /\ \E f \in WB!Files : WB!Unlink(f)
    /\ UNCHANGED <<trackerVars, workerVars, gatewayVars>>

LoseFile ==
    /\ \E f \in WB!Files : WB!LoseFile(f)
    /\ UNCHANGED <<trackerVars, workerVars, gatewayVars>>

Shutdown == WB!Shutdown /\ UNCHANGED <<trackerVars, workerVars, gatewayVars>>

\* Handlers die with the process, and a worker's claim fails with them; rows
\* in the gateway's result store may survive.
Crash ==
    /\ WB!Crash /\ JT!Restart
    /\ uploading' = {} /\ calls' = {}
    /\ worker' = [c \in Claimers |-> IF worker[c].at = "claiming" THEN Idle ELSE worker[c]]
    /\ UNCHANGED <<leasedTo, held, stored>>

Start == WB!Start /\ UNCHANGED <<trackerVars, workerVars, gatewayVars>>

UploadStep(w) ==
    Upload(w) \/ EnqueueStart(w) \/ EnqueueProceeds(w) \/ EnqueueRefused(w)

WorkerStep(c) ==
    \/ ClaimCall(c) \/ ClaimWait(c) \/ ClaimEmpty(c) \/ (\E w \in Work : ClaimGrant(c, w))
    \/ FetchFails(c) \/ Activate(c) \/ Heartbeat(c) \/ Execute(c) \/ WorkerLost(c)
    \/ CallbackArrives(c) \/ CallbackRejected(c)

CallbackStep(k) ==
    LookFinds(k) \/ LookMisses(k) \/ Copy(k) \/ HandoffFails(k) \/ Acknowledge(k) \/ Answer(k)

Next ==
    \/ \E j \in Jobs : CreateJob(j) \/ AgeOut(j) \/ Read({j})
    \/ \E w \in Work : UploadStep(w) \/ LeaseDue(w) \/ RowsExpire(w)
    \/ \E p \in Pools : Sweep(p)
    \/ \E c \in Claimers : WorkerStep(c)
    \/ \E k \in calls : CallbackStep(k)
    \/ Unlink \/ LoseFile \/ Shutdown \/ Crash \/ Start

Spec == Init /\ [][Next]_vars

KeptAlive(w) ==
    \E c \in Claimers : /\ worker[c].work = w /\ worker[c].gen = generation[w]
                        /\ worker[c].at \in {"running", "completed", "failed"}

Admitting(w) == EnqueueStart(w) \/ EnqueueProceeds(w) \/ EnqueueRefused(w)
Working(c) ==
    ClaimCall(c) \/ FetchFails(c) \/ Activate(c) \/ Execute(c) \/ CallbackArrives(c) \/ CallbackRejected(c)

(* Handlers and workers keep going, and locks are handed over in turn.     *)
(* Time passes for a waiting claim and for a lease that no worker keeps    *)
(* alive.  Of the claims for a work one gets it, and of the attempts to    *)
(* copy its rows, which a worker repeats, one succeeds.  A shutdown that   *)
(* has begun goes on, and files are deleted.  Nothing is assumed of        *)
(* uploads, losses, expiring jobs or the end of the process.               *)
Fairness ==
    /\ \A w \in Work :
         /\ SF_vars(Admitting(w))
         /\ WF_vars(~KeptAlive(w) /\ LeaseDue(w))
         /\ SF_vars(\E c \in Claimers : ClaimGrant(c, w))
         /\ SF_vars(\E k \in calls : k.work = w /\ (LookFinds(k) \/ LookMisses(k)))
         /\ SF_vars(\E k \in calls : k.work = w /\ Copy(k))
    /\ \A p \in Pools : SF_vars(Sweep(p))
    /\ \A c \in Claimers :
         /\ SF_vars(Working(c)) /\ WF_vars(ClaimEmpty(c))
         /\ WF_vars(\E k \in calls : k.from = c /\ HandoffFails(k))
         /\ SF_vars(\E k \in calls : k.from = c /\ (Acknowledge(k) \/ Answer(k)))
    /\ SF_vars(phase # "running" /\ Shutdown) /\ WF_vars(Unlink)

FairSpec == Spec /\ Fairness

-----------------------------------------------------------------------------
(* Invariants.                                                             *)


\* While the gateway lives, an accepted document that has not ended is in the
\* broker, queued or leased: no interleaving of expiries, callbacks and
\* acknowledgements leaves a client waiting for work that nobody has.
NothingLost ==
    phase \in {"running", "stopping", "draining"} =>
        \A w \in documents :
            fate[w] \notin {"unseen", "admitting"} /\ status[w] \notin JT!DocTerminal => w \in records

\* An upload whose admission was refused, or failed half-way, is neither tracked
\* nor listed by its job nor recorded by the broker, so nobody waits for it and it
\* takes nobody's place.  What remains of it is its manifest entry, which the
\* rollback leaves in the tracker (job_tracker.py:546; MapsAgree has that side).
UploadIsAllOrNothing ==
    \A w \in Work : fate[w] = "rejected" =>
        w \notin documents /\ w \notin documentIds[JobOf[w]] /\ w \notin records

\* A tracked document is pending exactly while no worker was ever allowed to
\* execute it: that is what makes the rollback of a pending document safe.
StatusTellsDelivery == \A w \in documents : status[w] = "pending" <=> attempts[w] = 0

\* A document whose rows were asked for is completed only once the gateway has
\* them, so the worker that computed them may forget them.
CompletedHasResult ==
    \A w \in Retain : Known(w) /\ status[w] = "completed" => w \in stored

-----------------------------------------------------------------------------
(* What a client can see of each document implements DocumentLife.         *)

View(w) ==
    IF outcome[w] # "registered" THEN "unknown" ELSE IF Known(w) THEN status[w] ELSE "gone"

Life == INSTANCE DocumentLife WITH
            Docs <- Work, Retained <- Retain,
            view <- [w \in Work |-> View(w)], deliveries <- attempts, kept <- stored

\* Every document lives as DocumentLife says, through all the machinery.
EveryDocumentLives == Life!Spec

\* The inputs of w are gone, and no worker has them: every further delivery
\* fails before it is counted, so no attempt is spent and none is the last.
Starved(w) ==
    /\ w \in records /\ ~(WB!FilesOf(w) \subseteq files)
    /\ lease[w] = "none" \/ activated[w] # generation[w]

\* An accepted document that has not ended, while the gateway runs.
Open(w) ==
    /\ phase = "running" /\ fate[w] \notin {"unseen", "admitting", "rejected"}
    /\ View(w) \in {"pending", "processing"} /\ ~Starved(w)

\* No document whose inputs are there stays open for ever: it ends, or vanishes
\* with its job or its gateway; lost workers, lost answers, expired leases, and
\* inputs lost while a worker has them, only delay it.
Settles == \A w \in Work : []<>~Open(w)

\* Shutdown comes to its end, whatever uploads, callbacks and deletions it meets.
ShutdownEnds == WB!ShutdownEnds
=============================================================================
