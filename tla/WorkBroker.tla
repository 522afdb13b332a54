----------------------------- MODULE WorkBroker -----------------------------
(***************************************************************************)
(* The gateway's pull broker (service/services/work_queue.py, WorkBroker): *)
(* a FIFO queue per pool, leases with generations, a spool directory that  *)
(* holds the payloads, and an asyncio.Condition per pool.                  *)
(*                                                                         *)
(* The broker runs on one event loop, so everything between two awaits is  *)
(* one action.  The only handlers that keep a pool's condition locked      *)
(* across an await are an admission (it writes the spool files in a        *)
(* thread) and an acknowledgement (it deletes them); op[p] is that         *)
(* handler.  Every other handler needs op[p] to be free.                   *)
(*                                                                         *)
(* A lease is named by its generation: each claim of a record draws a new  *)
(* lease id and increments the generation.  Time is the action LeaseDue: a *)
(* lease is "held", or "due" once expires_at has passed; it ends only when *)
(* somebody sweeps it, and until then a heartbeat still revives it.        *)
(*                                                                         *)
(* Operators named X_Mutant... are wrong versions of X that the model      *)
(* never uses; they stand for the mistakes its properties must notice.     *)
(***************************************************************************)
EXTENDS Integers, Sequences, FiniteSets, Functions

CONSTANTS
    Work,          (* work ids; every upload draws a fresh one                 *)
    Pools,         (* PoolType: realtime and batch                             *)
    Claimers,      (* worker coroutines that call claim()                      *)
    NoWork, NoPool,
    PoolOf,        (* [Work -> Pools], decided before admission                *)
    ClaimsFrom,    (* [Claimers -> Pools], each GatewayWorkClient has one pool *)
    HasSidecar,    (* the works admitted with a sidecar attachment             *)
    PayloadBytes, SidecarBytes,
    QueueLimit,    (* [Pools -> Nat]: realtime_queue_size, batch_queue_size    *)
    LeaseCap,      (* [Pools -> Nat]: max_active_leases_*                      *)
    SpoolLimit,    (* spool_limit_bytes                                        *)
    MaxDeliveryAttempts,
    Losable,       (* spool files something outside the gateway may delete     *)
    MaxGeneration  (* bound: a delivery that was never activated fails only    *)
                   (* while the record's generation is below this              *)

Files == Work \X {"payload", "sidecar"}

ASSUME WorkBrokerAssumption ==
    /\ IsFiniteSet(Work) /\ IsFiniteSet(Claimers)
    /\ NoWork \notin Work /\ NoPool \notin Pools
    /\ PoolOf \in [Work -> Pools] /\ ClaimsFrom \in [Claimers -> Pools]
    /\ HasSidecar \subseteq Work /\ Losable \subseteq Files
    /\ PayloadBytes \in [Work -> Nat] /\ SidecarBytes \in [Work -> Nat]
    /\ QueueLimit \in [Pools -> Nat] /\ LeaseCap \in [Pools -> Nat]
    /\ SpoolLimit \in Nat
    /\ MaxDeliveryAttempts \in Nat \ {0}
    /\ MaxGeneration \in Nat

VARIABLES
    phase,      (* "running", how far shutdown() has come, or "down": no process *)
    notified,   (* the pools whose waiters shutdown() has already woken        *)
    awaited,    (* the scheduled deletions shutdown() waits for                *)
    records,    (* the keys of _records                                        *)
    queue,      (* [Pools -> Seq(Work)]: _queues                               *)
    lease,      (* [Work -> {"none", "held", "due"}]                           *)
    generation, activated, attempts,   (* [Work -> Nat]; activated 0 is None   *)
    spoolBytes, (* _spool_bytes                                                *)
    files,      (* the files in the spool directory                            *)
    unlinking,  (* _unlink_tasks                                               *)
    op,         (* [Pools -> [step, work]]: who holds the pool's condition     *)
    admission,  (* the pool whose enqueue holds _admission_lock, or NoPool     *)
    claim,      (* [Claimers -> {"out", "called", "waiting", "woken"}]         *)
    fate        (* history: what has become of each work id                    *)

recordVars == <<records, queue, lease, generation, activated, attempts>>
spoolVars  == <<spoolBytes, files, unlinking>>
lockVars   == <<op, admission>>
phaseVars  == <<phase, notified, awaited>>
vars == <<recordVars, spoolVars, lockVars, phaseVars, claim, fate>>

Steps == {"free", "admission", "payload", "sidecar", "undo", "unlink"}
Fates == {"unseen", "admitting", "rejected", "admitted",
          "acknowledged", "exhausted", "discarded"}
Free == [step |-> "free", work |-> NoWork]

Running == phase = "running"

\* The spool files of a work id, and the bytes its record accounts for, one by one.
FilesOf(w) == {<<w, "payload">>} \cup (IF w \in HasSidecar THEN {<<w, "sidecar">>} ELSE {})
FilesOfAll(W) == UNION {FilesOf(w) : w \in W}
RecordBytes(w) == PayloadBytes[w] + (IF w \in HasSidecar THEN SidecarBytes[w] ELSE 0)
Bytes(W) == UNION {{w} \X (1..RecordBytes(w)) : w \in W}
BytesOf(W) == Cardinality(Bytes(W))

Leased(p) == {w \in records : PoolOf[w] = p /\ lease[w] # "none"}
Due(p) == {w \in records : PoolOf[w] = p /\ lease[w] = "due"}

\* The caller's lease is still the one the record carries.
Current(w, g) == w \in records /\ lease[w] # "none" /\ generation[w] = g

\* What a completion callback must pass before it may touch the document.
CallbackValid(w, g) == Current(w, g) /\ activated[w] = g

Init ==
    /\ phase = "running" /\ notified = {} /\ awaited = {}
    /\ records = {} /\ queue = [p \in Pools |-> <<>>]
    /\ lease = [w \in Work |-> "none"]
    /\ generation = [w \in Work |-> 0]
    /\ activated = [w \in Work |-> 0]
    /\ attempts = [w \in Work |-> 0]
    /\ spoolBytes = 0 /\ files = {} /\ unlinking = {}
    /\ op = [p \in Pools |-> Free] /\ admission = NoPool
    /\ claim = [c \in Claimers |-> "out"]
    /\ fate = [w \in Work |-> "unseen"]

-----------------------------------------------------------------------------
(* Waking claimers: Condition.notify(1) and Condition.notify_all.          *)

Waiting(p) == {c \in Claimers : ClaimsFrom[c] = p /\ claim[c] = "waiting"}

NotifyOne(p) ==
    IF Waiting(p) = {} THEN UNCHANGED claim
    ELSE \E c \in Waiting(p) : claim' = [claim EXCEPT ![c] = "woken"]

NotifyAll(p) == claim' = [c \in Claimers |-> IF c \in Waiting(p) THEN "woken" ELSE claim[c]]

-----------------------------------------------------------------------------
(* enqueue(): the pool's condition, then the admission lock, then the spool *)
(* writes with both held, then the record.                                  *)

EnqueueStart(w) ==
    /\ phase # "down"
    /\ fate[w] = "unseen"
    /\ op[PoolOf[w]] = Free
    /\ op' = [op EXCEPT ![PoolOf[w]] = [step |-> "admission", work |-> w]]
    /\ fate' = [fate EXCEPT ![w] = "admitting"]
    /\ UNCHANGED <<recordVars, spoolVars, phaseVars, admission, claim>>

At(w, step) == op[PoolOf[w]] = [step |-> step, work |-> w]

Admissible_MutantStopping(w) ==
    /\ w \notin records
    /\ Len(queue[PoolOf[w]]) < QueueLimit[PoolOf[w]]
    /\ spoolBytes + RecordBytes(w) <= SpoolLimit

Admissible_MutantOneMore(w) ==
    /\ Running
    /\ w \notin records
    /\ Len(queue[PoolOf[w]]) <= QueueLimit[PoolOf[w]]
    /\ spoolBytes + RecordBytes(w) <= SpoolLimit

Admissible(w) ==
    /\ Running
    /\ w \notin records
    /\ Len(queue[PoolOf[w]]) < QueueLimit[PoolOf[w]]
    /\ spoolBytes + RecordBytes(w) <= SpoolLimit

AdmissionFree_MutantNoLock == TRUE
AdmissionFree == admission = NoPool

EnqueueReject(w) ==
    /\ At(w, "admission") /\ AdmissionFree
    /\ ~Admissible(w)
    /\ op' = [op EXCEPT ![PoolOf[w]] = Free]
    /\ fate' = [fate EXCEPT ![w] = "rejected"]
    /\ UNCHANGED <<recordVars, spoolVars, phaseVars, admission, claim>>

EnqueueAdmit(w) ==
    /\ At(w, "admission") /\ AdmissionFree
    /\ Admissible(w)
    /\ admission' = PoolOf[w]
    /\ op' = [op EXCEPT ![PoolOf[w]].step = "payload"]
    /\ UNCHANGED <<recordVars, spoolVars, phaseVars, claim, fate>>

Enqueued_MutantLifo(q, w) == <<w>> \o q
Enqueued(q, w) == Append(q, w)

\* The last spool write has returned: record, queue entry, byte count and the
\* wake-up of one waiter happen with no await between them.
Commit(w) ==
    /\ records' = records \cup {w}
    /\ queue' = [queue EXCEPT ![PoolOf[w]] = Enqueued(@, w)]
    /\ spoolBytes' = spoolBytes + RecordBytes(w)
    /\ op' = [op EXCEPT ![PoolOf[w]] = Free]
    /\ admission' = NoPool
    /\ fate' = [fate EXCEPT ![w] = "admitted"]
    /\ NotifyOne(PoolOf[w])
    /\ UNCHANGED <<lease, generation, activated, attempts>>

\* The payload is the only file, or the sidecar is still to be written.
PayloadSuffices(w) == w \notin HasSidecar

SpoolPayload(w) ==
    /\ At(w, "payload")
    /\ files' = files \cup {<<w, "payload">>}
    /\ \/ PayloadSuffices(w) /\ Commit(w)
       \/ /\ ~PayloadSuffices(w)
          /\ op' = [op EXCEPT ![PoolOf[w]].step = "sidecar"]
          /\ UNCHANGED <<recordVars, spoolBytes, admission, claim, fate>>
    /\ UNCHANGED <<unlinking, phaseVars>>

SpoolSidecar(w) ==
    /\ At(w, "sidecar")
    /\ files' = files \cup {<<w, "sidecar">>}
    /\ Commit(w)
    /\ UNCHANGED <<unlinking, phaseVars>>

\* A spool write raises; the file may already be in place (the rename is done
\* before the directory is synced).
SpoolFails(w) ==
    /\ \E f \in {"payload", "sidecar"} :
         /\ At(w, f)
         /\ files' \in {files, files \cup {<<w, f>>}}
    /\ op' = [op EXCEPT ![PoolOf[w]].step = "undo"]
    /\ UNCHANGED <<recordVars, spoolBytes, unlinking, phaseVars, admission, claim, fate>>

\* The rollback deletes what was written before both locks are released.
EnqueueUndo(w) ==
    /\ At(w, "undo")
    /\ files' = files \ FilesOf(w)
    /\ op' = [op EXCEPT ![PoolOf[w]] = Free]
    /\ admission' = NoPool
    /\ fate' = [fate EXCEPT ![w] = "rejected"]
    /\ UNCHANGED <<recordVars, spoolBytes, unlinking, phaseVars, claim>>

-----------------------------------------------------------------------------
(* The end of a delivery: back to the front of the queue, or exhausted.    *)

\* The files an exhausted record leaves to be deleted.
Doomed_MutantIds(X) == X
Doomed(X) == FilesOfAll(X)

\* _exhaust_locked on a set of records; deleting their files is left to tasks.
Retire(X) ==
    /\ records' = records \ X
    /\ spoolBytes' = spoolBytes - BytesOf(X)
    /\ unlinking' = unlinking \cup Doomed(X)
    /\ fate' = [w \in Work |-> IF w \in X THEN "exhausted" ELSE fate[w]]

\* Of the deliveries D that end, those that spend the record's last attempt.
Spent_MutantClaims(D) == {w \in D : generation[w] >= MaxDeliveryAttempts}
Spent(D) == {w \in D : attempts[w] >= MaxDeliveryAttempts}

\* A sweep puts the records back one by one, in the order it meets them.
Orders(D) == Bijection(1..Cardinality(D), D)

Front_MutantLost(s, q) == q
Front_MutantBack(s, q) == q \o s
Front(s, q) == s \o q

RequeueOrExhaust(p, D) ==
    /\ Retire(Spent(D))
    /\ lease' = [w \in Work |-> IF w \in D THEN "none" ELSE lease[w]]
    /\ \E s \in Orders(D \ Spent(D)) : queue' = [queue EXCEPT ![p] = Front(s, @)]
    /\ UNCHANGED <<generation, activated, attempts>>

\* _expiry_loop for one pool, when some lease is due.
Sweep(p) ==
    /\ phase \in {"running", "stopping"}
    /\ op[p] = Free
    /\ Due(p) # {}
    /\ RequeueOrExhaust(p, Due(p))
    /\ NotifyAll(p)
    /\ UNCHANGED <<files, lockVars, phaseVars>>

\* A worker gives its lease back.
Release(w, g) ==
    /\ Current(w, g) /\ op[PoolOf[w]] = Free
    /\ activated[w] = g \/ generation[w] < MaxGeneration
    /\ RequeueOrExhaust(PoolOf[w], {w})
    /\ NotifyAll(PoolOf[w])
    /\ UNCHANGED <<files, lockVars, phaseVars>>

\* payload_path when the file has disappeared: the lease ends there and then.
PayloadMissing(w, g) ==
    /\ <<w, "payload">> \notin files
    /\ Release(w, g)

-----------------------------------------------------------------------------
(* claim(): sweep, then take the first queued record if the pool has a free *)
(* lease slot, else wait on the condition until notified or timed out.      *)

ClaimCall(c) ==
    /\ phase # "down" /\ claim[c] = "out"
    /\ claim' = [claim EXCEPT ![c] = "called"]
    /\ UNCHANGED <<recordVars, spoolVars, lockVars, phaseVars, fate>>

Claiming(c) == claim[c] \in {"called", "woken"} /\ op[ClaimsFrom[c]] = Free

\* A slot is free once the due leases D of pool p are swept.
SlotFree_MutantOffByOne(p, D) == Cardinality(Leased(p) \ D) <= LeaseCap[p]
SlotFree(p, D) == Cardinality(Leased(p) \ D) < LeaseCap[p]

\* After the sweep of D, w is a record without a lease.
Ready(w, D) == w \in records \ Spent(D) /\ (lease[w] = "none" \/ w \in D)

\* What remains of q when it is popped from the left until w, its first ready entry.
Rests(q, w, D) ==
    {SubSeq(q, i+1, Len(q)) : i \in {k \in 1..Len(q) : /\ q[k] = w /\ Ready(w, D)
                                                      /\ \A j \in 1..(k-1) : ~Ready(q[j], D)}}

ClaimGrant(c, w) ==
    LET p == ClaimsFrom[c]
        D == Due(p)
    IN /\ Claiming(c) /\ Running
       /\ SlotFree(p, D)
       /\ Retire(Spent(D))
       /\ \E s \in Orders(D \ Spent(D)) : \E rest \in Rests(Front(s, queue[p]), w, D) :
            queue' = [queue EXCEPT ![p] = rest]
       /\ generation' = [generation EXCEPT ![w] = @ + 1]
       /\ activated' = [activated EXCEPT ![w] = 0]
       /\ lease' = [v \in Work |-> IF v = w THEN "held"
                                  ELSE IF v \in D THEN "none" ELSE lease[v]]
       /\ claim' = [claim EXCEPT ![c] = "out"]
       /\ UNCHANGED <<attempts, files, lockVars, phaseVars>>

\* No slot, or nothing queued: the claimer sleeps on the condition.
ClaimWait(c) ==
    LET p == ClaimsFrom[c]
        D == Due(p)
        back == D \ Spent(D)
    IN /\ Claiming(c) /\ Running
       /\ Retire(Spent(D))
       /\ lease' = [w \in Work |-> IF w \in D THEN "none" ELSE lease[w]]
       /\ \E s \in Orders(back) :
            LET q == Front(s, queue[p])
            IN \/ ~SlotFree(p, D) /\ queue' = [queue EXCEPT ![p] = q]
               \/ /\ SlotFree(p, D) /\ \A i \in 1..Len(q) : ~Ready(q[i], D)
                  /\ queue' = [queue EXCEPT ![p] = <<>>]
       /\ claim' = [claim EXCEPT ![c] = "waiting"]
       /\ UNCHANGED <<generation, activated, attempts, files, lockVars, phaseVars>>

\* claim_timeout_s has passed, for a sleeper or for one that was just woken and
\* has not yet got the lock back, or the broker is stopping: claim() is None.
ClaimTimeout(c) ==
    /\ claim[c] \in {"waiting", "woken"}
    /\ claim' = [claim EXCEPT ![c] = "out"]
    /\ UNCHANGED <<recordVars, spoolVars, lockVars, phaseVars, fate>>

ClaimStopped(c) ==
    /\ Claiming(c) /\ ~Running
    /\ claim' = [claim EXCEPT ![c] = "out"]
    /\ UNCHANGED <<recordVars, spoolVars, lockVars, phaseVars, fate>>

-----------------------------------------------------------------------------
(* The life of a lease.                                                    *)

\* Time passes and nobody has sent a heartbeat for lease_ttl_s.
LeaseDue(w) ==
    /\ w \in records /\ lease[w] = "held"
    /\ activated[w] = generation[w] \/ generation[w] < MaxGeneration
    /\ lease' = [lease EXCEPT ![w] = "due"]
    /\ UNCHANGED <<records, queue, generation, activated, attempts,
                   spoolVars, lockVars, phaseVars, claim, fate>>

\* A heartbeat takes no lock and revives even a lease that is past its expiry.
Heartbeat(w, g) ==
    /\ Current(w, g) /\ lease[w] = "due"
    /\ lease' = [lease EXCEPT ![w] = "held"]
    /\ UNCHANGED <<records, queue, generation, activated, attempts,
                   spoolVars, lockVars, phaseVars, claim, fate>>

\* The worker has checked every input: the delivery starts to count, once.
Counted_MutantNever(w, g) == FALSE
Counted(w, g) == activated[w] = g

Activate(w, g) ==
    /\ Current(w, g) /\ op[PoolOf[w]] = Free
    /\ ~Counted(w, g)
    /\ attempts' = [attempts EXCEPT ![w] = @ + 1]
    /\ activated' = [activated EXCEPT ![w] = g]
    /\ UNCHANGED <<records, queue, lease, generation,
                   spoolVars, lockVars, phaseVars, claim, fate>>

\* acknowledge() forgets the record first and deletes its files second, with
\* the pool's condition held in between.
Acknowledge(w, g) ==
    /\ Current(w, g) /\ op[PoolOf[w]] = Free
    /\ records' = records \ {w}
    /\ lease' = [lease EXCEPT ![w] = "none"]
    /\ spoolBytes' = spoolBytes - RecordBytes(w)
    /\ op' = [op EXCEPT ![PoolOf[w]] = [step |-> "unlink", work |-> w]]
    /\ fate' = [fate EXCEPT ![w] = "acknowledged"]
    /\ UNCHANGED <<queue, generation, activated, attempts, files, unlinking,
                   phaseVars, admission, claim>>

AckDone_MutantKeepsLock(w) ==
    /\ At(w, "unlink")
    /\ files' = files \ FilesOf(w)
    /\ UNCHANGED <<recordVars, spoolBytes, unlinking, phaseVars, lockVars, claim, fate>>

AckDone(w) ==
    /\ At(w, "unlink")
    /\ files' = files \ FilesOf(w)
    /\ op' = [op EXCEPT ![PoolOf[w]] = Free]
    /\ NotifyAll(PoolOf[w])
    /\ UNCHANGED <<recordVars, spoolBytes, unlinking, phaseVars, admission, fate>>

\* One of the deletions an exhausted record left behind.
Unlink(f) ==
    /\ f \in unlinking
    /\ files' = files \ {f} /\ unlinking' = unlinking \ {f}
    /\ UNCHANGED <<recordVars, spoolBytes, lockVars, phaseVars, claim, fate>>

\* The environment: the spool is an emptyDir under /tmp.
LoseFile(f) ==
    /\ f \in files \cap Losable
    /\ files' = files \ {f}
    /\ UNCHANGED <<recordVars, spoolBytes, unlinking, lockVars, phaseVars, claim, fate>>

-----------------------------------------------------------------------------
(* shutdown(), the loss of the process, and start().                       *)

ShutdownBegin ==
    /\ Running /\ phase' = "stopping"
    /\ UNCHANGED <<recordVars, spoolVars, lockVars, notified, awaited, claim, fate>>

\* Each condition is locked in turn, so an admission under way ends first.
ShutdownNotify(p) ==
    /\ phase = "stopping" /\ p \notin notified /\ op[p] = Free
    /\ notified' = notified \cup {p}
    /\ NotifyAll(p)
    /\ UNCHANGED <<recordVars, spoolVars, lockVars, phase, awaited, fate>>

\* The expiry loop is cancelled; the deletions scheduled so far are waited for.
ShutdownDrain ==
    /\ phase = "stopping" /\ notified = Pools
    /\ phase' = "draining" /\ awaited' = unlinking
    /\ UNCHANGED <<recordVars, spoolVars, lockVars, notified, claim, fate>>

ShutdownDiscard ==
    /\ phase = "draining" /\ awaited \cap unlinking = {}
    /\ phase' = "discarding"
    /\ files' = files \ FilesOfAll(records)
    /\ UNCHANGED <<recordVars, spoolBytes, unlinking, lockVars, notified, awaited, claim, fate>>

Forget(W) ==
    /\ records' = {} /\ queue' = [p \in Pools |-> <<>>] /\ spoolBytes' = 0
    /\ lease' = [w \in Work |-> "none"]
    /\ fate' = [w \in Work |-> IF w \in W THEN "discarded" ELSE fate[w]]
    /\ UNCHANGED <<generation, activated, attempts>>

ShutdownClear ==
    /\ phase = "discarding" /\ phase' = "stopped"
    /\ Forget(records)
    /\ UNCHANGED <<files, unlinking, lockVars, notified, awaited, claim>>

\* The process is gone with all it kept in memory; the spool directory stays.
Crash ==
    /\ phase # "down" /\ phase' = "down"
    /\ Forget(records \cup {w \in Work : fate[w] = "admitting"})
    /\ unlinking' = {} /\ notified' = {} /\ awaited' = {}
    /\ op' = [p \in Pools |-> Free] /\ admission' = NoPool
    /\ claim' = [c \in Claimers |-> "out"]
    /\ UNCHANGED files

\* start() deletes every spool file an earlier process left.
Start ==
    /\ phase = "down" /\ phase' = "running"
    /\ files' = {}
    /\ UNCHANGED <<recordVars, spoolBytes, unlinking, lockVars, notified, awaited, claim, fate>>

-----------------------------------------------------------------------------
\* Callers name a lease by the generation they were granted, current or not.
Generations == 1..(MaxGeneration + MaxDeliveryAttempts)

Admission(w) ==
    \/ EnqueueStart(w) \/ EnqueueReject(w) \/ EnqueueAdmit(w)
    \/ SpoolPayload(w) \/ SpoolSidecar(w) \/ SpoolFails(w) \/ EnqueueUndo(w)

Claim(c) ==
    \/ ClaimCall(c) \/ ClaimWait(c) \/ ClaimTimeout(c) \/ ClaimStopped(c)
    \/ \E w \in Work : ClaimGrant(c, w)

LeaseCall(w, g) ==
    \/ Heartbeat(w, g) \/ Activate(w, g) \/ Release(w, g)
    \/ PayloadMissing(w, g) \/ Acknowledge(w, g)

Shutdown ==
    \/ ShutdownBegin \/ (\E p \in Pools : ShutdownNotify(p))
    \/ ShutdownDrain \/ ShutdownDiscard \/ ShutdownClear

Next ==
    \/ \E w \in Work : Admission(w) \/ LeaseDue(w) \/ AckDone(w)
    \/ \E w \in Work, g \in Generations : LeaseCall(w, g)
    \/ \E c \in Claimers : Claim(c)
    \/ \E p \in Pools : Sweep(p)
    \/ \E f \in Files : Unlink(f) \/ LoseFile(f)
    \/ Shutdown \/ Crash \/ Start

Spec == Init /\ [][Next]_vars

-----------------------------------------------------------------------------
(* Invariants.                                                             *)

\* Every variable has its type; spoolBytes is left to SpoolExact.
TypeOK ==
    /\ phase \in {"running", "stopping", "draining", "discarding", "stopped", "down"}
    /\ notified \subseteq Pools /\ awaited \subseteq Files
    /\ records \subseteq Work
    /\ queue \in [Pools -> Seq(Work)]
    /\ lease \in [Work -> {"none", "held", "due"}]
    /\ generation \in [Work -> Nat] /\ activated \in [Work -> Nat]
    /\ attempts \in [Work -> Nat]
    /\ files \subseteq Files /\ unlinking \subseteq Files
    /\ op \in [Pools -> [step : Steps, work : Work \cup {NoWork}]]
    /\ admission \in Pools \cup {NoPool}
    /\ claim \in [Claimers -> {"out", "called", "waiting", "woken"}]
    /\ fate \in [Work -> Fates]

\* The queue q lists the set S, each member once.
Lists(q, S) ==
    /\ \A i, j \in 1..Len(q) : q[i] = q[j] => i = j
    /\ \A w \in Work : w \in S <=> \E i \in 1..Len(q) : q[i] = w

Queued(p) == {w \in records : PoolOf[w] = p /\ lease[w] = "none"}

\* A pool's queue holds exactly its records without a lease, each once: no
\* admitted work is stranded outside the queue and none is delivered twice at
\* a time, whatever order claims, expiries, releases and acknowledgements take.
QueueExact == \A p \in Pools : Lists(queue[p], Queued(p))

\* No record is executed more than max_delivery_attempts times, and one that
\* waits in the queue always has an attempt left to spend.
DeliveryBudget ==
    \A w \in records :
        /\ attempts[w] <= MaxDeliveryAttempts
        /\ lease[w] = "none" => attempts[w] < MaxDeliveryAttempts

\* However often activate() is repeated for a lease, its generation spends one
\* attempt: a lease that is not activated yet leaves its own attempt unspent.
OneAttemptPerGeneration ==
    \A w \in records :
        /\ attempts[w] <= generation[w]
        /\ lease[w] # "none" /\ activated[w] # generation[w] => attempts[w] < generation[w]

\* Delivery attempts count what workers were allowed to execute: no delivery is
\* counted twice or not at all, and none goes beyond the limit.
AttemptsExact == DeliveryBudget /\ OneAttemptPerGeneration

\* A pool never has more than its cap of works handed out, those that came back
\* included: a claim takes what came back first.  Leases that end can so push the
\* queue past its limit, but only by the cap; uploads never push it past.
PoolBounds ==
    \A p \in Pools :
        LET inPool == {w \in records : PoolOf[w] = p} IN
        /\ Cardinality({w \in inPool : generation[w] > 0}) <= LeaseCap[p]
        /\ Cardinality({w \in inPool : generation[w] = 0}) <= QueueLimit[p]

\* The handler that has work w's spool files in its hands.
Handles(w) == op[PoolOf[w]].work = w /\ op[PoolOf[w]].step \in {"payload", "sidecar", "undo", "unlink"}

\* _spool_bytes is the size of the records, through every way in and out, and
\* two admissions in different pools cannot together pass the byte limit.
SpoolAccounting == spoolBytes = BytesOf(records) /\ spoolBytes <= SpoolLimit

\* No spool file outlives its reason: each belongs to a record, to the handler
\* that is writing or deleting it, or to a scheduled deletion.
NoFileLeak ==
    phase # "down" =>
        \A f \in files : f[1] \in records \/ Handles(f[1]) \/ f \in unlinking

\* Until shutdown discards the spool, the files of an admitted record are there:
\* no rollback, acknowledgement or late deletion takes another work's payload.
PayloadPresent ==
    phase \in {"running", "stopping", "draining"} => FilesOfAll(records) \ Losable \subseteq files

\* The spool, the records and the byte count that limits admissions agree,
\* although files are written and deleted in threads while other handlers run.
SpoolExact == SpoolAccounting /\ NoFileLeak /\ PayloadPresent

\* After shutdown nothing is left and nothing comes back, although handlers that
\* were under way when it began may still finish.
StoppedIsEmpty ==
    phase \in {"stopped", "down"} =>
        records = {} /\ spoolBytes = 0 /\ \A p \in Pools : queue[p] = <<>>

\* A delivery that failed is retried before any work that was never delivered.
RetriesFirst ==
    \A p \in Pools : \A i, j \in 1..Len(queue[p]) :
        i < j /\ generation[queue[p][j]] > 0 => generation[queue[p][i]] > 0

-----------------------------------------------------------------------------
(* Action properties.                                                      *)

\* The works of pool p that were never delivered: they queue behind the others.
Fresh(p) ==
    LET tried == {i \in 1..Len(queue[p]) : generation[queue[p][i]] > 0}
    IN SubSeq(queue[p], Cardinality(tried) + 1, Len(queue[p]))

\* FIFO: works that were never delivered leave the queue from its head in the
\* order they were admitted (helm/README.md:1695), or all at once at the end.
FifoDelivery ==
    [][\A p \in Pools :
         \/ Fresh(p)' \in {Fresh(p), <<>>}
         \/ Fresh(p) # <<>> /\ Fresh(p)' = Tail(Fresh(p))
         \/ \E w \in Work : Fresh(p)' = Append(Fresh(p), w)]_vars

Ended == {"rejected", "acknowledged", "exhausted", "discarded"}

\* A work ends once and for good: an ended work never returns to the records,
\* and it is given up as exhausted only when every attempt was really activated.
EndsOnce ==
    [][\A w \in Work :
         /\ fate[w] \in Ended => fate'[w] = fate[w] /\ w \notin records'
         /\ fate[w] # "exhausted" /\ fate'[w] = "exhausted"
              => attempts[w] = MaxDeliveryAttempts /\ activated[w] = generation[w]]_vars

-----------------------------------------------------------------------------
(* Liveness, checked where workers and fairness are known: IngestGateway.   *)

\* No broker is for ever in the middle of its shutdown, whatever handlers it meets.
ShutdownEnds == []<>(phase \in {"running", "stopped", "down"})
=============================================================================
