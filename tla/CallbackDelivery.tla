-------------------------- MODULE CallbackDelivery --------------------------
(***************************************************************************)
(* How one worker pod reports what it has executed (service/services/      *)
(* pipeline_pool.py, _Pool in pull mode): its execution coroutines, and    *)
(* the handoff tasks to which a coroutine leaves a callback that used up   *)
(* its quick retries, one per item and no more than there are coroutines.  *)
(*                                                                         *)
(* The gateway is what the pod can tell of it: an item's lease with its    *)
(* generation, which a callback must carry, and the rows it has copied.    *)
(* A callback is validated when it arrives and answered later; module      *)
(* IngestGateway has what happens in between.                              *)
(*                                                                         *)
(* A finished task stays in _handoff_tasks until the event loop runs its   *)
(* done callback: that is the place "ended".                               *)
(*                                                                         *)
(* Operators named X_Mutant... are wrong versions of X that the model      *)
(* never uses; they stand for the mistakes its properties must notice.     *)
(***************************************************************************)
EXTENDS Integers, FiniteSets

CONSTANTS
    Workers,    (* the coroutines: _num_workers of them                      *)
    Items,      (* work ids                                                  *)
    NoItem,
    Retain,     (* the items whose rows are kept for the gateway             *)
    Left        (* [Items -> Nat]: deliveries an item has left at the start  *)

ASSUME CallbackDeliveryAssumption ==
    /\ IsFiniteSet(Workers) /\ IsFiniteSet(Items) /\ NoItem \notin Items
    /\ Retain \subseteq Items /\ Left \in [Items -> Nat]

VARIABLES
    lease,        (* [Items -> {"queued", "leased", "over"}]: at the gateway *)
    generation,   (* [Items -> Nat]: lease_generation                        *)
    copied,       (* the items whose rows the gateway has                    *)
    running,      (* _running                                                *)
    worker,       (* [Workers -> record]: the coroutines of _worker_loop     *)
    handoff,      (* [Items -> record]: _handoff_tasks, "none" if no entry   *)
    slots,        (* what is left of _handoff_slots                          *)
    rows          (* [Items -> {"none", "held", "expired"}]: result store    *)

vars == <<lease, generation, copied, running, worker, handoff, slots, rows>>
gatewayVars == <<lease, generation, copied>>

WorkerPlaces == {"idle", "executing", "reporting", "answering", "waiting"}
HandoffPlaces == {"none", "sleeping", "reporting", "answering", "ended"}
Coroutines == [at : WorkerPlaces, item : Items \cup {NoItem}, gen : Nat, keeps : BOOLEAN, beat : BOOLEAN]
Handoffs == [at : HandoffPlaces, gen : Nat, keeps : BOOLEAN, beat : BOOLEAN]

\* keeps: the delivery has rows to be copied; beat: a task sends its heartbeats.
Idle == [at |-> "idle", item |-> NoItem, gen |-> 0, keeps |-> FALSE, beat |-> FALSE]
NoTask == [at |-> "none", gen |-> 0, keeps |-> FALSE, beat |-> FALSE]

Init ==
    /\ lease = [i \in Items |-> "queued"] /\ generation = [i \in Items |-> 0] /\ copied = {}
    /\ running = TRUE
    /\ worker = [c \in Workers |-> Idle]
    /\ handoff = [i \in Items |-> NoTask]
    /\ slots = Cardinality(Workers)
    /\ rows = [i \in Items |-> "none"]

Scheduled(i) == handoff[i].at # "none"
Current(i, g) == lease[i] = "leased" /\ generation[i] = g

-----------------------------------------------------------------------------
(* The gateway's side.  A task t is a record of worker or handoff.         *)

\* Somebody in this pod sends heartbeats for the lease that item i has now.
KeptAlive(i) ==
    \/ \E c \in Workers : worker[c].item = i /\ worker[c].gen = generation[i] /\ worker[c].beat
    \/ handoff[i].gen = generation[i] /\ handoff[i].beat

\* The item is queued again, unless its attempts are used up; another pod may
\* see to it before this one can claim it.
LeaseExpires(i) ==
    /\ lease[i] = "leased" /\ ~KeptAlive(i)
    /\ \E s \in {"queued", "over"} :
         /\ s = "queued" => generation[i] < Left[i]
         /\ lease' = [lease EXCEPT ![i] = s]
    /\ UNCHANGED <<generation, copied, running, worker, handoff, slots, rows>>

\* HTTP 409 for a lease that is not current, 410 for a document that has gone.
Refuses(i, t) == ~Current(i, t.gen) \/ t.keeps

\* The callback is carried out, also when its lease has been lost by now: the
\* rows are copied unless the gateway has some, and a current lease is over.
CarriesOut(i, t) ==
    /\ t.keeps => rows[i] = "held" \/ i \in copied
    /\ copied' = IF t.keeps THEN copied \cup {i} ELSE copied
    /\ lease' = IF Current(i, t.gen) THEN [lease EXCEPT ![i] = "over"] ELSE lease

\* An answer lets the pod forget the rows only if it is an acknowledgement.
Forgets_MutantRefusedToo(i, t, acknowledged) ==
    rows' = IF t.keeps THEN [rows EXCEPT ![i] = "none"] ELSE rows
Forgets(i, t, acknowledged) ==
    rows' = IF t.keeps /\ acknowledged THEN [rows EXCEPT ![i] = "none"] ELSE rows

\* The callback of t ends with HTTP 200, or with a refusal.
Answer(i, t) ==
    \/ t.at = "answering" /\ CarriesOut(i, t) /\ Forgets(i, t, TRUE)
    \/ t.at = "reporting" /\ Refuses(i, t) /\ Forgets(i, t, FALSE) /\ UNCHANGED <<lease, copied>>

\* It is carried out, but the answer is lost; or it fails with HTTP 503.
NoAnswer(i, t) ==
    /\ t.at = "answering"
    /\ CarriesOut(i, t) \/ UNCHANGED <<lease, copied>>

-----------------------------------------------------------------------------
(* A coroutine: claim, execute, report.                                    *)

Goes(c, at) == worker' = [worker EXCEPT ![c].at = at]
Returns(c) == worker' = [worker EXCEPT ![c] = Idle]

Claim(c, i) ==
    /\ worker[c] = Idle /\ lease[i] = "queued"
    /\ generation' = [generation EXCEPT ![i] = @ + 1]
    /\ lease' = [lease EXCEPT ![i] = "leased"]
    /\ worker' = [worker EXCEPT ![c] = [at |-> "executing", item |-> i, gen |-> generation[i] + 1,
                                       keeps |-> FALSE, beat |-> TRUE]]
    /\ UNCHANGED <<copied, running, handoff, slots, rows>>

\* The pipeline returns, with rows that are stored if they are to be kept, or
\* it raises.
Execute(c) ==
    LET i == worker[c].item IN
    /\ worker[c].at = "executing"
    /\ \E keeps \in BOOLEAN :
         /\ keeps => i \in Retain
         /\ worker' = [worker EXCEPT ![c].at = "reporting", ![c].keeps = keeps]
         /\ rows' = IF keeps THEN [rows EXCEPT ![i] = "held"] ELSE rows
    /\ UNCHANGED <<gatewayVars, running, handoff, slots>>

CallbackArrives(c) ==
    /\ worker[c].at = "reporting" /\ Current(worker[c].item, worker[c].gen)
    /\ Goes(c, "answering")
    /\ UNCHANGED <<gatewayVars, running, handoff, slots, rows>>

Answered(c) ==
    /\ Answer(worker[c].item, worker[c])
    /\ Returns(c)
    /\ UNCHANGED <<generation, running, handoff, slots>>

\* The coroutine posts again.
Unanswered(c) ==
    /\ NoAnswer(worker[c].item, worker[c])
    /\ Goes(c, "reporting")
    /\ UNCHANGED <<generation, running, handoff, slots, rows>>

-----------------------------------------------------------------------------
(* _schedule_gateway_callback_retry, for a callback whose quick retries    *)
(* are used up: wait for a slot, then leave the rest to a task.            *)

\* The pool is stopping, or has a task for the item: the report is dropped.
Superfluous(i) == ~running \/ Scheduled(i)

\* The task sends heartbeats of its own, and those of the coroutine end.
Task(t) == [at |-> "sleeping", gen |-> t.gen, keeps |-> t.keeps, beat |-> TRUE]

HandOver(c) ==
    /\ handoff' = [handoff EXCEPT ![worker[c].item] = Task(worker[c])]
    /\ slots' = slots - 1
    /\ Returns(c)

\* No task is made, and a slot that was waited for is free again.
Drop_MutantKeepsSlot(c) ==
    /\ Returns(c) /\ UNCHANGED handoff
    /\ slots' = IF worker[c].at = "waiting" THEN slots - 1 ELSE slots
Drop(c) == Returns(c) /\ UNCHANGED <<handoff, slots>>

RetriesUsedUp(c) ==
    LET i == worker[c].item IN
    /\ worker[c].at = "reporting"
    /\ \/ Superfluous(i) /\ Drop(c)
       \/ ~Superfluous(i) /\ slots > 0 /\ HandOver(c)
       \/ ~Superfluous(i) /\ slots = 0 /\ Goes(c, "waiting") /\ UNCHANGED <<handoff, slots>>
    /\ UNCHANGED <<gatewayVars, running, rows>>

\* The item may have been scheduled while the coroutine waited: then the slot is
\* given back.
SlotAcquired(c) ==
    /\ worker[c].at = "waiting" /\ slots > 0
    /\ IF Superfluous(worker[c].item) THEN Drop(c) ELSE HandOver(c)
    /\ UNCHANGED <<gatewayVars, running, rows>>

-----------------------------------------------------------------------------
(* _retry_gateway_callback_until_expired, the task of item i.              *)

Moves(i, at) == handoff' = [handoff EXCEPT ![i].at = at]

HandoffPosts(i) ==
    /\ \/ handoff[i].at = "sleeping" /\ running /\ Moves(i, "reporting")
       \/ handoff[i].at = "reporting" /\ Current(i, handoff[i].gen) /\ Moves(i, "answering")
    /\ UNCHANGED <<gatewayVars, running, worker, slots, rows>>

HandoffAnswered(i) ==
    /\ Answer(i, handoff[i])
    /\ Moves(i, "ended")
    /\ UNCHANGED <<generation, running, worker, slots>>

HandoffUnanswered(i) ==
    /\ NoAnswer(i, handoff[i])
    /\ Moves(i, "reporting")
    /\ UNCHANGED <<generation, running, worker, slots, rows>>

\* Its retries are used up once more: the task sleeps longer.
HandoffFails(i) ==
    /\ handoff[i].at = "reporting"
    /\ Moves(i, "sleeping")
    /\ UNCHANGED <<gatewayVars, running, worker, slots, rows>>

\* result_retention_seconds() have passed.
HandoffExpires(i) ==
    /\ handoff[i].at = "sleeping"
    /\ Moves(i, "ended")
    /\ UNCHANGED <<gatewayVars, running, worker, slots, rows>>

\* _remove_finished: the heartbeats end, the entry goes and its slot is free.
EntryOf_MutantBeats(i) == [NoTask EXCEPT !.gen = handoff[i].gen, !.beat = handoff[i].beat]
EntryOf(i) == NoTask
SlotsAfter_MutantKept(i) == slots
SlotsAfter(i) == slots + 1

RemoveFinished(i) ==
    /\ handoff[i].at = "ended"
    /\ handoff' = [handoff EXCEPT ![i] = EntryOf(i)]
    /\ slots' = SlotsAfter(i)
    /\ UNCHANGED <<gatewayVars, running, worker, rows>>

-----------------------------------------------------------------------------
(* Heartbeats stop at the first that fails; rows are swept after their TTL. *)

HeartbeatFails ==
    /\ \/ /\ \E c \in Workers : worker[c].beat /\ worker' = [worker EXCEPT ![c].beat = FALSE]
          /\ UNCHANGED handoff
       \/ /\ \E i \in Items : handoff[i].beat /\ handoff' = [handoff EXCEPT ![i].beat = FALSE]
          /\ UNCHANGED worker
    /\ UNCHANGED <<gatewayVars, running, slots, rows>>

RowsExpire(i) ==
    /\ rows[i] = "held"
    /\ rows' = [rows EXCEPT ![i] = "expired"]
    /\ UNCHANGED <<gatewayVars, running, worker, handoff, slots>>

\* shutdown() cancels the handoffs and waits for them; the coroutines go on.
ShutdownBegins ==
    /\ running /\ running' = FALSE
    /\ handoff' = [i \in Items |-> IF Scheduled(i) THEN [handoff[i] EXCEPT !.at = "ended"] ELSE handoff[i]]
    /\ UNCHANGED <<gatewayVars, worker, slots, rows>>

\* Then it cancels the coroutines; the pod that replaces this one, or one that
\* was lost, starts with nothing.
PodReplaced ==
    /\ running' = TRUE
    /\ worker' = [c \in Workers |-> Idle] /\ handoff' = [i \in Items |-> NoTask]
    /\ slots' = Cardinality(Workers) /\ rows' = [i \in Items |-> "none"]
    /\ UNCHANGED gatewayVars

-----------------------------------------------------------------------------

WorkerStep(c) ==
    \/ Execute(c) \/ CallbackArrives(c) \/ Answered(c) \/ Unanswered(c)
    \/ RetriesUsedUp(c) \/ SlotAcquired(c)
    \/ \E i \in Items : Claim(c, i)

HandoffStep(i) ==
    \/ HandoffPosts(i) \/ HandoffAnswered(i) \/ HandoffUnanswered(i)
    \/ HandoffFails(i) \/ HandoffExpires(i) \/ RemoveFinished(i)

Next ==
    \/ \E c \in Workers : WorkerStep(c)
    \/ \E i \in Items : HandoffStep(i) \/ LeaseExpires(i) \/ RowsExpire(i)
    \/ HeartbeatFails \/ ShutdownBegins \/ PodReplaced

Spec == Init /\ [][Next]_vars

\* The pipeline returns, a post is answered, fails or runs out of retries, a task
\* runs out of time, the semaphore serves its waiters in turn, done callbacks
\* run, and the gateway sweeps a lease that nobody keeps alive.  Nothing is
\* assumed of the gateway's answers, of heartbeats or of shutdown.
Fairness ==
    /\ \A c \in Workers :
         /\ WF_vars(Execute(c)) /\ WF_vars(Unanswered(c))
         /\ SF_vars(RetriesUsedUp(c)) /\ SF_vars(SlotAcquired(c))
    /\ \A i \in Items :
         /\ SF_vars(HandoffExpires(i)) /\ SF_vars(HandoffFails(i)) /\ WF_vars(HandoffUnanswered(i))
         /\ WF_vars(RemoveFinished(i)) /\ WF_vars(LeaseExpires(i))

FairSpec == Spec /\ Fairness

-----------------------------------------------------------------------------

TypeOK ==
    /\ lease \in [Items -> {"queued", "leased", "over"}] /\ generation \in [Items -> Nat]
    /\ copied \subseteq Items /\ running \in BOOLEAN
    /\ worker \in [Workers -> Coroutines] /\ handoff \in [Items -> Handoffs]
    /\ slots \in Int
    /\ rows \in [Items -> {"none", "held", "expired"}]

\* The slots in use are the entries of _handoff_tasks: none is lost when several
\* deliveries of an item race for its entry, and none is given back twice.
SlotsExact ==
    /\ slots >= 0
    /\ slots + Cardinality({i \in Items : Scheduled(i)}) = Cardinality(Workers)

\* This pod still means to report the delivery g of item i, with its rows.
ToReport(i, g) ==
    \/ \E c \in Workers : /\ worker[c].at \in {"reporting", "answering", "waiting"} /\ worker[c].keeps
                          /\ worker[c].item = i /\ worker[c].gen = g
    \/ handoff[i].at \in {"sleeping", "reporting", "answering"} /\ handoff[i].gen = g /\ handoff[i].keeps

\* What becomes of an older delivery's report never costs a later one its rows:
\* while the current delivery is unreported the pod or the gateway has them,
\* unless their TTL has passed.
RowsAwaitTheirReport ==
    \A i \in Retain :
        lease[i] = "leased" /\ ToReport(i, generation[i]) => rows[i] # "none" \/ i \in copied

\* A coroutine comes back to claim although the gateway never answers and every
\* slot is taken: it is held up, never stuck.
WorkersReturn == \A c \in Workers : worker[c].at # "idle" ~> worker[c].at = "idle"

\* A lease that this pod was granted ends, reported or not: nobody keeps it alive
\* for a delivery that is no longer pursued.
LeasesEnd == \A i \in Items : lease[i] = "leased" ~> lease[i] # "leased"
=============================================================================
