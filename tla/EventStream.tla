---------------------------- MODULE EventStream ----------------------------
(***************************************************************************)
(* Completion events: the event bus (service/services/event_bus.py), the   *)
(* tracker's publications (job_tracker.py) and the per-job stream of       *)
(* routers/ingest.py (ingest_job_events).                                  *)
(*                                                                         *)
(* All of it runs on the event loop, so publishing is one step with the    *)
(* transition that is published, and subscribing is one step with the      *)
(* snapshot of what had already ended.                                     *)
(*                                                                         *)
(* An event is a document, whose end it announces, or Lifecycle, which     *)
(* stands for job_started, job_progress and the three finalizations.  What *)
(* the server has sent and the reader has not read counts as queued.       *)
(***************************************************************************)
EXTENDS Integers, FiniteSets, Sequences

CONSTANTS
    Jobs, Docs, Streams,
    JobOf,          (* [Docs -> Jobs]: job_id of a document                  *)
    FilterOf,       (* [Streams -> Jobs]: the job that a stream observes     *)
    Expected,       (* [Jobs -> Nat]: expected_documents                     *)
    Lifecycle,      (* the event of a job's life cycle                       *)
    ProgressStep,   (* _progress_step                                        *)
    QueueLimit      (* maxsize of a subscriber's queue                       *)

ASSUME EventStreamAssumption ==
    /\ JobOf \in [Docs -> Jobs] /\ FilterOf \in [Streams -> Jobs]
    /\ Expected \in [Jobs -> Nat] /\ Lifecycle \notin Docs
    /\ ProgressStep \in Nat \ {0} /\ QueueLimit \in Nat \ {0}

VARIABLES
    known,         (* the jobs that the tracker knows                        *)
    status,        (* [Docs -> "absent", "pending", "processing", "ended"]   *)
    started,       (* the jobs that have left the status pending             *)
    progress,      (* [Jobs -> Nat]: _progress_published                     *)
    phase,         (* [Streams -> "none", "open", "closed"]                  *)
    subscribers,   (* the streams that are in the bus's _subscribers         *)
    catchup,       (* [Streams -> SUBSET Docs]: the snapshot not yet read    *)
    queue,         (* [Streams -> Seq(events)]: the subscriber's queue       *)
    read           (* history: [Streams -> SUBSET Docs]: ends that were read *)

trackerVars == <<known, status, started, progress>>
busVars == <<phase, subscribers, catchup, queue, read>>
esVars == <<trackerVars, busVars>>

Events == Docs \cup {Lifecycle}

ServiceInit ==
    /\ known = Jobs /\ started = {}
    /\ status = [d \in Docs |-> "absent"]
    /\ progress = [j \in Jobs |-> 0]
    /\ phase = [s \in Streams |-> "none"]
    /\ subscribers = {}
    /\ catchup = [s \in Streams |-> {}]
    /\ queue = [s \in Streams |-> <<>>]
    /\ read = [s \in Streams |-> {}]

Ended(j) == {d \in Docs : JobOf[d] = j /\ status[d] = "ended"}
Registered(j) == {d \in Docs : JobOf[d] = j /\ status[d] # "absent"}
Full(j) == Cardinality(Registered(j)) >= Expected[j]

-----------------------------------------------------------------------------
(* publish_sync, for the events of one transition of job j, in order: a    *)
(* subscriber gets those that fit and is dropped at the first that does    *)
(* not.                                                                    *)

Listening(j) == {s \in subscribers : FilterOf[s] = j}

Room(s) == QueueLimit - Len(queue[s])

Overrun(j, events) == {s \in Listening(j) : Len(events) > Room(s)}

Publish(j, events) ==
    /\ queue' = [s \in Streams |->
                    IF s \in Overrun(j, events) THEN queue[s] \o SubSeq(events, 1, Room(s))
                    ELSE IF s \in Listening(j) THEN queue[s] \o events
                    ELSE queue[s]]
    /\ subscribers' = subscribers \ Overrun(j, events)
    /\ UNCHANGED <<phase, catchup, read>>

-----------------------------------------------------------------------------
(* What the tracker publishes.                                             *)

Register(d) ==
    /\ JobOf[d] \in known /\ status[d] = "absent" /\ ~Full(JobOf[d])
    /\ status' = [status EXCEPT ![d] = "pending"]
    /\ UNCHANGED <<known, started, progress, busVars>>

\* unregister_pending, when the admission is refused.
Rollback(d) ==
    /\ JobOf[d] \in known /\ status[d] = "pending"
    /\ status' = [status EXCEPT ![d] = "absent"]
    /\ UNCHANGED <<known, started, progress, busVars>>

\* mark_processing: the first of a job announces it.
Begin(d) ==
    LET j == JobOf[d] IN
    /\ j \in known /\ status[d] = "pending"
    /\ status' = [status EXCEPT ![d] = "processing"]
    /\ started' = started \cup {j}
    /\ IF j \in started THEN UNCHANGED busVars ELSE Publish(j, <<Lifecycle>>)
    /\ UNCHANGED <<known, progress>>

\* _mark_terminal: the document's end, then the job's progress or its end.
End(d) ==
    LET j == JobOf[d]
        n == Cardinality(Ended(j)) + 1
        final == n = Expected[j]
        milestone == ~final /\ n - progress[j] >= ProgressStep
    IN /\ j \in known /\ status[d] \in {"pending", "processing"}
       /\ status' = [status EXCEPT ![d] = "ended"]
       /\ started' = IF final THEN started \cup {j} ELSE started
       /\ progress' = IF milestone THEN [progress EXCEPT ![j] = n] ELSE progress
       /\ Publish(j, IF final \/ milestone THEN <<d, Lifecycle>> ELSE <<d>>)
       /\ UNCHANGED known

\* A new gateway process knows no job, and every connection ends.
Restart ==
    /\ known # {}
    /\ known' = {}
    /\ subscribers' = {}
    /\ phase' = [s \in Streams |-> IF phase[s] = "open" THEN "closed" ELSE phase[s]]
    /\ UNCHANGED <<status, started, progress, catchup, queue, read>>

-----------------------------------------------------------------------------
(* ingest_job_events.                                                      *)

\* _snapshot_terminal_jobs; read in any order.
Snapshot_MutantNone(s) == {}
Snapshot(s) == Ended(FilterOf[s])

Connect(s) ==
    /\ phase[s] = "none" /\ FilterOf[s] \in known
    /\ phase' = [phase EXCEPT ![s] = "open"]
    /\ subscribers' = subscribers \cup {s}
    /\ catchup' = [catchup EXCEPT ![s] = Snapshot(s)]
    /\ UNCHANGED <<trackerVars, queue, read>>

\* The reader gets the event e: the snapshot comes before the queue.
ReadCatchup(s, e) ==
    /\ e \in catchup[s]
    /\ catchup' = [catchup EXCEPT ![s] = @ \ {e}]
    /\ UNCHANGED queue

ReadQueue(s, e) ==
    /\ catchup[s] = {} /\ queue[s] # <<>>
    /\ e = Head(queue[s])
    /\ queue' = [queue EXCEPT ![s] = Tail(@)]
    /\ UNCHANGED catchup

Read(s, e) ==
    /\ phase[s] = "open"
    /\ ReadCatchup(s, e) \/ ReadQueue(s, e)
    /\ read' = [read EXCEPT ![s] = @ \cup ({e} \cap Docs)]
    /\ UNCHANGED <<trackerVars, phase, subscribers>>

\* Nothing came for SSE_KEEPALIVE_TIMEOUT_S, dropped or not.
Silent(s) == phase[s] = "open" /\ catchup[s] = {} /\ queue[s] = <<>>

\* The reader leaves or the connection breaks; what was not read is lost.
Leave(s) ==
    /\ phase[s] = "open"
    /\ phase' = [phase EXCEPT ![s] = "closed"]
    /\ subscribers' = subscribers \ {s}
    /\ UNCHANGED <<trackerVars, catchup, queue, read>>

ServiceNext ==
    \/ \E d \in Docs : Register(d) \/ Rollback(d) \/ Begin(d) \/ End(d)
    \/ \E s \in Streams : Connect(s) \/ Leave(s) \/ \E e \in Events : Read(s, e)
    \/ Restart

ServiceSpec == ServiceInit /\ [][ServiceNext]_esVars

-----------------------------------------------------------------------------

Queued(s) == {queue[s][i] : i \in 1..Len(queue[s])} \cap Docs

\* No gap, no repetition, nothing of another job: what a stream has read, and
\* what waits for it in the snapshot and the queue, are documents of its job that
\* have ended, each in one place and once; of a subscribed stream, all of them.
\* The queue holds no more than it may, however many events come at once.
StreamIsExact ==
    \A s \in {r \in Streams : phase[r] = "open"} :
        /\ Len(queue[s]) <= QueueLimit
        /\ read[s] \cup catchup[s] \cup Queued(s) \subseteq Ended(FilterOf[s])
        /\ s \in subscribers => Ended(FilterOf[s]) \subseteq read[s] \cup catchup[s] \cup Queued(s)
        /\ read[s] \cap (catchup[s] \cup Queued(s)) = {}
        /\ catchup[s] \cap Queued(s) = {}
        /\ \A i, k \in 1..Len(queue[s]) : queue[s][i] = queue[s][k] => i = k \/ queue[s][i] = Lifecycle
=============================================================================
