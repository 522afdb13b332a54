---------------------------- MODULE HarnessQueue ----------------------------
(***************************************************************************)
(* The run queue of the benchmark harness: the jobs and runners tables     *)
(* (harness/history.py), the threads that dispatch schedules into it       *)
(* (harness/scheduler.py) and the portal's handlers for the runners, which *)
(* poll for work over HTTP (harness/portal/app.py).                        *)
(*                                                                         *)
(* A statement of history.py is one transaction.  A handler of the portal  *)
(* that awaits nothing is one step of its event loop; a dispatch runs in a *)
(* thread, and anything may happen between two of its transactions.        *)
(*                                                                         *)
(* Jobs are numbered in the order of created_at.  A runner is the external *)
(* agent: it takes an offer only when it has none, claims or rejects it,   *)
(* runs it and reports, and may be restarted or lose an answer anywhere.   *)
(*                                                                         *)
(* Operators named X_Mutant... are wrong versions of X that the model      *)
(* never uses; they stand for the mistakes its properties must notice.     *)
(***************************************************************************)
EXTENDS Integers, FiniteSets

CONSTANTS
    Threads,     (* threads that dispatch: cron, poll, webhook, trigger     *)
    Schedules,
    Runners,     (* runner ids: AUTOINCREMENT never gives one again         *)
    NoRunner, NoSchedule,
    Sizes,       (* how many jobs a dispatch may have to create: a preset's *)
                 (* one, or a matrix's, which users edit                    *)
    MaxPending,  (* MAX_PENDING_PER_SCHEDULE, 3 in the code                 *)
    Lacks,       (* [Runners -> jobs]: whose dataset is not on the runner   *)
    Managed,     (* bound: the runners that users or bad luck take away     *)
    Touched,     (* bound: the jobs that users cancel or delete             *)
    Manual,      (* bound: the jobs that users may create                   *)
    N            (* bound: jobs ever created                                *)

ASSUME HarnessQueueAssumption ==
    /\ NoRunner \notin Runners /\ NoSchedule \notin Schedules
    /\ Sizes \subseteq Nat \ {0}
    /\ MaxPending \in Nat /\ N \in Nat
    /\ Lacks \in [Runners -> SUBSET (1..N)]
    /\ Managed \subseteq Runners /\ Touched \subseteq 1..N /\ Manual \subseteq 1..N

Jobs == 1..N

VARIABLES
    made,       (* how many jobs were created                               *)
    status,     (* [Jobs -> status]: "none" before, "deleted" after         *)
    schedule,   (* [Jobs -> schedule_id]                                    *)
    assigned,   (* [Jobs -> assigned_runner_id]                             *)
    rejected,   (* [Jobs -> rejected_runners]                               *)
    runner,     (* [Runners -> status]: "none" before, "deleted" after      *)
    dispatch,   (* [Threads -> record]: the frame of _dispatch_schedule     *)
    hand,       (* [Runners -> record]: what the agent has in hand          *)
    claimant,   (* history, [Jobs -> runner]: whose claim succeeded         *)
    dropped,    (* history: the jobs cancelled for the backlog              *)
    torn        (* history: schedules whose dispatch a crash has cut short  *)

jobVars == <<made, status, schedule, assigned, rejected>>
history == <<claimant, dropped, torn>>
vars == <<made, status, schedule, assigned, rejected, runner, dispatch, hand, claimant, dropped, torn>>

JobStatuses ==
    {"none", "pending", "running", "cancelling", "completed", "failed", "cancelled", "deleted"}
RunnerStatuses == {"none", "online", "paused", "offline", "deleted"}
Dispatches == [at : {"idle", "create", "list", "cancel"}, schedule : Schedules \cup {NoSchedule},
               left : Int, doomed : SUBSET Jobs]
Hands == [at : {"idle", "offered", "running"}, job : 0..N]
Known(r) == runner[r] \notin {"none", "deleted"}

NoDispatch == [at |-> "idle", schedule |-> NoSchedule, left |-> 0, doomed |-> {}]
Free == [at |-> "idle", job |-> 0]

Init ==
    /\ made = 0 /\ status = [j \in Jobs |-> "none"]
    /\ schedule = [j \in Jobs |-> NoSchedule]
    /\ assigned = [j \in Jobs |-> NoRunner] /\ rejected = [j \in Jobs |-> {}]
    /\ runner = [r \in Runners |-> "none"]
    /\ dispatch = [t \in Threads |-> NoDispatch] /\ hand = [r \in Runners |-> Free]
    /\ claimant = [j \in Jobs |-> NoRunner] /\ dropped = {} /\ torn = {}

-----------------------------------------------------------------------------
(* _dispatch_schedule and _dispatch_schedule_matrix: one job per pair, each *)
(* for the runner that matched before it; then _enforce_backlog_limit.     *)

\* create_job for schedule s and runner r.
CreateJob(s, r) ==
    /\ made < N
    /\ made' = made + 1
    /\ status' = [status EXCEPT ![made + 1] = "pending"]
    /\ schedule' = [schedule EXCEPT ![made + 1] = s]
    /\ assigned' = [assigned EXCEPT ![made + 1] = r]
    /\ UNCHANGED rejected

Fire(t, s) ==
    /\ dispatch[t].at = "idle"
    /\ \E n \in Sizes :
         /\ made + n <= N
         /\ dispatch' = [dispatch EXCEPT ![t] =
                [at |-> "create", schedule |-> s, left |-> n, doomed |-> {}]]
    /\ UNCHANGED <<jobVars, runner, hand, history>>

\* match_runner has looked for a runner that is online in a transaction before:
\* by now the one it found may be offline, paused or deleted.
Matched == {r \in Runners : runner[r] # "none"} \cup {NoRunner}

Create(t) ==
    LET d == dispatch[t] IN
    /\ d.at = "create"
    /\ \E r \in Matched : CreateJob(d.schedule, r)
    /\ dispatch' = [dispatch EXCEPT ![t] = [at |-> IF d.left = 1 THEN "list" ELSE "create",
                                            schedule |-> d.schedule, left |-> d.left - 1, doomed |-> {}]]
    /\ UNCHANGED <<runner, hand, history>>

Pending(s) == {j \in Jobs : status[j] = "pending" /\ schedule[j] = s}

\* All but the newest MaxPending of the jobs P.
Excess(P) == {j \in P : Cardinality({k \in P : k > j}) >= MaxPending}

\* What is left to do of dispatch t: to cancel the jobs P.
GoesOn(t, P) ==
    dispatch' = [dispatch EXCEPT ![t] =
        IF P = {} THEN NoDispatch ELSE [at |-> "cancel", schedule |-> @.schedule, left |-> 0, doomed |-> P]]

List(t) ==
    LET s == dispatch[t].schedule IN
    /\ dispatch[t].at = "list"
    /\ GoesOn(t, Excess(Pending(s)))
    /\ torn' = torn \ {s}
    /\ UNCHANGED <<jobVars, runner, hand, claimant, dropped>>

\* cancel_job tells by the status at that moment whether there is anything to do.
Cancellable_MutantListed(j) == status[j] # "deleted"
Cancellable(j) == status[j] = "pending"

\* The oldest first; a job that is not pending any more is passed over.
CancelOldest(t) ==
    LET doomed == dispatch[t].doomed IN
    /\ dispatch[t].at = "cancel"
    /\ \E j \in doomed :
         /\ \A k \in doomed : j <= k
         /\ GoesOn(t, doomed \ {j})
         /\ status' = IF Cancellable(j) THEN [status EXCEPT ![j] = "cancelled"] ELSE status
         /\ dropped' = IF Cancellable(j) THEN dropped \cup {j} ELSE dropped
    /\ UNCHANGED <<made, schedule, assigned, rejected, runner, hand, claimant, torn>>

-----------------------------------------------------------------------------
(* The portal's handlers for a runner.                                     *)

\* A runner registers, again under its hostname, or a user enters it.
Register(r) ==
    /\ runner[r] # "deleted"
    /\ \E s \in {"online", "offline"} :
         /\ s = "offline" => r \in Managed
         /\ runner' = [runner EXCEPT ![r] = s]
    /\ UNCHANGED <<jobVars, dispatch, hand, history>>

Busy(r) == \E j \in Jobs : status[j] = "running" /\ assigned[j] = r

Offerable(r) ==
    {j \in Jobs : /\ status[j] = "pending" /\ assigned[j] \in {r, NoRunner}
                  /\ r \notin rejected[j] /\ ~Busy(r)}

\* Its own jobs come first, the oldest of them before the others.
Before(k, j) ==
    \/ assigned[k] # NoRunner /\ assigned[j] = NoRunner
    \/ (assigned[k] = NoRunner <=> assigned[j] = NoRunner) /\ k < j

\* _pick_job_for_runner: an offered job is the runner's from now on, although a
\* runner that has something in hand takes no notice of the offer.
Assigned_MutantNot(j, r) == assigned
Assigned(j, r) == [assigned EXCEPT ![j] = r]

Pick(r) ==
    \/ /\ Offerable(r) = {} /\ UNCHANGED <<assigned, hand>>
    \/ \E j \in Offerable(r) :
         /\ \A k \in Offerable(r) : ~Before(k, j)
         /\ assigned' = Assigned(j, r)
         /\ hand' = IF hand[r].at = "idle" THEN [hand EXCEPT ![r] = [at |-> "offered", job |-> j]] ELSE hand

\* A heartbeat brings a runner back online, unless it is paused, and asks for work.
Heartbeat(r) ==
    /\ Known(r)
    /\ runner' = [runner EXCEPT ![r] = IF @ = "paused" THEN @ ELSE "online"]
    /\ IF runner[r] = "paused" THEN UNCHANGED <<assigned, hand>> ELSE Pick(r)
    /\ UNCHANGED <<made, status, schedule, rejected, dispatch, history>>

Work(r) ==
    /\ runner[r] = "online"
    /\ Pick(r)
    /\ UNCHANGED <<made, status, schedule, rejected, runner, dispatch, history>>

\* claim_job looks at the status alone.  The answer may be lost: then the job is
\* running and nobody runs it.  Any other status is answered with HTTP 409.
Claimable(j) == status[j] = "pending"

Claim(r) ==
    LET j == hand[r].job IN
    /\ hand[r].at = "offered" /\ j \notin Lacks[r]
    /\ IF Claimable(j)
       THEN /\ status' = [status EXCEPT ![j] = "running"]
            /\ claimant' = [claimant EXCEPT ![j] = r]
            /\ \E h \in {Free, [at |-> "running", job |-> j]} : hand' = [hand EXCEPT ![r] = h]
       ELSE hand' = [hand EXCEPT ![r] = Free] /\ UNCHANGED <<status, claimant>>
    /\ UNCHANGED <<made, schedule, assigned, rejected, runner, dispatch, dropped, torn>>

\* The job is anybody's again, this runner excepted.
Reject(r) ==
    LET j == hand[r].job IN
    /\ hand[r].at = "offered" /\ j \in Lacks[r]
    /\ hand' = [hand EXCEPT ![r] = Free]
    /\ IF status[j] = "deleted"
       THEN UNCHANGED <<assigned, rejected>>
       ELSE /\ assigned' = [assigned EXCEPT ![j] = NoRunner]
            /\ rejected' = [rejected EXCEPT ![j] = @ \cup {r}]
    /\ UNCHANGED <<made, status, schedule, runner, dispatch, history>>

\* A failure that was asked for is a cancellation; a success is a success.
Complete(r) ==
    LET j == hand[r].job IN
    /\ hand[r].at = "running"
    /\ hand' = [hand EXCEPT ![r] = Free]
    /\ \E success \in BOOLEAN :
         status' = [status EXCEPT ![j] =
             IF @ = "deleted" THEN @
             ELSE IF success THEN "completed"
             ELSE IF @ = "cancelling" THEN "cancelled" ELSE "failed"]
    /\ UNCHANGED <<made, schedule, assigned, rejected, runner, dispatch, history>>

\* The agent is restarted and knows nothing of what it had in hand.
AgentRestarts(r) ==
    /\ hand[r] # Free
    /\ hand' = [hand EXCEPT ![r] = Free]
    /\ UNCHANGED <<jobVars, runner, dispatch, history>>

-----------------------------------------------------------------------------
(* Users, the health check loop, and the loss of the portal.               *)

\* A rerun, a playground job or a matrix trigger: for a runner or for any.
Submit ==
    /\ made + 1 \in Manual
    /\ \E r \in {x \in Runners : Known(x)} \cup {NoRunner} : CreateJob(NoSchedule, r)
    /\ UNCHANGED <<runner, dispatch, hand, history>>

UserCancel(j) ==
    /\ j \in Touched /\ status[j] \in {"pending", "running"}
    /\ status' = [status EXCEPT ![j] = IF @ = "pending" THEN "cancelled" ELSE "cancelling"]
    /\ UNCHANGED <<made, schedule, assigned, rejected, runner, dispatch, hand, history>>

UserDelete(j) ==
    /\ j \in Touched /\ status[j] \notin {"none", "deleted"}
    /\ status' = [status EXCEPT ![j] = "deleted"]
    /\ assigned' = [assigned EXCEPT ![j] = NoRunner] /\ rejected' = [rejected EXCEPT ![j] = {}]
    /\ UNCHANGED <<made, schedule, runner, dispatch, hand, history>>

\* pause_runner, resume_runner, delete_runner and mark_stale_runners_offline,
\* which finds the online and the paused that missed their heartbeats.
RunnerBecomes(r) ==
    /\ Known(r) /\ r \in Managed
    /\ \E s \in {"paused", "online", "deleted", "offline"} :
         /\ s = "offline" => runner[r] \in {"online", "paused"}
         /\ runner' = [runner EXCEPT ![r] = s]
    /\ UNCHANGED <<jobVars, dispatch, hand, history>>

Crash ==
    /\ torn' = torn \cup {dispatch[t].schedule : t \in {u \in Threads : dispatch[u].at # "idle"}}
    /\ dispatch' = [t \in Threads |-> NoDispatch]
    /\ UNCHANGED <<jobVars, runner, hand, claimant, dropped>>

-----------------------------------------------------------------------------

DispatchStep(t) ==
    \/ \E s \in Schedules : Fire(t, s)
    \/ Create(t) \/ List(t) \/ CancelOldest(t)

RunnerStep(r) ==
    \/ Register(r) \/ Heartbeat(r) \/ Work(r) \/ Claim(r) \/ Reject(r)
    \/ Complete(r) \/ AgentRestarts(r) \/ RunnerBecomes(r)

Next ==
    \/ \E t \in Threads : DispatchStep(t)
    \/ \E r \in Runners : RunnerStep(r)
    \/ \E j \in Jobs : UserCancel(j) \/ UserDelete(j)
    \/ Submit \/ Crash

Spec == Init /\ [][Next]_vars

-----------------------------------------------------------------------------

TypeOK ==
    /\ made \in 0..N /\ status \in [Jobs -> JobStatuses]
    /\ schedule \in [Jobs -> Schedules \cup {NoSchedule}]
    /\ assigned \in [Jobs -> Runners \cup {NoRunner}] /\ rejected \in [Jobs -> SUBSET Runners]
    /\ runner \in [Runners -> RunnerStatuses]
    /\ dispatch \in [Threads -> Dispatches]
    /\ hand \in [Runners -> Hands]
    /\ claimant \in [Jobs -> Runners \cup {NoRunner}]
    /\ dropped \subseteq Jobs /\ torn \subseteq Schedules \cup {NoSchedule}

Active == {j \in Jobs : status[j] \in {"running", "cancelling"}}

\* However dispatches overlap, the backlog of a schedule is cut to the limit by
\* the time the last of them ends: no job is pending behind MaxPending newer ones.
\* Nor is it cut at a newer job's expense: a job cancelled for the backlog had as
\* many newer ones, and nobody had begun to run it.
BacklogKept ==
    /\ \A s \in Schedules \ torn :
         (\A t \in Threads : dispatch[t].schedule # s) =>
             \A j \in Pending(s) : Cardinality({k \in Pending(s) : k > j}) < MaxPending
    /\ \A j \in dropped :
         /\ claimant[j] = NoRunner
         /\ Cardinality({k \in 1..made : k > j /\ schedule[k] = schedule[j]}) >= MaxPending

\* Although a claim checks neither the runner nor the assignment, a job is run by
\* the runner it is assigned to, and a runner has one running job at most: the
\* portal would otherwise offer work to a runner that is busy, or never again.
RunsWhereAssigned ==
    /\ \A j \in Active : assigned[j] = claimant[j]
    /\ \A j, k \in Jobs : status[j] = "running" /\ status[k] = "running" /\ assigned[j] = assigned[k] => j = k
=============================================================================
