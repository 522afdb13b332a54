------------------------- MODULE HarnessQueueProofs -------------------------
(***************************************************************************)
(* What HarnessQueue promises for any number of threads, schedules,        *)
(* runners and jobs and any backlog limit.                                 *)
(***************************************************************************)
EXTENDS HarnessQueue, FiniteSetTheorems, TLAPS

\* The jobs of set P that are newer than job j.
NewerIn(P, j) == {k \in P : k > j}

\* The jobs created after job j for its schedule.
Newer(j) == {k \in 1..made : k > j /\ schedule[k] = schedule[j]}

\* Thread t cancels jobs of schedule s.
Cancels(t, s) == dispatch[t].schedule = s /\ dispatch[t].at = "cancel"

-----------------------------------------------------------------------------
(* Facts about sets of jobs.                                               *)

\* A smaller set of jobs has fewer members.
LEMMA FewerJobs ==
    ASSUME NEW A \in SUBSET Jobs, NEW B \in SUBSET A
    PROVE  Cardinality(A) \in Nat /\ Cardinality(B) \in Nat /\ Cardinality(B) <= Cardinality(A)
<1>1. IsFiniteSet(Jobs)
    BY HarnessQueueAssumption, FS_Interval DEF Jobs
<1>2. IsFiniteSet(A)
    BY <1>1, FS_Subset
<1>3. IsFiniteSet(B) /\ Cardinality(B) <= Cardinality(A)
    BY <1>2, FS_Subset
<1>. QED BY <1>2, <1>3, FS_CardinalityType

-----------------------------------------------------------------------------
(* Type correctness.                                                       *)

LEMMA CreateJobType ==
    ASSUME TypeOK, NEW s \in Schedules \cup {NoSchedule}, NEW r \in Runners \cup {NoRunner}, CreateJob(s, r)
    PROVE  /\ made + 1 \in Jobs /\ made' \in 0..N
           /\ status' \in [Jobs -> JobStatuses]
           /\ schedule' \in [Jobs -> Schedules \cup {NoSchedule}]
           /\ assigned' \in [Jobs -> Runners \cup {NoRunner}]
           /\ rejected' \in [Jobs -> SUBSET Runners]
<1>1. made + 1 \in Jobs /\ made' \in 0..N
    BY HarnessQueueAssumption DEF TypeOK, CreateJob, Jobs
<1>2. "pending" \in JobStatuses
    BY DEF JobStatuses
<1>. QED BY <1>1, <1>2 DEF TypeOK, CreateJob

LEMMA DispatchType ==
    ASSUME TypeOK, NEW t \in Threads
    PROVE  /\ dispatch[t].at \in {"idle", "create", "list", "cancel"}
           /\ dispatch[t].schedule \in Schedules \cup {NoSchedule}
           /\ dispatch[t].left \in Int /\ dispatch[t].doomed \in SUBSET Jobs
BY DEF TypeOK, Dispatches

LEMMA HandType ==
    ASSUME TypeOK, NEW r \in Runners
    PROVE  hand[r].at \in {"idle", "offered", "running"} /\ hand[r].job \in 0..N
BY DEF TypeOK, Hands

LEMMA IdleTypes == NoDispatch \in Dispatches /\ Free \in Hands
BY HarnessQueueAssumption DEF NoDispatch, Dispatches, Free, Hands

\* What the steps of a dispatch leave of its frame.
LEMMA FireFrame ==
    ASSUME TypeOK, NEW t \in Threads, NEW s \in Schedules, Fire(t, s)
    PROVE  \E d \in Dispatches : /\ dispatch' = [dispatch EXCEPT ![t] = d]
                                 /\ d.schedule = s /\ d.at = "create" /\ d.doomed = {}
<1>1. PICK n \in Sizes : dispatch' = [dispatch EXCEPT ![t] =
                            [at |-> "create", schedule |-> s, left |-> n, doomed |-> {}]]
    BY DEF Fire
<1>. DEFINE d == [at |-> "create", schedule |-> s, left |-> n, doomed |-> {}]
<1>2. d \in Dispatches /\ d.schedule = s /\ d.at = "create" /\ d.doomed = {}
    BY HarnessQueueAssumption DEF Dispatches
<1>. QED BY <1>1, <1>2

LEMMA CreateFrame ==
    ASSUME TypeOK, NEW t \in Threads, Create(t)
    PROVE  \E d \in Dispatches : /\ dispatch' = [dispatch EXCEPT ![t] = d]
                                 /\ d.schedule = dispatch[t].schedule /\ d.at \in {"create", "list"}
                                 /\ d.doomed = {}
<1>. DEFINE x == dispatch[t]
            y == IF x.left = 1 THEN "list" ELSE "create"
            d == [at |-> y, schedule |-> x.schedule, left |-> x.left - 1, doomed |-> {}]
<1>1. dispatch' = [dispatch EXCEPT ![t] = d]
    BY DEF Create
<1>2. d \in Dispatches /\ d.schedule = x.schedule /\ d.at \in {"create", "list"} /\ d.doomed = {}
    BY DispatchType DEF Dispatches
<1>. QED BY <1>1, <1>2

LEMMA GoesOnFrame ==
    ASSUME TypeOK, NEW t \in Threads, NEW P \in SUBSET Jobs, GoesOn(t, P)
    PROVE  \E d \in Dispatches :
              /\ dispatch' = [dispatch EXCEPT ![t] = d]
              /\ d.doomed = P
              /\ \/ P = {} /\ d.schedule = NoSchedule /\ d.at = "idle"
                 \/ P # {} /\ d.schedule = dispatch[t].schedule /\ d.at = "cancel"
<1>. DEFINE d == [at |-> "cancel", schedule |-> dispatch[t].schedule, left |-> 0, doomed |-> P]
<1>1. CASE P = {}
    <2>1. dispatch' = [dispatch EXCEPT ![t] = NoDispatch]
        BY <1>1 DEF GoesOn
    <2>. QED BY <1>1, <2>1, IdleTypes DEF NoDispatch
<1>2. CASE P # {}
    <2>1. dispatch' = [dispatch EXCEPT ![t] = d]
        BY <1>2 DEF GoesOn, TypeOK
    <2>2. d \in Dispatches /\ d.doomed = P /\ d.schedule = dispatch[t].schedule /\ d.at = "cancel"
        BY DispatchType DEF Dispatches
    <2>. QED BY <1>2, <2>1, <2>2
<1>. QED BY <1>1, <1>2

\* What an offer does to the runner's hand, and to the assignment of the job.
LEMMA PickHand ==
    ASSUME TypeOK, NEW r \in Runners, Pick(r)
    PROVE  \/ UNCHANGED <<assigned, hand>>
           \/ \E j \in Offerable(r) :
                /\ assigned' = [assigned EXCEPT ![j] = r]
                /\ \/ UNCHANGED hand
                   \/ \E h \in Hands : /\ hand' = [hand EXCEPT ![r] = h]
                                       /\ h.at = "offered" /\ h.job = j
<1>1. CASE Offerable(r) = {} /\ UNCHANGED <<assigned, hand>>
    BY <1>1
<1>2. ASSUME NEW j \in Offerable(r), assigned' = Assigned(j, r),
             hand' = IF hand[r].at = "idle" THEN [hand EXCEPT ![r] = [at |-> "offered", job |-> j]] ELSE hand
      PROVE  \/ UNCHANGED hand
             \/ \E h \in Hands : /\ hand' = [hand EXCEPT ![r] = h]
                                 /\ h.at = "offered" /\ h.job = j
    <2>. DEFINE h == [at |-> "offered", job |-> j]
    <2>1. h \in Hands /\ h.at = "offered" /\ h.job = j
        BY HarnessQueueAssumption DEF Offerable, Jobs, Hands
    <2>. QED BY <1>2, <2>1
<1>. QED BY <1>1, <1>2 DEF Pick, Assigned

LEMMA PickType ==
    ASSUME TypeOK, NEW r \in Runners, Pick(r)
    PROVE  assigned' \in [Jobs -> Runners \cup {NoRunner}] /\ hand' \in [Runners -> Hands]
<1>1. Offerable(r) \subseteq Jobs
    BY DEF Offerable
<1>. QED BY <1>1, PickHand DEF TypeOK

\* Every variable keeps its type.
LEMMA TypeInit == Init => TypeOK
BY HarnessQueueAssumption, IdleTypes
   DEF Init, TypeOK, Jobs, JobStatuses, RunnerStatuses

LEMMA TypeStep == ASSUME TypeOK, [Next]_vars PROVE TypeOK'
<1>. USE HarnessQueueAssumption
<1>1. ASSUME NEW t \in Threads, DispatchStep(t) PROVE TypeOK'
    <2>1. ASSUME NEW s \in Schedules, Fire(t, s) PROVE TypeOK'
        <3>1. dispatch' \in [Threads -> Dispatches]
            BY <2>1, FireFrame DEF TypeOK
        <3>. QED BY <2>1, <3>1 DEF TypeOK, Fire, jobVars, history
    <2>2. CASE Create(t)
        <3>1. PICK r \in Matched : CreateJob(dispatch[t].schedule, r)
            BY <2>2 DEF Create
        <3>2. r \in Runners \cup {NoRunner} /\ dispatch[t].schedule \in Schedules \cup {NoSchedule}
            BY DispatchType DEF Matched
        <3>3. dispatch' \in [Threads -> Dispatches]
            BY <2>2, CreateFrame DEF TypeOK
        <3>. QED BY <2>2, <3>1, <3>2, <3>3, CreateJobType DEF TypeOK, Create, history
    <2>3. CASE List(t)
        <3>1. Excess(Pending(dispatch[t].schedule)) \in SUBSET Jobs
            BY DEF Excess, Pending
        <3>. QED BY <2>3, <3>1, GoesOnFrame DEF TypeOK, List, jobVars
    <2>4. CASE CancelOldest(t)
        <3>1. PICK j \in dispatch[t].doomed :
                /\ GoesOn(t, dispatch[t].doomed \ {j})
                /\ status' = IF Cancellable(j) THEN [status EXCEPT ![j] = "cancelled"] ELSE status
                /\ dropped' = IF Cancellable(j) THEN dropped \cup {j} ELSE dropped
            BY <2>4 DEF CancelOldest
        <3>2. dispatch[t].doomed \in SUBSET Jobs
            BY DispatchType
        <3>3. dispatch' \in [Threads -> Dispatches]
            BY <3>1, <3>2, GoesOnFrame DEF TypeOK
        <3>4. status' \in [Jobs -> JobStatuses] /\ dropped' \subseteq Jobs
            BY <3>1, <3>2 DEF TypeOK, JobStatuses
        <3>. QED BY <2>4, <3>3, <3>4 DEF TypeOK, CancelOldest
    <2>. QED BY <1>1, <2>1, <2>2, <2>3, <2>4 DEF DispatchStep
<1>2. ASSUME NEW r \in Runners, RunnerStep(r) PROVE TypeOK'
    <2>1. CASE Register(r) \/ RunnerBecomes(r)
        <3>1. runner' \in [Runners -> RunnerStatuses]
            BY <2>1 DEF TypeOK, Register, RunnerBecomes, RunnerStatuses
        <3>. QED BY <2>1, <3>1 DEF TypeOK, Register, RunnerBecomes, jobVars, history
    <2>2. CASE Heartbeat(r)
        <3>1. assigned' \in [Jobs -> Runners \cup {NoRunner}] /\ hand' \in [Runners -> Hands]
            BY <2>2, PickType DEF Heartbeat, TypeOK
        <3>. QED BY <2>2, <3>1 DEF TypeOK, Heartbeat, RunnerStatuses, history
    <2>3. CASE Work(r)
        BY <2>3, PickType DEF TypeOK, Work, history
    <2>4. CASE Claim(r)
        <3>. DEFINE j == hand[r].job
        <3>1. [at |-> "running", job |-> j] \in Hands /\ Free \in Hands
            BY HandType, IdleTypes DEF Hands
        <3>2. hand' \in [Runners -> Hands]
            BY <2>4, <3>1 DEF TypeOK, Claim
        <3>3. status' \in [Jobs -> JobStatuses] /\ claimant' \in [Jobs -> Runners \cup {NoRunner}]
            BY <2>4 DEF TypeOK, Claim, JobStatuses
        <3>. QED BY <2>4, <3>2, <3>3 DEF TypeOK, Claim
    <2>5. CASE Reject(r)
        <3>1. hand' \in [Runners -> Hands]
            BY <2>5, IdleTypes DEF TypeOK, Reject
        <3>2. assigned' \in [Jobs -> Runners \cup {NoRunner}] /\ rejected' \in [Jobs -> SUBSET Runners]
            BY <2>5 DEF TypeOK, Reject
        <3>. QED BY <2>5, <3>1, <3>2 DEF TypeOK, Reject, history
    <2>6. CASE Complete(r)
        <3>1. hand' \in [Runners -> Hands]
            BY <2>6, IdleTypes DEF TypeOK, Complete
        <3>2. status' \in [Jobs -> JobStatuses]
            BY <2>6 DEF TypeOK, Complete, JobStatuses
        <3>. QED BY <2>6, <3>1, <3>2 DEF TypeOK, Complete, history
    <2>7. CASE AgentRestarts(r)
        BY <2>7, IdleTypes DEF TypeOK, AgentRestarts, jobVars, history
    <2>. QED BY <1>2, <2>1, <2>2, <2>3, <2>4, <2>5, <2>6, <2>7 DEF RunnerStep
<1>3. ASSUME NEW j \in Jobs, UserCancel(j) \/ UserDelete(j) PROVE TypeOK'
    BY <1>3 DEF TypeOK, UserCancel, UserDelete, JobStatuses, history
<1>4. CASE Submit
    <2>1. PICK r \in {x \in Runners : Known(x)} \cup {NoRunner} : CreateJob(NoSchedule, r)
        BY <1>4 DEF Submit
    <2>. QED BY <1>4, <2>1, CreateJobType DEF TypeOK, Submit, history
<1>5. CASE Crash
    <2>1. \A t \in Threads : dispatch[t].schedule \in Schedules \cup {NoSchedule}
        BY DispatchType
    <2>. QED BY <1>5, <2>1, IdleTypes DEF TypeOK, Crash, jobVars
<1>6. CASE UNCHANGED vars
    BY <1>6 DEF TypeOK, vars
<1>. QED BY <1>1, <1>2, <1>3, <1>4, <1>5, <1>6 DEF Next

-----------------------------------------------------------------------------
(* The inductive invariant.                                                *)

\* A job has a status once it is created, and is nobody's claim while it waits.
JobsInv ==
    \A j \in Jobs :
        /\ status[j] = "none" <=> j > made
        /\ status[j] \in {"none", "pending"} => claimant[j] = NoRunner

\* What a runner was offered nobody else runs, or can be offered; and it has not
\* begun to run anything else.
OfferInv(r) ==
    LET j == hand[r].job IN
    /\ j \in Jobs /\ status[j] \notin {"none", "running", "cancelling"}
    /\ status[j] = "pending" => assigned[j] = r
    /\ ~Busy(r)
HandsInv ==
    \A r \in Runners : /\ hand[r].at = "offered" => OfferInv(r)
                       /\ hand[r].at = "running" => hand[r].job \in Jobs /\ status[hand[r].job] # "none"

\* Job j has left the backlog for good, or a thread may take it out: it has newer
\* jobs enough.
Behind(j) == j \in 1..made /\ Cardinality(Newer(j)) >= MaxPending
DroppedInv ==
    \A j \in dropped : Behind(j) /\ claimant[j] = NoRunner /\ status[j] # "pending"
DoomedInv == \A t \in Threads : \A j \in dispatch[t].doomed : Behind(j)

\* Once every dispatch of a schedule has listed the backlog, each job that is too
\* much is on the list of one of them.
Surplus(s, j) == j \in Pending(s) /\ Cardinality(NewerIn(Pending(s), j)) >= MaxPending
OnList(s, j) == \E t \in Threads : dispatch[t].schedule = s /\ j \in dispatch[t].doomed
AllListed(s) == \A t \in Threads : dispatch[t].schedule = s => dispatch[t].at = "cancel"
CoveredInv ==
    \A s \in Schedules \ torn : AllListed(s) => \A j \in Jobs : Surplus(s, j) => OnList(s, j)

RunInv == TypeOK /\ JobsInv /\ HandsInv /\ RunsWhereAssigned
FramesInv == \A t \in Threads : dispatch[t].at = "idle" => dispatch[t].schedule = NoSchedule
BacklogInv == FramesInv /\ DroppedInv /\ DoomedInv /\ CoveredInv
IInv == RunInv /\ BacklogInv

LEMMA InvInit == Init => IInv
<1>. SUFFICES ASSUME Init PROVE IInv
    OBVIOUS
<1>1. TypeOK
    BY TypeInit
<1>2. JobsInv
    BY HarnessQueueAssumption DEF Init, JobsInv, Jobs
<1>3. HandsInv /\ RunsWhereAssigned
    BY DEF Init, HandsInv, RunsWhereAssigned, Active, Free
<1>4. FramesInv /\ DroppedInv /\ DoomedInv
    BY DEF Init, FramesInv, DroppedInv, DoomedInv, NoDispatch
<1>5. CoveredInv
    BY DEF Init, CoveredInv, Surplus, Pending
<1>. QED BY <1>1, <1>2, <1>3, <1>4, <1>5 DEF IInv, RunInv, BacklogInv

-----------------------------------------------------------------------------
(* A job is run where it is assigned.                                      *)

\* What happens to a job without changing who runs what.
Settled ==
    /\ UNCHANGED <<made, assigned, hand, claimant>>
    /\ status' \in [Jobs -> JobStatuses]
    /\ \A j \in Jobs :
         \/ status'[j] = status[j]
         \/ status[j] = "pending" /\ status'[j] = "cancelled"
         \/ status[j] = "running" /\ status'[j] = "cancelling"

LEMMA SettledKeeps ==
    ASSUME RunInv, Settled
    PROVE  JobsInv' /\ HandsInv' /\ RunsWhereAssigned'
<1>1. \A j \in Jobs : /\ status'[j] = "none" <=> status[j] = "none"
                      /\ status'[j] = "pending" => status[j] = "pending"
                      /\ status'[j] = "running" => status[j] = "running"
                      /\ status'[j] = "cancelling" => status[j] \in {"running", "cancelling"}
    BY DEF Settled
<1>2. JobsInv'
    BY <1>1 DEF RunInv, JobsInv, Settled
<1>3. \A r \in Runners : Busy(r)' => Busy(r)
    BY <1>1 DEF Busy, Settled
<1>4. HandsInv'
    BY <1>1, <1>3 DEF RunInv, HandsInv, OfferInv, Settled
<1>5. RunsWhereAssigned'
    BY <1>1 DEF RunInv, RunsWhereAssigned, Active, Settled
<1>. QED BY <1>2, <1>4, <1>5

LEMMA CreateKeeps ==
    ASSUME RunInv, NEW s \in Schedules \cup {NoSchedule}, NEW r \in Runners \cup {NoRunner},
           CreateJob(s, r), UNCHANGED <<hand, claimant>>
    PROVE  JobsInv' /\ HandsInv' /\ RunsWhereAssigned'
<1>. DEFINE n == made + 1
<1>1. n \in Jobs /\ made' = n /\ status[n] = "none" /\ status'[n] = "pending" /\ made \in Nat
    BY CreateJobType, HarnessQueueAssumption DEF RunInv, JobsInv, CreateJob, TypeOK, Jobs
<1>2. \A j \in Jobs \ {n} : status'[j] = status[j] /\ assigned'[j] = assigned[j]
    BY DEF CreateJob, RunInv, TypeOK
<1>3. JobsInv'
    <2>. SUFFICES ASSUME NEW j \in Jobs
                  PROVE  /\ status'[j] = "none" <=> j > made'
                         /\ status'[j] \in {"none", "pending"} => claimant'[j] = NoRunner
        BY DEF JobsInv
    <2>1. j \in Nat
        BY DEF Jobs
    <2>2. CASE j = n
        BY <1>1, <2>1, <2>2 DEF RunInv, JobsInv
    <2>3. CASE j # n
        BY <1>1, <1>2, <2>1, <2>3 DEF RunInv, JobsInv
    <2>. QED BY <2>2, <2>3
<1>4. \A x \in Runners : Busy(x)' => Busy(x)
    BY <1>1, <1>2 DEF Busy
<1>5. HandsInv'
    BY <1>1, <1>2, <1>4 DEF RunInv, HandsInv, OfferInv
<1>6. RunsWhereAssigned'
    BY <1>1, <1>2 DEF RunInv, RunsWhereAssigned, Active
<1>. QED BY <1>3, <1>5, <1>6

LEMMA PickKeeps ==
    ASSUME RunInv, NEW r \in Runners, Pick(r), UNCHANGED <<made, status, claimant>>
    PROVE  JobsInv' /\ HandsInv' /\ RunsWhereAssigned'
<1>1. JobsInv'
    BY DEF RunInv, JobsInv
<1>2. CASE UNCHANGED <<assigned, hand>>
    <2>1. \A x \in Runners : OfferInv(x)' <=> OfferInv(x)
        BY <1>2 DEF OfferInv, Busy
    <2>2. HandsInv'
        BY <1>2, <2>1 DEF RunInv, HandsInv
    <2>3. RunsWhereAssigned'
        BY <1>2 DEF RunInv, RunsWhereAssigned, Active
    <2>. QED BY <1>1, <2>2, <2>3
<1>3. ASSUME NEW j \in Offerable(r), assigned' = [assigned EXCEPT ![j] = r],
             \/ UNCHANGED hand
             \/ \E h \in Hands : hand' = [hand EXCEPT ![r] = h] /\ h.at = "offered" /\ h.job = j
      PROVE  HandsInv' /\ RunsWhereAssigned'
    <2>1. j \in Jobs /\ status[j] = "pending" /\ assigned[j] \in {r, NoRunner} /\ ~Busy(r)
        BY DEF Offerable
    <2>2. assigned'[j] = r /\ \A k \in Jobs \ {j} : assigned'[k] = assigned[k]
        BY <1>3, <2>1 DEF RunInv, TypeOK
    <2>3. \A x \in Runners : Busy(x)' <=> Busy(x)
        BY <2>1, <2>2 DEF Busy
    <2>4. \A x \in Runners : hand[x].at = "offered" => OfferInv(x)'
                                                       \/ hand'[x] # hand[x]
        <3>. SUFFICES ASSUME NEW x \in Runners, hand[x].at = "offered", hand'[x] = hand[x]
                      PROVE  OfferInv(x)'
            OBVIOUS
        <3>1. OfferInv(x)
            BY DEF RunInv, HandsInv
        <3>2. CASE hand[x].job = j
            BY HarnessQueueAssumption, <2>1, <2>2, <2>3, <3>1, <3>2 DEF OfferInv
        <3>3. CASE hand[x].job # j
            BY <2>2, <2>3, <3>1, <3>3 DEF OfferInv
        <3>. QED BY <3>2, <3>3
    <2>5. ASSUME UNCHANGED hand PROVE HandsInv'
        <3>1. \A x \in Runners : hand'[x].at = "offered" => OfferInv(x)'
            BY <2>4, <2>5
        <3>2. \A x \in Runners : hand'[x].at = "running" => hand'[x].job \in Jobs /\ status'[hand'[x].job] # "none"
            BY <2>5 DEF RunInv, HandsInv
        <3>. QED BY <3>1, <3>2 DEF HandsInv
    <2>6. ASSUME NEW h \in Hands, hand' = [hand EXCEPT ![r] = h], h.at = "offered", h.job = j
          PROVE  HandsInv'
        <3>1. hand'[r] = h /\ \A x \in Runners \ {r} : hand'[x] = hand[x]
            BY <2>6 DEF RunInv, TypeOK
        <3>2. OfferInv(r)'
            BY <2>1, <2>2, <2>3, <2>6, <3>1 DEF OfferInv
        <3>. QED BY <2>4, <2>6, <3>1, <3>2 DEF RunInv, HandsInv
    <2>7. RunsWhereAssigned'
        BY <2>1, <2>2 DEF RunInv, RunsWhereAssigned, Active
    <2>. QED BY <1>3, <2>5, <2>6, <2>7
<1>. QED BY <1>1, <1>2, <1>3, PickHand DEF RunInv

LEMMA ClaimKeeps ==
    ASSUME RunInv, NEW r \in Runners, Claim(r)
    PROVE  JobsInv' /\ HandsInv' /\ RunsWhereAssigned'
<1>. DEFINE j == hand[r].job
<1>1. /\ OfferInv(r) /\ j \in Jobs /\ UNCHANGED <<made, assigned>>
      /\ \A x \in Runners \ {r} : hand'[x] = hand[x]
      /\ hand'[r].at \in {"idle", "running"}
      /\ hand'[r].at = "running" => hand'[r].job = j
    BY DEF RunInv, HandsInv, OfferInv, Claim, TypeOK, Free
<1>2. CASE ~Claimable(j)
    <2>1. UNCHANGED <<status, claimant>> /\ hand'[r].at = "idle"
        BY <1>2 DEF Claim, RunInv, TypeOK, Free
    <2>2. \A x \in Runners : OfferInv(x) /\ hand'[x] = hand[x] => OfferInv(x)'
        BY <1>1, <2>1 DEF OfferInv, Busy
    <2>3. JobsInv' /\ RunsWhereAssigned'
        BY <1>1, <2>1 DEF RunInv, JobsInv, RunsWhereAssigned, Active
    <2>4. HandsInv'
        BY <1>1, <2>1, <2>2 DEF RunInv, HandsInv
    <2>. QED BY <2>3, <2>4
<1>3. CASE Claimable(j)
    <2>1. /\ status[j] = "pending" /\ status'[j] = "running" /\ claimant'[j] = r /\ assigned[j] = r
          /\ \A k \in Jobs \ {j} : status'[k] = status[k] /\ claimant'[k] = claimant[k]
        BY <1>1, <1>3 DEF Claim, Claimable, RunInv, TypeOK, OfferInv
    <2>2. JobsInv'
        BY <1>1, <2>1 DEF RunInv, JobsInv
    <2>3. \A x \in Runners \ {r} : Busy(x)' <=> Busy(x)
        BY <1>1, <2>1 DEF Busy
    <2>4. \A x \in Runners \ {r} : hand[x].at = "offered" => OfferInv(x)'
        <3>. SUFFICES ASSUME NEW x \in Runners \ {r}, hand[x].at = "offered" PROVE OfferInv(x)'
            OBVIOUS
        <3>1. OfferInv(x) /\ hand'[x] = hand[x]
            BY <1>1 DEF RunInv, HandsInv
        <3>2. hand[x].job # j
            BY <2>1, <3>1 DEF OfferInv
        <3>. QED BY <1>1, <2>1, <2>3, <3>1, <3>2 DEF OfferInv
    <2>5. \A k \in Jobs : status[k] # "none" => status'[k] # "none"
        BY <2>1
    <2>6. HandsInv'
        BY <1>1, <2>1, <2>4, <2>5 DEF RunInv, HandsInv
    <2>7. RunsWhereAssigned'
        <3>1. \A k \in Active' : assigned'[k] = claimant'[k]
            BY <1>1, <2>1 DEF RunInv, RunsWhereAssigned, Active
        <3>2. \A k \in Jobs : status[k] = "running" => assigned[k] # r
            BY <1>1 DEF OfferInv, Busy
        <3>3. \A k, l \in Jobs : status[k] = "running" /\ status[l] = "running" /\ assigned[k] = assigned[l] => k = l
            BY DEF RunInv, RunsWhereAssigned
        <3>4. \A k, l \in Jobs : status'[k] = "running" /\ status'[l] = "running" /\ assigned'[k] = assigned'[l] => k = l
            BY <1>1, <2>1, <3>2, <3>3
        <3>. QED BY <3>1, <3>4 DEF RunsWhereAssigned
    <2>. QED BY <2>2, <2>6, <2>7
<1>. QED BY <1>2, <1>3

\* A job that ends, goes or is nobody's again is not being run afterwards.
Leaves(j) ==
    /\ UNCHANGED <<made, claimant>>
    /\ status[j] # "none" /\ status'[j] \notin {"none", "running", "cancelling"}
    /\ status'[j] = "pending" => status[j] = "pending"
    /\ \A k \in Jobs \ {j} : status'[k] = status[k] /\ assigned'[k] = assigned[k]

LEMMA LeavesKeeps ==
    ASSUME RunInv, NEW j \in Jobs, Leaves(j),
           \A x \in Runners : \/ hand'[x] = Free
                              \/ /\ hand'[x] = hand[x]
                                 /\ hand[x].at = "offered" /\ hand[x].job = j /\ status'[j] = "pending"
                                     => assigned'[j] = assigned[j]
    PROVE  JobsInv' /\ HandsInv' /\ RunsWhereAssigned'
<1>1. JobsInv'
    BY DEF RunInv, JobsInv, Leaves
<1>2. \A x \in Runners : Busy(x)' => Busy(x)
    BY DEF Busy, Leaves
<1>3. \A k \in Jobs : status[k] # "none" => status'[k] # "none"
    BY DEF Leaves
<1>4. \A x \in Runners : hand'[x].at = "offered" => OfferInv(x)'
    <2>. SUFFICES ASSUME NEW x \in Runners, hand'[x].at = "offered" PROVE OfferInv(x)'
        OBVIOUS
    <2>1. /\ hand'[x] = hand[x] /\ OfferInv(x)
          /\ hand[x].job = j /\ status'[j] = "pending" => assigned'[j] = assigned[j]
        BY DEF Free, RunInv, HandsInv
    <2>2. CASE hand[x].job = j
        BY <1>2, <2>1, <2>2 DEF OfferInv, Leaves
    <2>3. CASE hand[x].job # j
        BY <1>2, <2>1, <2>3 DEF OfferInv, Leaves
    <2>. QED BY <2>2, <2>3
<1>5. HandsInv'
    BY <1>3, <1>4 DEF RunInv, HandsInv, Free
<1>6. RunsWhereAssigned'
    BY DEF RunInv, RunsWhereAssigned, Active, Leaves
<1>. QED BY <1>1, <1>5, <1>6

\* Steps that leave the jobs alone, and at most empty a runner's hand.
LEMMA IdleKeeps ==
    ASSUME RunInv, UNCHANGED <<made, status, assigned, claimant>>,
           \A x \in Runners : hand'[x] = Free \/ hand'[x] = hand[x]
    PROVE  JobsInv' /\ HandsInv' /\ RunsWhereAssigned'
<1>1. \A x \in Runners : hand'[x] = hand[x] => (OfferInv(x)' <=> OfferInv(x))
    BY DEF OfferInv, Busy
<1>2. HandsInv'
    BY <1>1 DEF RunInv, HandsInv, Free
<1>3. JobsInv' /\ RunsWhereAssigned'
    BY DEF RunInv, JobsInv, RunsWhereAssigned, Active
<1>. QED BY <1>2, <1>3

\* Every step keeps jobs where they are assigned.
LEMMA RunStep == ASSUME RunInv, [Next]_vars PROVE RunInv'
<1>. SUFFICES JobsInv' /\ HandsInv' /\ RunsWhereAssigned'
    BY TypeStep DEF RunInv
<1>1. ASSUME NEW t \in Threads, DispatchStep(t) PROVE JobsInv' /\ HandsInv' /\ RunsWhereAssigned'
    <2>1. CASE (\E s \in Schedules : Fire(t, s)) \/ List(t)
        BY <2>1, IdleKeeps DEF Fire, List, jobVars, history
    <2>2. CASE Create(t)
        <3>1. PICK r \in Matched : CreateJob(dispatch[t].schedule, r)
            BY <2>2 DEF Create
        <3>2. r \in Runners \cup {NoRunner} /\ dispatch[t].schedule \in Schedules \cup {NoSchedule}
            BY DispatchType DEF Matched, RunInv
        <3>. QED BY <2>2, <3>1, <3>2, CreateKeeps DEF Create, history
    <2>3. CASE CancelOldest(t)
        <3>1. PICK j \in dispatch[t].doomed : status' = IF Cancellable(j) THEN [status EXCEPT ![j] = "cancelled"] ELSE status
            BY <2>3 DEF CancelOldest
        <3>2. Settled
            BY <2>3, <3>1 DEF Settled, CancelOldest, Cancellable, RunInv, TypeOK, JobStatuses
        <3>. QED BY <3>2, SettledKeeps
    <2>. QED BY <1>1, <2>1, <2>2, <2>3 DEF DispatchStep
<1>2. ASSUME NEW r \in Runners, RunnerStep(r) PROVE JobsInv' /\ HandsInv' /\ RunsWhereAssigned'
    <2>1. CASE Register(r) \/ RunnerBecomes(r) \/ AgentRestarts(r)
        BY <2>1, IdleKeeps DEF Register, RunnerBecomes, AgentRestarts, jobVars, history, RunInv, TypeOK
    <2>2. CASE Heartbeat(r)
        <3>1. CASE UNCHANGED <<assigned, hand>>
            BY <2>2, <3>1, IdleKeeps DEF Heartbeat, history
        <3>2. CASE Pick(r)
            BY <2>2, <3>2, PickKeeps DEF Heartbeat, history
        <3>. QED BY <2>2, <3>1, <3>2 DEF Heartbeat
    <2>3. CASE Work(r)
        BY <2>3, PickKeeps DEF Work, history
    <2>4. CASE Claim(r)
        BY <2>4, ClaimKeeps
    <2>5. CASE Reject(r)
        <3>. DEFINE j == hand[r].job
        <3>1. OfferInv(r) /\ j \in Jobs
            BY <2>5 DEF Reject, RunInv, HandsInv, OfferInv
        <3>2. Leaves(j)
            BY <2>5, <3>1 DEF Leaves, Reject, OfferInv, RunInv, TypeOK, history
        <3>3. hand'[r] = Free /\ \A x \in Runners \ {r} : hand'[x] = hand[x]
            BY <2>5 DEF Reject, RunInv, TypeOK
        <3>4. ASSUME NEW x \in Runners \ {r}, hand[x].at = "offered", hand[x].job = j
              PROVE  status[j] # "pending"
            <4>1. OfferInv(x)
                BY <3>4 DEF RunInv, HandsInv
            <4>. QED BY <3>1, <3>4, <4>1 DEF OfferInv
        <3>5. UNCHANGED status
            BY <2>5 DEF Reject
        <3>. QED BY <3>1, <3>2, <3>3, <3>4, <3>5, LeavesKeeps
    <2>6. CASE Complete(r)
        <3>. DEFINE j == hand[r].job
        <3>1. j \in Jobs /\ status[j] # "none"
            BY <2>6 DEF Complete, RunInv, HandsInv
        <3>2. status'[j] \in {"deleted", "completed", "cancelled", "failed"}
            BY <2>6, <3>1 DEF Complete, RunInv, TypeOK
        <3>3. Leaves(j)
            BY <2>6, <3>1, <3>2 DEF Leaves, Complete, RunInv, TypeOK, history
        <3>4. \A x \in Runners : hand'[x] = Free \/ hand'[x] = hand[x]
            BY <2>6 DEF Complete, RunInv, TypeOK
        <3>. QED BY <3>1, <3>2, <3>3, <3>4, LeavesKeeps
    <2>. QED BY <1>2, <2>1, <2>2, <2>3, <2>4, <2>5, <2>6 DEF RunnerStep
<1>3. ASSUME NEW j \in Jobs, UserCancel(j) PROVE JobsInv' /\ HandsInv' /\ RunsWhereAssigned'
    <2>1. Settled
        BY <1>3 DEF Settled, UserCancel, RunInv, TypeOK, JobStatuses, history
    <2>. QED BY <2>1, SettledKeeps
<1>4. ASSUME NEW j \in Jobs, UserDelete(j) PROVE JobsInv' /\ HandsInv' /\ RunsWhereAssigned'
    <2>1. status'[j] = "deleted"
        BY <1>4 DEF UserDelete, RunInv, TypeOK
    <2>2. Leaves(j)
        BY <1>4, <2>1 DEF Leaves, UserDelete, RunInv, TypeOK, history
    <2>3. UNCHANGED hand
        BY <1>4 DEF UserDelete
    <2>. QED BY <2>1, <2>2, <2>3, LeavesKeeps
<1>5. CASE Submit
    <2>1. PICK r \in {x \in Runners : Known(x)} \cup {NoRunner} : CreateJob(NoSchedule, r)
        BY <1>5 DEF Submit
    <2>. QED BY <1>5, <2>1, CreateKeeps DEF Submit, history
<1>6. CASE Crash \/ UNCHANGED vars
    BY <1>6, IdleKeeps DEF Crash, jobVars, vars
<1>. QED BY <1>1, <1>2, <1>3, <1>4, <1>5, <1>6 DEF Next

-----------------------------------------------------------------------------
(* The backlog.                                                            *)

\* Jobs are created, with the next number, and never change their schedule.
Grows ==
    /\ made' = made \/ made' = made + 1
    /\ \A j \in 1..made : schedule'[j] = schedule[j]

\* Nothing becomes pending.
Onward ==
    /\ UNCHANGED <<made, schedule>>
    /\ \A j \in Jobs : status'[j] = "pending" => status[j] = "pending"

LEMMA OnwardGrows == ASSUME Onward PROVE Grows
BY DEF Onward, Grows

\* A job that is behind stays behind.
LEMMA BehindStays ==
    ASSUME TypeOK, TypeOK', Grows, NEW j \in Jobs, Behind(j)
    PROVE  Behind(j)'
<1>1. made \in 0..N /\ made' \in 0..N /\ N \in Nat /\ MaxPending \in Nat
    BY HarnessQueueAssumption DEF TypeOK
<1>2. Newer(j) \subseteq Newer(j)'
    BY <1>1 DEF Newer, Grows, Behind
<1>3. Newer(j)' \in SUBSET Jobs
    BY <1>1 DEF Newer, Jobs
<1>4. Cardinality(Newer(j)) \in Nat /\ Cardinality(Newer(j)') \in Nat
      /\ Cardinality(Newer(j)) <= Cardinality(Newer(j)')
    BY <1>2, <1>3, FewerJobs
<1>. QED BY <1>1, <1>4 DEF Behind, Grows

\* What is too much of a backlog that only shrinks was too much before.
LEMMA SurplusShrinks ==
    ASSUME TypeOK, Onward, NEW s \in Schedules, NEW j \in Jobs, Surplus(s, j)'
    PROVE  Surplus(s, j)
<1>1. Pending(s)' \subseteq Pending(s) /\ Pending(s) \in SUBSET Jobs
    BY DEF Pending, Onward
<1>2. NewerIn(Pending(s)', j) \subseteq NewerIn(Pending(s), j) /\ NewerIn(Pending(s), j) \in SUBSET Jobs
    BY <1>1 DEF NewerIn
<1>3. /\ Cardinality(NewerIn(Pending(s)', j)) <= Cardinality(NewerIn(Pending(s), j))
      /\ Cardinality(NewerIn(Pending(s)', j)) \in Nat /\ Cardinality(NewerIn(Pending(s), j)) \in Nat
    BY <1>2, FewerJobs
<1>4. j \in Pending(s)' /\ Cardinality(NewerIn(Pending(s)', j)) >= MaxPending
    BY DEF Surplus, NewerIn
<1>. QED BY <1>1, <1>3, <1>4, HarnessQueueAssumption DEF Surplus

\* What is too much of the backlog is behind.
LEMMA SurplusBehind ==
    ASSUME TypeOK, JobsInv, NEW s, NEW j \in Jobs, Surplus(s, j)
    PROVE  Behind(j)
<1>1. made \in 0..N /\ N \in Nat /\ MaxPending \in Nat
    BY HarnessQueueAssumption DEF TypeOK
<1>2. Pending(s) \subseteq 1..made
    BY <1>1 DEF Pending, JobsInv, Jobs
<1>3. NewerIn(Pending(s), j) \subseteq Newer(j) /\ Newer(j) \in SUBSET Jobs
    BY <1>1, <1>2 DEF NewerIn, Newer, Pending, Surplus, Jobs
<1>4. /\ Cardinality(NewerIn(Pending(s), j)) \in Nat /\ Cardinality(Newer(j)) \in Nat
      /\ Cardinality(NewerIn(Pending(s), j)) <= Cardinality(Newer(j))
    BY <1>3, FewerJobs
<1>. QED BY <1>1, <1>2, <1>4 DEF Surplus, Behind

\* A step that is none of a dispatch's and creates nothing.
LEMMA OnwardKeeps ==
    ASSUME IInv, TypeOK', Onward, UNCHANGED <<dispatch, dropped, torn>>,
           \A j \in dropped : claimant'[j] = claimant[j]
    PROVE  BacklogInv'
<1>1. Grows /\ TypeOK /\ dropped \subseteq Jobs /\ \A t \in Threads : dispatch[t].doomed \subseteq Jobs
    BY OnwardGrows, DispatchType DEF IInv, RunInv, TypeOK
<1>2. \A j \in Jobs : Behind(j) => Behind(j)'
    BY <1>1, BehindStays
<1>3. DroppedInv'
    BY <1>1, <1>2 DEF DroppedInv, IInv, BacklogInv, Onward
<1>4. DoomedInv'
    BY <1>1, <1>2 DEF DoomedInv, IInv, BacklogInv
<1>5. ASSUME NEW s \in Schedules \ torn, AllListed(s), NEW j \in Jobs, Surplus(s, j)'
      PROVE  OnList(s, j)
    BY <1>1, <1>5, SurplusShrinks DEF CoveredInv, IInv, BacklogInv
<1>6. CoveredInv'
    BY <1>5 DEF CoveredInv, AllListed, OnList
<1>7. FramesInv'
    BY DEF FramesInv, IInv, BacklogInv
<1>. QED BY <1>3, <1>4, <1>6, <1>7 DEF BacklogInv

\* A job is created, and its schedule's dispatch, if it has one, has not listed
\* the backlog yet.
LEMMA CreateKeepsBacklog ==
    ASSUME IInv, TypeOK', NEW s \in Schedules \cup {NoSchedule}, NEW r \in Runners \cup {NoRunner},
           CreateJob(s, r), UNCHANGED <<dropped, torn, claimant>>, FramesInv',
           \A t \in Threads : /\ dispatch'[t].schedule = dispatch[t].schedule
                              /\ dispatch'[t].at = "cancel" => dispatch[t].at = "cancel"
                              /\ dispatch'[t].doomed = {} \/ dispatch'[t].doomed = dispatch[t].doomed,
           \A t \in Threads : dispatch[t].at = "cancel" => UNCHANGED dispatch[t],
           s \in Schedules => ~AllListed(s)'
    PROVE  BacklogInv'
<1>. DEFINE n == made + 1
<1>0. TypeOK /\ JobsInv
    BY DEF IInv, RunInv
<1>1. n \in Jobs /\ made' = n /\ made \in Nat /\ schedule'[n] = s
    BY <1>0, CreateJobType, HarnessQueueAssumption DEF CreateJob, TypeOK
<1>2. \A j \in Jobs \ {n} : status'[j] = status[j] /\ schedule'[j] = schedule[j]
    BY <1>0 DEF CreateJob, TypeOK
<1>3. Grows
    <2>1. 1..made \subseteq Jobs \ {n}
        BY <1>1, HarnessQueueAssumption DEF Jobs
    <2>. QED BY <1>1, <1>2, <2>1 DEF Grows
<1>4. \A j \in Jobs : Behind(j) => Behind(j)' /\ j # n
    BY <1>0, <1>1, <1>3, BehindStays DEF Behind
<1>5. dropped \subseteq Jobs /\ \A t \in Threads : dispatch[t].doomed \subseteq Jobs
    BY <1>0, DispatchType DEF TypeOK
<1>6. DroppedInv'
    BY <1>2, <1>4, <1>5 DEF DroppedInv, IInv, BacklogInv
<1>7. DoomedInv'
    <2>. SUFFICES ASSUME NEW t \in Threads, NEW j \in dispatch'[t].doomed
                  PROVE  Behind(j)'
        BY DEF DoomedInv
    <2>1. dispatch'[t].doomed = {} \/ dispatch'[t].doomed = dispatch[t].doomed
        OBVIOUS
    <2>2. j \in dispatch[t].doomed /\ j \in Jobs
        BY <1>5, <2>1
    <2>. QED BY <1>4, <2>2 DEF DoomedInv, IInv, BacklogInv
<1>8. ASSUME NEW x \in Schedules \ torn, AllListed(x)', NEW j \in Jobs, Surplus(x, j)'
      PROVE  OnList(x, j)'
    <2>1. x # s
        BY <1>8
    <2>2. Pending(x)' = Pending(x)
        <3>1. n \notin Pending(x)'
            BY <1>1, <2>1 DEF Pending
        <3>2. n \notin Pending(x)
            BY <1>0, <1>1 DEF Pending, JobsInv
        <3>. QED BY <1>2, <3>1, <3>2 DEF Pending
    <2>3. Surplus(x, j)
        BY <1>8, <2>2 DEF Surplus, NewerIn
    <2>4. AllListed(x)
        <3>. SUFFICES ASSUME NEW t \in Threads, dispatch[t].schedule = x
                      PROVE  dispatch[t].at = "cancel"
            BY DEF AllListed
        <3>1. dispatch'[t].schedule = x
            OBVIOUS
        <3>2. dispatch'[t].at = "cancel"
            BY <1>8, <3>1 DEF AllListed
        <3>. QED BY <3>2
    <2>5. PICK t \in Threads : dispatch[t].schedule = x /\ j \in dispatch[t].doomed
        BY <2>3, <2>4 DEF IInv, BacklogInv, CoveredInv, OnList
    <2>6. dispatch[t].at = "cancel"
        BY <2>4, <2>5 DEF AllListed
    <2>. QED BY <2>5, <2>6 DEF OnList
<1>9. CoveredInv'
    BY <1>8 DEF CoveredInv
<1>. QED BY <1>6, <1>7, <1>9 DEF BacklogInv

\* A dispatch begins, and has not listed the backlog yet.
LEMMA FireKeepsBacklog ==
    ASSUME IInv, TypeOK', NEW t \in Threads, NEW s \in Schedules, Fire(t, s)
    PROVE  BacklogInv'
<1>1. PICK d \in Dispatches : /\ dispatch' = [dispatch EXCEPT ![t] = d]
                              /\ d.schedule = s /\ d.at = "create" /\ d.doomed = {}
    BY FireFrame DEF IInv, RunInv
<1>2. UNCHANGED <<made, status, schedule, claimant, dropped, torn>> /\ dispatch[t].at = "idle"
    BY DEF Fire, jobVars, history
<1>3. dispatch'[t] = d /\ \A u \in Threads \ {t} : dispatch'[u] = dispatch[u]
    BY <1>1 DEF IInv, RunInv, TypeOK
<1>4. \A j \in Jobs : Behind(j)' <=> Behind(j)
    BY <1>2 DEF Behind, Newer
<1>5. dropped \subseteq Jobs /\ \A u \in Threads : dispatch[u].doomed \subseteq Jobs
    BY DispatchType DEF IInv, RunInv, TypeOK
<1>6. DroppedInv'
    BY <1>2, <1>4, <1>5 DEF DroppedInv, IInv, BacklogInv
<1>7. DoomedInv'
    BY <1>1, <1>3, <1>4, <1>5 DEF DoomedInv, IInv, BacklogInv
<1>8. ASSUME NEW x \in Schedules \ torn, AllListed(x)', NEW j \in Jobs, Surplus(x, j)'
      PROVE  OnList(x, j)'
    <2>1. x # s
        BY <1>1, <1>3, <1>8 DEF AllListed
    <2>2. dispatch[t].schedule # x
        BY <1>2, <1>8, HarnessQueueAssumption DEF FramesInv, IInv, BacklogInv
    <2>3. Surplus(x, j)
        BY <1>2, <1>8 DEF Surplus, Pending, NewerIn
    <2>4. AllListed(x)
        <3>. SUFFICES ASSUME NEW u \in Threads, dispatch[u].schedule = x
                      PROVE  dispatch[u].at = "cancel"
            BY DEF AllListed
        <3>1. dispatch'[u] = dispatch[u]
            BY <1>3, <2>2
        <3>. QED BY <1>8, <3>1 DEF AllListed
    <2>5. PICK u \in Threads : dispatch[u].schedule = x /\ j \in dispatch[u].doomed
        BY <2>3, <2>4 DEF IInv, BacklogInv, CoveredInv, OnList
    <2>6. dispatch'[u] = dispatch[u]
        BY <1>3, <2>2, <2>5
    <2>. QED BY <2>5, <2>6 DEF OnList
<1>9. CoveredInv'
    BY <1>2, <1>8 DEF CoveredInv
<1>10. FramesInv'
    BY <1>1, <1>3 DEF FramesInv, IInv, BacklogInv
<1>. QED BY <1>6, <1>7, <1>9, <1>10 DEF BacklogInv

\* The backlog is listed: all that is too much of it is on the list.
LEMMA ListKeepsBacklog ==
    ASSUME IInv, TypeOK', NEW t \in Threads, List(t)
    PROVE  BacklogInv'
<1>. DEFINE s == dispatch[t].schedule
            P == Excess(Pending(s))
<1>1. P \in SUBSET Jobs /\ \A j \in Jobs : j \in P <=> Surplus(s, j)
    BY DEF Excess, Pending, Surplus, NewerIn
<1>. HIDE DEF P
<1>2. PICK d \in Dispatches : /\ dispatch' = [dispatch EXCEPT ![t] = d]
                              /\ d.doomed = P
                              /\ \/ P = {} /\ d.schedule = NoSchedule /\ d.at = "idle"
                                 \/ P # {} /\ d.schedule = s /\ d.at = "cancel"
    BY <1>1, GoesOnFrame DEF List, P, IInv, RunInv
<1>3. UNCHANGED <<made, status, schedule, claimant, dropped>> /\ torn' = torn \ {s}
    BY DEF List, jobVars
<1>4. dispatch'[t] = d /\ \A u \in Threads \ {t} : dispatch'[u] = dispatch[u]
    BY <1>2 DEF IInv, RunInv, TypeOK
<1>5. \A j \in Jobs : Behind(j)' <=> Behind(j)
    BY <1>3 DEF Behind, Newer
<1>6. \A x, j : Surplus(x, j)' <=> Surplus(x, j)
    BY <1>3 DEF Surplus, Pending, NewerIn
<1>7. \A j \in P : Behind(j)
    BY <1>1, SurplusBehind DEF IInv, RunInv
<1>8. dropped \subseteq Jobs /\ \A u \in Threads : dispatch[u].doomed \subseteq Jobs
    BY DispatchType DEF IInv, RunInv, TypeOK
<1>9. FramesInv'
    BY <1>2, <1>4 DEF FramesInv, IInv, BacklogInv
<1>10. DroppedInv'
    BY <1>3, <1>5, <1>8 DEF DroppedInv, IInv, BacklogInv
<1>11. DoomedInv'
    BY <1>1, <1>2, <1>4, <1>5, <1>7, <1>8 DEF DoomedInv, IInv, BacklogInv
<1>12. ASSUME NEW x \in Schedules \ torn', AllListed(x)', NEW j \in Jobs, Surplus(x, j)'
       PROVE  OnList(x, j)'
    <2>1. CASE x = s
        <3>1. j \in P
            BY <1>1, <1>6, <1>12, <2>1
        <3>. QED BY <1>2, <1>4, <2>1, <3>1 DEF OnList
    <2>2. CASE x # s
        <3>1. AllListed(x)
            <4>. SUFFICES ASSUME NEW u \in Threads, dispatch[u].schedule = x
                          PROVE  dispatch[u].at = "cancel"
                BY DEF AllListed
            <4>1. dispatch'[u] = dispatch[u]
                BY <1>4, <2>2
            <4>. QED BY <1>12, <4>1 DEF AllListed
        <3>2. x \in Schedules \ torn /\ Surplus(x, j)
            BY <1>3, <1>6, <1>12, <2>2
        <3>3. PICK u \in Threads : dispatch[u].schedule = x /\ j \in dispatch[u].doomed
            BY <3>1, <3>2 DEF IInv, BacklogInv, CoveredInv, OnList
        <3>4. dispatch'[u] = dispatch[u]
            BY <1>4, <2>2, <3>3
        <3>. QED BY <3>3, <3>4 DEF OnList
    <2>. QED BY <2>1, <2>2
<1>13. CoveredInv'
    BY <1>12 DEF CoveredInv
<1>. QED BY <1>9, <1>10, <1>11, <1>13 DEF BacklogInv

\* One of the listed jobs is cancelled, or found not to be pending any more.
LEMMA CancelKeepsBacklog ==
    ASSUME IInv, TypeOK', NEW t \in Threads, CancelOldest(t)
    PROVE  BacklogInv'
<1>. DEFINE s == dispatch[t].schedule
<1>1. PICK j \in dispatch[t].doomed :
         /\ GoesOn(t, dispatch[t].doomed \ {j})
         /\ status' = IF Cancellable(j) THEN [status EXCEPT ![j] = "cancelled"] ELSE status
         /\ dropped' = IF Cancellable(j) THEN dropped \cup {j} ELSE dropped
    BY DEF CancelOldest
<1>2. UNCHANGED <<made, schedule, claimant, torn>> /\ dispatch[t].at = "cancel"
    BY DEF CancelOldest
<1>3. dropped \subseteq Jobs /\ \A u \in Threads : dispatch[u].doomed \subseteq Jobs
    BY DispatchType DEF IInv, RunInv, TypeOK
<1>4. j \in Jobs /\ Behind(j)
    BY <1>1, <1>3 DEF IInv, BacklogInv, DoomedInv
<1>5. PICK d \in Dispatches : /\ dispatch' = [dispatch EXCEPT ![t] = d]
                              /\ d.doomed = dispatch[t].doomed \ {j}
                              /\ \/ d.doomed = {} /\ d.schedule = NoSchedule /\ d.at = "idle"
                                 \/ d.doomed # {} /\ d.schedule = s /\ d.at = "cancel"
    <2>1. dispatch[t].doomed \ {j} \in SUBSET Jobs
        BY <1>3
    <2>. QED BY <1>1, <2>1, GoesOnFrame DEF IInv, RunInv
<1>6. dispatch'[t] = d /\ \A u \in Threads \ {t} : dispatch'[u] = dispatch[u]
    BY <1>5 DEF IInv, RunInv, TypeOK
<1>7. status'[j] # "pending" /\ \A k \in Jobs \ {j} : status'[k] = status[k]
    BY <1>1, <1>4 DEF Cancellable, IInv, RunInv, TypeOK
<1>8. Onward
    BY <1>2, <1>7 DEF Onward
<1>9. \A k \in Jobs : Behind(k)' <=> Behind(k)
    BY <1>2 DEF Behind, Newer
<1>10. FramesInv'
    BY <1>5, <1>6 DEF FramesInv, IInv, BacklogInv
<1>11. DroppedInv'
    <2>. SUFFICES ASSUME NEW k \in dropped'
                  PROVE  Behind(k)' /\ claimant'[k] = NoRunner /\ status'[k] # "pending"
        BY DEF DroppedInv
    <2>1. k \in dropped \/ (k = j /\ status[j] = "pending")
        BY <1>1 DEF Cancellable
    <2>2. CASE k \in dropped
        <3>1. k \in Jobs /\ Behind(k) /\ claimant[k] = NoRunner /\ status[k] # "pending"
            BY <1>3, <2>2 DEF DroppedInv, IInv, BacklogInv
        <3>. QED BY <1>2, <1>7, <1>9, <3>1
    <2>3. CASE k = j /\ status[j] = "pending"
        BY <1>2, <1>4, <1>7, <1>9, <2>3 DEF IInv, RunInv, JobsInv
    <2>. QED BY <2>1, <2>2, <2>3
<1>12. DoomedInv'
    BY <1>3, <1>5, <1>6, <1>9 DEF DoomedInv, IInv, BacklogInv
<1>13. ASSUME NEW x \in Schedules \ torn, AllListed(x)', NEW k \in Jobs, Surplus(x, k)'
       PROVE  OnList(x, k)'
    <2>1. k # j /\ Surplus(x, k)
        <3>1. Surplus(x, k)
            BY <1>8, <1>13, SurplusShrinks DEF IInv, RunInv
        <3>2. status'[k] = "pending"
            BY <1>13 DEF Surplus, Pending
        <3>. QED BY <1>7, <3>1, <3>2
    <2>2. AllListed(x)
        <3>. SUFFICES ASSUME NEW u \in Threads, dispatch[u].schedule = x
                      PROVE  dispatch[u].at = "cancel"
            BY DEF AllListed
        <3>1. CASE u = t
            BY <1>2, <3>1
        <3>2. CASE u # t
            BY <1>6, <1>13, <3>2 DEF AllListed
        <3>. QED BY <3>1, <3>2
    <2>3. PICK u \in Threads : dispatch[u].schedule = x /\ k \in dispatch[u].doomed
        BY <2>1, <2>2 DEF IInv, BacklogInv, CoveredInv, OnList
    <2>4. dispatch'[u].schedule = x /\ k \in dispatch'[u].doomed
        <3>1. CASE u = t
            BY <1>5, <1>6, <2>1, <2>3, <3>1
        <3>2. CASE u # t
            BY <1>6, <2>3, <3>2
        <3>. QED BY <3>1, <3>2
    <2>. QED BY <2>4 DEF OnList
<1>14. CoveredInv'
    BY <1>2, <1>13 DEF CoveredInv
<1>. QED BY <1>10, <1>11, <1>12, <1>14 DEF BacklogInv

\* The portal is lost, and the dispatches it was in the middle of are torn.
LEMMA CrashKeepsBacklog ==
    ASSUME IInv, Crash
    PROVE  BacklogInv'
<1>1. /\ UNCHANGED <<made, status, schedule, claimant, dropped>>
      /\ torn' = torn \cup {dispatch[t].schedule : t \in {u \in Threads : dispatch[u].at # "idle"}}
      /\ \A t \in Threads : dispatch'[t] = NoDispatch
    BY DEF Crash, jobVars
<1>2. \A j \in Jobs : Behind(j)' <=> Behind(j)
    BY <1>1 DEF Behind, Newer
<1>3. \A x, j : Surplus(x, j)' <=> Surplus(x, j)
    BY <1>1 DEF Surplus, Pending, NewerIn
<1>4. FramesInv' /\ DoomedInv'
    BY <1>1 DEF FramesInv, DoomedInv, NoDispatch
<1>5. DroppedInv'
    BY <1>1, <1>2 DEF DroppedInv, IInv, BacklogInv, RunInv, TypeOK
<1>6. ASSUME NEW x \in Schedules \ torn', NEW j \in Jobs, Surplus(x, j)'
      PROVE  FALSE
    <2>1. \A t \in Threads : dispatch[t].schedule # x
        BY <1>1, <1>6, HarnessQueueAssumption DEF IInv, BacklogInv, FramesInv
    <2>2. AllListed(x) /\ Surplus(x, j) /\ x \in Schedules \ torn
        BY <1>1, <1>3, <1>6, <2>1 DEF AllListed
    <2>. QED BY <2>1, <2>2 DEF IInv, BacklogInv, CoveredInv, OnList
<1>7. CoveredInv'
    BY <1>6 DEF CoveredInv
<1>. QED BY <1>4, <1>5, <1>7 DEF BacklogInv

\* Every step keeps the backlog cut.
LEMMA BacklogStep == ASSUME IInv, [Next]_vars PROVE BacklogInv'
<1>0. TypeOK /\ TypeOK' /\ JobsInv
    BY TypeStep DEF IInv, RunInv
<1>1. ASSUME NEW t \in Threads, DispatchStep(t) PROVE BacklogInv'
    <2>1. CASE \E s \in Schedules : Fire(t, s)
        BY <1>0, <2>1, FireKeepsBacklog
    <2>2. CASE Create(t)
        <3>1. PICK r \in Matched : CreateJob(dispatch[t].schedule, r)
            BY <2>2 DEF Create
        <3>2. r \in Runners \cup {NoRunner} /\ dispatch[t].schedule \in Schedules \cup {NoSchedule}
            BY <1>0, DispatchType DEF Matched
        <3>3. PICK d \in Dispatches : /\ dispatch' = [dispatch EXCEPT ![t] = d]
                                      /\ d.schedule = dispatch[t].schedule /\ d.at \in {"create", "list"}
                                      /\ d.doomed = {}
            BY <1>0, <2>2, CreateFrame
        <3>4. dispatch[t].at = "create" /\ dispatch'[t] = d /\ \A u \in Threads \ {t} : dispatch'[u] = dispatch[u]
            BY <1>0, <2>2, <3>3 DEF Create, TypeOK
        <3>5. UNCHANGED <<dropped, torn, claimant>>
            BY <2>2 DEF Create, history
        <3>6. FramesInv'
            BY <3>3, <3>4 DEF FramesInv, IInv, BacklogInv
        <3>7. ~AllListed(dispatch[t].schedule)'
            BY <3>3, <3>4 DEF AllListed
        <3>. QED BY <1>0, <3>1, <3>2, <3>3, <3>4, <3>5, <3>6, <3>7, CreateKeepsBacklog
    <2>3. CASE List(t)
        BY <1>0, <2>3, ListKeepsBacklog
    <2>4. CASE CancelOldest(t)
        BY <1>0, <2>4, CancelKeepsBacklog
    <2>. QED BY <1>1, <2>1, <2>2, <2>3, <2>4 DEF DispatchStep
<1>2. ASSUME NEW r \in Runners, RunnerStep(r) PROVE BacklogInv'
    <2>1. UNCHANGED <<made, schedule, dispatch, dropped, torn>>
        BY <1>2 DEF RunnerStep, Register, Heartbeat, Work, Claim, Reject, Complete, AgentRestarts,
                    RunnerBecomes, jobVars, history
    <2>2. \A j \in Jobs : status'[j] = "pending" => status[j] = "pending"
        <3>1. CASE Claim(r)
            BY <1>0, <3>1 DEF Claim, TypeOK
        <3>2. CASE Complete(r)
            BY <1>0, <3>2 DEF Complete, TypeOK
        <3>3. CASE ~Claim(r) /\ ~Complete(r)
            BY <1>2, <3>3 DEF RunnerStep, Register, Heartbeat, Work, Reject, AgentRestarts,
                              RunnerBecomes, jobVars
        <3>. QED BY <3>1, <3>2, <3>3
    <2>3. \A j \in dropped : claimant'[j] = claimant[j]
        <3>1. CASE Claim(r)
            <4>1. \A j \in dropped : j \in Jobs /\ status[j] # "pending"
                BY <1>0 DEF IInv, BacklogInv, DroppedInv, TypeOK
            <4>. QED BY <1>0, <3>1, <4>1 DEF Claim, Claimable, TypeOK
        <3>2. CASE ~Claim(r)
            BY <1>2, <3>2 DEF RunnerStep, Register, Heartbeat, Work, Reject, Complete, AgentRestarts,
                              RunnerBecomes, history
        <3>. QED BY <3>1, <3>2
    <2>. QED BY <1>0, <2>1, <2>2, <2>3, OnwardKeeps DEF Onward
<1>3. ASSUME NEW j \in Jobs, UserCancel(j) \/ UserDelete(j) PROVE BacklogInv'
    <2>1. Onward
        BY <1>0, <1>3 DEF Onward, UserCancel, UserDelete, TypeOK
    <2>. QED BY <1>0, <1>3, <2>1, OnwardKeeps DEF UserCancel, UserDelete, history
<1>4. CASE Submit
    <2>1. PICK r \in {x \in Runners : Known(x)} \cup {NoRunner} : CreateJob(NoSchedule, r)
        BY <1>4 DEF Submit
    <2>2. UNCHANGED <<dispatch, dropped, torn, claimant>>
        BY <1>4 DEF Submit, history
    <2>3. FramesInv'
        BY <2>2 DEF FramesInv, IInv, BacklogInv
    <2>. QED BY <1>0, <2>1, <2>2, <2>3, HarnessQueueAssumption, CreateKeepsBacklog
<1>5. CASE Crash
    BY <1>5, CrashKeepsBacklog
<1>6. CASE UNCHANGED vars
    BY <1>0, <1>6, OnwardKeeps DEF Onward, vars
<1>. QED BY <1>1, <1>2, <1>3, <1>4, <1>5, <1>6 DEF Next

-----------------------------------------------------------------------------
(* The theorems.                                                           *)

THEOREM InvAlways == Spec => []IInv
<1>1. IInv /\ [Next]_vars => IInv'
    BY RunStep, BacklogStep DEF IInv
<1>. QED BY InvInit, <1>1, PTL DEF Spec

\* A job is run by the runner it is assigned to, and each runner has one running
\* job at most, however claims, offers, rejections and cancellations interleave.
THEOREM RunsAreWhereAssigned == Spec => []RunsWhereAssigned
<1>1. IInv => RunsWhereAssigned
    BY DEF IInv, RunInv
<1>. QED BY InvAlways, <1>1, PTL

\* Dispatches that overlap leave no schedule with too long a backlog, and cancel
\* for it only jobs that nobody ran and that had newer ones enough.
THEOREM BacklogIsKept == Spec => []BacklogKept
<1>1. ASSUME IInv PROVE BacklogKept
    <2>1. ASSUME NEW s \in Schedules \ torn, \A t \in Threads : dispatch[t].schedule # s, NEW j \in Pending(s)
          PROVE  Cardinality({k \in Pending(s) : k > j}) < MaxPending
        <3>1. j \in Jobs /\ NewerIn(Pending(s), j) \in SUBSET Jobs
            BY DEF Pending, NewerIn
        <3>2. AllListed(s) /\ ~OnList(s, j)
            BY <2>1 DEF AllListed, OnList
        <3>3. ~Surplus(s, j)
            BY <1>1, <3>1, <3>2 DEF IInv, BacklogInv, CoveredInv
        <3>4. Cardinality(NewerIn(Pending(s), j)) \in Nat
            BY <3>1, FewerJobs
        <3>. QED BY <3>3, <3>4, HarnessQueueAssumption DEF Surplus, NewerIn
    <2>2. ASSUME NEW j \in dropped
          PROVE  /\ claimant[j] = NoRunner
                 /\ Cardinality({k \in 1..made : k > j /\ schedule[k] = schedule[j]}) >= MaxPending
        BY <1>1 DEF IInv, BacklogInv, DroppedInv, Behind, Newer
    <2>. QED BY <2>1, <2>2 DEF BacklogKept
<1>. QED BY InvAlways, <1>1, PTL
=============================================================================
