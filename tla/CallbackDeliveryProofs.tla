----------------------- MODULE CallbackDeliveryProofs -----------------------
(***************************************************************************)
(* What CallbackDelivery promises for any number of coroutines and items:  *)
(* the slots of the handoffs add up, and no answer costs a report its rows. *)
(***************************************************************************)
EXTENDS CallbackDelivery, FiniteSetTheorems, TLAPS

\* The entries of _handoff_tasks.
Entries == {i \in Items : Scheduled(i)}

\* A coroutine that is not idle has an item.
Busy(c) == worker[c].at # "idle" => worker[c].item \in Items

\* Whoever has to report a delivery of item i that has rows.
HasReport(i) ==
    \/ \E c \in Workers : /\ worker[c].at \in {"reporting", "answering", "waiting"}
                          /\ worker[c].keeps /\ worker[c].item = i
    \/ handoff[i].at \in {"sleeping", "reporting", "answering"} /\ handoff[i].keeps

\* A stronger form of RowsAwaitTheirReport, whatever the generations: a step sees
\* to the rows of an item without looking at other deliveries of it.
RowsInv == \A i \in Items : HasReport(i) => rows[i] # "none" \/ i \in copied

IInv == TypeOK /\ (\A c \in Workers : Busy(c)) /\ SlotsExact /\ RowsInv

-----------------------------------------------------------------------------
(* The steps, by what they do to a coroutine and to a handoff.             *)

LEMMA RecordTypes ==
    ASSUME TypeOK
    PROVE  /\ \A c \in Workers : /\ worker[c].at \in WorkerPlaces /\ worker[c].item \in Items \cup {NoItem}
                                 /\ worker[c].gen \in Nat /\ worker[c].keeps \in BOOLEAN
                                 /\ worker[c].beat \in BOOLEAN
           /\ \A i \in Items : /\ handoff[i].at \in HandoffPlaces /\ handoff[i].gen \in Nat
                               /\ handoff[i].keeps \in BOOLEAN /\ handoff[i].beat \in BOOLEAN
           /\ Idle \in Coroutines /\ NoTask \in Handoffs
BY DEF TypeOK, Coroutines, Handoffs, Idle, NoTask, WorkerPlaces, HandoffPlaces

\* A coroutine goes to another place with the same delivery.
LEMMA GoesType ==
    ASSUME TypeOK, NEW c \in Workers, NEW at \in WorkerPlaces, Goes(c, at)
    PROVE  /\ worker' \in [Workers -> Coroutines]
           /\ worker'[c].at = at /\ worker'[c].item = worker[c].item /\ worker'[c].keeps = worker[c].keeps
           /\ \A x \in Workers \ {c} : worker'[x] = worker[x]
BY DEF TypeOK, Goes, Coroutines

LEMMA ReturnsType ==
    ASSUME TypeOK, NEW c \in Workers, Returns(c)
    PROVE  /\ worker' \in [Workers -> Coroutines]
           /\ worker'[c] = Idle /\ \A x \in Workers \ {c} : worker'[x] = worker[x]
BY RecordTypes DEF TypeOK, Returns

LEMMA MovesType ==
    ASSUME TypeOK, NEW i \in Items, NEW at \in HandoffPlaces, Moves(i, at)
    PROVE  /\ handoff' \in [Items -> Handoffs]
           /\ handoff'[i].at = at /\ handoff'[i].keeps = handoff[i].keeps
           /\ \A x \in Items \ {i} : handoff'[x] = handoff[x]
BY DEF TypeOK, Moves, Handoffs

\* The number of coroutines, and of the entries, is a number.
LEMMA Numbers ==
    ASSUME TypeOK
    PROVE  /\ Cardinality(Workers) \in Nat /\ Cardinality(Entries) \in Nat
           /\ IsFiniteSet(Entries) /\ slots \in Int
<1>1. IsFiniteSet(Workers) /\ IsFiniteSet(Entries)
    BY CallbackDeliveryAssumption, FS_Subset DEF Entries
<1>. QED BY <1>1, FS_CardinalityType DEF TypeOK

\* While the entries stay, the slots that are left are right.
LEMMA SlotsStay ==
    ASSUME SlotsExact, UNCHANGED slots, \A i \in Items : Scheduled(i)' <=> Scheduled(i)
    PROVE  SlotsExact'
<1>1. {i \in Items : Scheduled(i)}' = {i \in Items : Scheduled(i)}
    OBVIOUS
<1>. QED BY <1>1 DEF SlotsExact

\* Item i gets an entry, for a slot.
LEMMA SlotTaken ==
    ASSUME TypeOK, SlotsExact, NEW i \in Items, ~Scheduled(i), slots > 0, slots' = slots - 1,
           Scheduled(i)', \A x \in Items \ {i} : Scheduled(x)' <=> Scheduled(x)
    PROVE  SlotsExact'
<1>1. Entries' = Entries \cup {i} /\ i \notin Entries
    BY DEF Entries
<1>2. Cardinality(Entries') = Cardinality(Entries) + 1
    BY <1>1, Numbers, FS_AddElement
<1>3. slots + Cardinality(Entries) = Cardinality(Workers) /\ slots \in Int
    BY Numbers DEF SlotsExact, Entries
<1>4. slots' >= 0 /\ slots' + Cardinality(Entries') = Cardinality(Workers)
    BY <1>2, <1>3, Numbers
<1>. QED BY <1>4 DEF SlotsExact, Entries

\* Item i loses its entry, and the slot is free.
LEMMA SlotFreed ==
    ASSUME TypeOK, SlotsExact, NEW i \in Items, Scheduled(i), slots' = slots + 1,
           ~Scheduled(i)', \A x \in Items \ {i} : Scheduled(x)' <=> Scheduled(x)
    PROVE  SlotsExact'
<1>1. Entries' = Entries \ {i} /\ i \in Entries
    BY DEF Entries
<1>2. Cardinality(Entries') = Cardinality(Entries) - 1
    BY <1>1, Numbers, FS_RemoveElement
<1>3. slots + Cardinality(Entries) = Cardinality(Workers) /\ slots \in Int /\ slots >= 0
    BY Numbers DEF SlotsExact, Entries
<1>4. slots' >= 0 /\ slots' + Cardinality(Entries') = Cardinality(Workers)
    BY <1>2, <1>3, Numbers
<1>. QED BY <1>4 DEF SlotsExact, Entries

\* Reports only become fewer, and nothing that they need is lost.
LEMMA RowsStay ==
    ASSUME RowsInv, \A i \in Items : HasReport(i)' => HasReport(i),
           \A i \in Items : rows[i] # "none" \/ i \in copied => rows'[i] # "none" \/ i \in copied'
    PROVE  RowsInv'
BY DEF RowsInv

\* A coroutine hands its report over to a task.
LEMMA HandOverKeeps ==
    ASSUME IInv, NEW c \in Workers, NEW i \in Items, worker[c].item = i,
           worker[c].at \in {"reporting", "waiting"},
           ~Scheduled(i), slots > 0, HandOver(c),
           UNCHANGED <<gatewayVars, running, rows>>
    PROVE  IInv'
<1>0. TypeOK
    BY DEF IInv
<1>1. worker' \in [Workers -> Coroutines] /\ worker'[c] = Idle /\ \A x \in Workers \ {c} : worker'[x] = worker[x]
    BY <1>0, ReturnsType DEF HandOver
<1>2. Task(worker[c]) \in Handoffs /\ Task(worker[c]).at = "sleeping" /\ Task(worker[c]).keeps = worker[c].keeps
    BY <1>0, RecordTypes DEF Task, Handoffs, HandoffPlaces
<1>3. /\ handoff' \in [Items -> Handoffs] /\ handoff'[i] = Task(worker[c])
      /\ \A x \in Items \ {i} : handoff'[x] = handoff[x]
    BY <1>0, <1>2 DEF HandOver, TypeOK
<1>4. slots' = slots - 1
    BY DEF HandOver
<1>5. TypeOK'
    BY <1>0, <1>1, <1>3, <1>4 DEF TypeOK, gatewayVars
<1>6. \A x \in Workers : Busy(x)'
    BY <1>1 DEF IInv, Busy, Idle
<1>7. SlotsExact'
    <2>1. Scheduled(i)'
        BY <1>2, <1>3 DEF Scheduled
    <2>2. ASSUME NEW x \in Items \ {i} PROVE Scheduled(x)' <=> Scheduled(x)
        BY <1>3 DEF Scheduled
    <2>. QED BY <1>0, <1>4, <2>1, <2>2, SlotTaken DEF IInv
<1>8. RowsInv'
    <2>1. ASSUME NEW x \in Items, HasReport(x)' PROVE HasReport(x)
        <3>1. CASE \E w \in Workers : /\ worker'[w].at \in {"reporting", "answering", "waiting"}
                                      /\ worker'[w].keeps /\ worker'[w].item = x
            BY <1>1, <3>1 DEF HasReport, Idle
        <3>2. CASE x = i /\ handoff'[i].keeps
            BY <1>2, <1>3, <3>2 DEF HasReport
        <3>3. CASE x # i /\ handoff'[x].at \in {"sleeping", "reporting", "answering"} /\ handoff'[x].keeps
            BY <1>3, <3>3 DEF HasReport
        <3>. QED BY <2>1, <3>1, <3>2, <3>3 DEF HasReport
    <2>. QED BY <2>1, RowsStay DEF IInv, gatewayVars
<1>. QED BY <1>5, <1>6, <1>7, <1>8 DEF IInv

\* A coroutine moves on with what it has, or returns, and the handoffs stay.
LEMMA WorkerKeeps ==
    ASSUME IInv, NEW c \in Workers, worker' \in [Workers -> Coroutines],
           \A x \in Workers \ {c} : worker'[x] = worker[x],
           Busy(c)', lease' \in [Items -> {"queued", "leased", "over"}], generation' \in [Items -> Nat],
           copied' \in SUBSET Items, rows' \in [Items -> {"none", "held", "expired"}],
           UNCHANGED <<running, handoff, slots>>, RowsInv'
    PROVE  IInv'
<1>1. TypeOK'
    BY DEF IInv, TypeOK
<1>2. \A x \in Workers : Busy(x)'
    BY DEF IInv, Busy
<1>3. SlotsExact'
    BY SlotsStay DEF IInv, Scheduled
<1>. QED BY <1>1, <1>2, <1>3 DEF IInv

\* A task moves on, and the coroutines and the slots stay.
LEMMA HandoffKeeps ==
    ASSUME IInv, NEW i \in Items, Scheduled(i), NEW at \in HandoffPlaces \ {"none"}, Moves(i, at),
           lease' \in [Items -> {"queued", "leased", "over"}],
           copied' \in SUBSET Items, rows' \in [Items -> {"none", "held", "expired"}],
           UNCHANGED <<generation, running, worker, slots>>, RowsInv'
    PROVE  IInv'
<1>0. TypeOK
    BY DEF IInv
<1>1. handoff' \in [Items -> Handoffs] /\ handoff'[i].at = at /\ \A x \in Items \ {i} : handoff'[x] = handoff[x]
    BY <1>0, MovesType
<1>2. TypeOK'
    BY <1>0, <1>1 DEF TypeOK
<1>3. \A x \in Workers : Busy(x)'
    BY DEF IInv, Busy
<1>4. SlotsExact'
    <2>1. \A x \in Items : Scheduled(x)' <=> Scheduled(x)
        BY <1>1 DEF Scheduled
    <2>. QED BY <2>1, SlotsStay DEF IInv
<1>. QED BY <1>2, <1>3, <1>4 DEF IInv

\* What a callback's end does to the gateway and to the rows of its item.
LEMMA AnswerType ==
    ASSUME TypeOK, NEW i \in Items, NEW t, t.keeps \in BOOLEAN,
           \/ Answer(i, t)
           \/ NoAnswer(i, t) /\ UNCHANGED rows
    PROVE  /\ lease' \in [Items -> {"queued", "leased", "over"}]
           /\ copied' \in SUBSET Items /\ rows' \in [Items -> {"none", "held", "expired"}]
           /\ \A x \in Items : rows[x] # "none" \/ x \in copied => rows'[x] # "none" \/ x \in copied'
<1>1. ASSUME CarriesOut(i, t), rows' = [rows EXCEPT ![i] = "none"], t.keeps
      PROVE  /\ lease' \in [Items -> {"queued", "leased", "over"}]
             /\ copied' \in SUBSET Items /\ rows' \in [Items -> {"none", "held", "expired"}]
             /\ \A x \in Items : rows[x] # "none" \/ x \in copied => rows'[x] # "none" \/ x \in copied'
    BY <1>1 DEF CarriesOut, TypeOK
<1>2. ASSUME CarriesOut(i, t), rows' = rows
      PROVE  /\ lease' \in [Items -> {"queued", "leased", "over"}]
             /\ copied' \in SUBSET Items /\ rows' \in [Items -> {"none", "held", "expired"}]
             /\ \A x \in Items : rows[x] # "none" \/ x \in copied => rows'[x] # "none" \/ x \in copied'
    BY <1>2 DEF CarriesOut, TypeOK
<1>3. CASE UNCHANGED <<lease, copied, rows>>
    BY <1>3 DEF TypeOK
<1>4. CASE Answer(i, t)
    <2>1. CASE CarriesOut(i, t) /\ Forgets(i, t, TRUE)
        BY <2>1, <1>1, <1>2 DEF Forgets
    <2>2. CASE Forgets(i, t, FALSE) /\ UNCHANGED <<lease, copied>>
        BY <2>2, <1>3 DEF Forgets
    <2>. QED BY <1>4, <2>1, <2>2 DEF Answer
<1>5. CASE NoAnswer(i, t) /\ UNCHANGED rows
    BY <1>5, <1>2, <1>3 DEF NoAnswer
<1>. QED BY <1>4, <1>5

\* A coroutine that reports goes on reporting.
LEMMA ReporterGoes ==
    ASSUME IInv, NEW c \in Workers, NEW at \in {"reporting", "answering", "waiting"}, Goes(c, at),
           worker[c].at \in {"reporting", "answering", "waiting"},
           lease' \in [Items -> {"queued", "leased", "over"}],
           copied' \in SUBSET Items, rows' \in [Items -> {"none", "held", "expired"}],
           \A x \in Items : rows[x] # "none" \/ x \in copied => rows'[x] # "none" \/ x \in copied',
           UNCHANGED <<generation, running, handoff, slots>>
    PROVE  IInv'
<1>1. /\ worker' \in [Workers -> Coroutines]
      /\ worker'[c].at = at /\ worker'[c].item = worker[c].item /\ worker'[c].keeps = worker[c].keeps
      /\ \A x \in Workers \ {c} : worker'[x] = worker[x]
    BY GoesType DEF IInv, WorkerPlaces
<1>2. Busy(c)'
    BY <1>1 DEF IInv, Busy
<1>3. RowsInv'
    <2>1. ASSUME NEW x \in Items, HasReport(x)' PROVE HasReport(x)
        BY <1>1, <2>1 DEF HasReport
    <2>. QED BY <2>1, RowsStay DEF IInv
<1>4. generation' \in [Items -> Nat]
    BY DEF IInv, TypeOK
<1>. QED BY <1>1, <1>2, <1>3, <1>4, WorkerKeeps

\* A coroutine is through with its delivery, and no task has taken it over.
LEMMA ReporterReturns ==
    ASSUME IInv, NEW c \in Workers, Returns(c),
           lease' \in [Items -> {"queued", "leased", "over"}],
           copied' \in SUBSET Items, rows' \in [Items -> {"none", "held", "expired"}],
           \A x \in Items : rows[x] # "none" \/ x \in copied => rows'[x] # "none" \/ x \in copied',
           UNCHANGED <<generation, running, handoff, slots>>
    PROVE  IInv'
<1>1. worker' \in [Workers -> Coroutines] /\ worker'[c] = Idle /\ \A x \in Workers \ {c} : worker'[x] = worker[x]
    BY ReturnsType DEF IInv
<1>2. Busy(c)'
    BY <1>1 DEF Busy, Idle
<1>3. RowsInv'
    <2>1. ASSUME NEW x \in Items, HasReport(x)' PROVE HasReport(x)
        BY <1>1, <2>1 DEF HasReport, Idle
    <2>. QED BY <2>1, RowsStay DEF IInv
<1>4. generation' \in [Items -> Nat]
    BY DEF IInv, TypeOK
<1>. QED BY <1>1, <1>2, <1>3, <1>4, WorkerKeeps

\* A task goes on, or ends.
LEMMA TaskMoves ==
    ASSUME IInv, NEW i \in Items, NEW at \in {"sleeping", "reporting", "answering", "ended"}, Moves(i, at),
           handoff[i].at \in {"sleeping", "reporting", "answering"},
           lease' \in [Items -> {"queued", "leased", "over"}],
           copied' \in SUBSET Items, rows' \in [Items -> {"none", "held", "expired"}],
           \A x \in Items : rows[x] # "none" \/ x \in copied => rows'[x] # "none" \/ x \in copied',
           UNCHANGED <<generation, running, worker, slots>>
    PROVE  IInv'
<1>1. at \in HandoffPlaces \ {"none"} /\ Scheduled(i)
    BY DEF HandoffPlaces, Scheduled
<1>2. /\ handoff' \in [Items -> Handoffs]
      /\ handoff'[i].at = at /\ handoff'[i].keeps = handoff[i].keeps
      /\ \A x \in Items \ {i} : handoff'[x] = handoff[x]
    BY <1>1, MovesType DEF IInv
<1>3. RowsInv'
    <2>1. ASSUME NEW x \in Items, HasReport(x)' PROVE HasReport(x)
        BY <1>2, <2>1 DEF HasReport
    <2>. QED BY <2>1, RowsStay DEF IInv
<1>. QED BY <1>1, <1>3, HandoffKeeps

-----------------------------------------------------------------------------
(* The steps.                                                              *)

LEMMA WorkerSteps ==
    ASSUME IInv, NEW c \in Workers, WorkerStep(c)
    PROVE  IInv'
<1>0. TypeOK
    BY DEF IInv
<1>1. ASSUME NEW i \in Items, Claim(c, i) PROVE IInv'
    <2>. DEFINE r == [at |-> "executing", item |-> i, gen |-> generation[i] + 1, keeps |-> FALSE, beat |-> TRUE]
    <2>1. r \in Coroutines
        BY <1>0 DEF TypeOK, Coroutines, WorkerPlaces
    <2>2. worker' \in [Workers -> Coroutines] /\ worker'[c] = r /\ \A x \in Workers \ {c} : worker'[x] = worker[x]
        BY <1>0, <1>1, <2>1 DEF Claim, TypeOK
    <2>3. Busy(c)'
        BY <2>2 DEF Busy
    <2>4. RowsInv'
        <3>1. ASSUME NEW x \in Items, HasReport(x)' PROVE HasReport(x)
            BY <1>1, <2>2, <3>1 DEF HasReport, Claim
        <3>. QED BY <1>1, <3>1, RowsStay DEF IInv, Claim
    <2>5. /\ lease' \in [Items -> {"queued", "leased", "over"}] /\ generation' \in [Items -> Nat]
          /\ copied' \in SUBSET Items /\ rows' \in [Items -> {"none", "held", "expired"}]
        BY <1>0, <1>1 DEF Claim, TypeOK
    <2>. QED BY <1>1, <2>2, <2>3, <2>4, <2>5, WorkerKeeps DEF Claim
<1>2. ASSUME Execute(c) PROVE IInv'
    <2>. PICK i \in Items : i = worker[c].item
        BY <1>2 DEF Execute, IInv, Busy
    <2>1. PICK keeps \in BOOLEAN :
            /\ worker' = [worker EXCEPT ![c].at = "reporting", ![c].keeps = keeps]
            /\ rows' = IF keeps THEN [rows EXCEPT ![i] = "held"] ELSE rows
        BY <1>2 DEF Execute
    <2>2. /\ worker' \in [Workers -> Coroutines]
          /\ worker'[c].item = i /\ worker'[c].keeps = keeps
          /\ \A x \in Workers \ {c} : worker'[x] = worker[x]
        BY <1>0, <2>1 DEF TypeOK, Coroutines, WorkerPlaces
    <2>3. Busy(c)'
        BY <2>2 DEF Busy
    <2>4. rows' \in [Items -> {"none", "held", "expired"}] /\ \A x \in Items : rows[x] # "none" => rows'[x] # "none"
        BY <1>0, <2>1 DEF TypeOK
    <2>5. keeps => rows'[i] = "held"
        BY <1>0, <2>1 DEF TypeOK
    <2>6. UNCHANGED <<gatewayVars, running, handoff, slots>>
        BY <1>2 DEF Execute
    <2>7. RowsInv'
        <3>1. ASSUME NEW x \in Items, HasReport(x)', ~(x = i /\ keeps) PROVE HasReport(x)
            BY <2>2, <2>6, <3>1 DEF HasReport
        <3>. QED BY <2>4, <2>5, <2>6, <3>1 DEF RowsInv, IInv, gatewayVars
    <2>. QED BY <1>0, <2>2, <2>3, <2>4, <2>6, <2>7, WorkerKeeps DEF TypeOK, gatewayVars
<1>3. ASSUME CallbackArrives(c) PROVE IInv'
    BY <1>0, <1>3, ReporterGoes DEF CallbackArrives, gatewayVars, TypeOK
<1>4. ASSUME Answered(c) \/ Unanswered(c) PROVE IInv'
    <2>1. worker[c].at \in {"reporting", "answering"}
        BY <1>4 DEF Answered, Unanswered, Answer, NoAnswer
    <2>. PICK i \in Items : i = worker[c].item
        BY <2>1 DEF IInv, Busy
    <2>2. worker[c].keeps \in BOOLEAN
        BY <1>0, RecordTypes
    <2>3. /\ lease' \in [Items -> {"queued", "leased", "over"}]
          /\ copied' \in SUBSET Items /\ rows' \in [Items -> {"none", "held", "expired"}]
          /\ \A x \in Items : rows[x] # "none" \/ x \in copied => rows'[x] # "none" \/ x \in copied'
        BY <1>0, <1>4, <2>2, AnswerType DEF Answered, Unanswered
    <2>4. CASE Answered(c)
        BY <2>3, <2>4, ReporterReturns DEF Answered
    <2>5. CASE Unanswered(c)
        BY <2>1, <2>3, <2>5, ReporterGoes DEF Unanswered
    <2>. QED BY <1>4, <2>4, <2>5
<1>5. ASSUME RetriesUsedUp(c) \/ SlotAcquired(c) PROVE IInv'
    <2>1. worker[c].at \in {"reporting", "waiting"} /\ UNCHANGED <<gatewayVars, running, rows>>
        BY <1>5 DEF RetriesUsedUp, SlotAcquired
    <2>. PICK i \in Items : i = worker[c].item
        BY <2>1 DEF IInv, Busy
    <2>2. /\ lease' \in [Items -> {"queued", "leased", "over"}] /\ copied' \in SUBSET Items
          /\ rows' \in [Items -> {"none", "held", "expired"}] /\ UNCHANGED <<copied, generation>>
        BY <1>0, <2>1 DEF TypeOK, gatewayVars
    <2>3. CASE Drop(c)
        BY <2>1, <2>2, <2>3, ReporterReturns DEF Drop
    <2>4. CASE ~Scheduled(i) /\ slots > 0 /\ HandOver(c)
        BY <2>1, <2>4, HandOverKeeps
    <2>5. CASE Goes(c, "waiting") /\ UNCHANGED <<handoff, slots>>
        BY <2>1, <2>2, <2>5, ReporterGoes
    <2>. QED BY <1>5, <2>3, <2>4, <2>5 DEF RetriesUsedUp, SlotAcquired, Superfluous
<1>. QED BY <1>1, <1>2, <1>3, <1>4, <1>5 DEF WorkerStep

LEMMA HandoffSteps ==
    ASSUME IInv, NEW i \in Items, HandoffStep(i)
    PROVE  IInv'
<1>0. TypeOK
    BY DEF IInv
<1>1. ASSUME HandoffPosts(i) \/ HandoffFails(i) \/ HandoffExpires(i) PROVE IInv'
    <2>1. /\ lease' \in [Items -> {"queued", "leased", "over"}] /\ copied' \in SUBSET Items
          /\ rows' \in [Items -> {"none", "held", "expired"}]
          /\ UNCHANGED <<lease, generation, copied, running, worker, slots, rows>>
        BY <1>0, <1>1 DEF HandoffPosts, HandoffFails, HandoffExpires, gatewayVars, TypeOK
    <2>. QED BY <1>1, <2>1, TaskMoves DEF HandoffPosts, HandoffFails, HandoffExpires
<1>2. ASSUME HandoffAnswered(i) \/ HandoffUnanswered(i) PROVE IInv'
    <2>1. handoff[i].at \in {"reporting", "answering"}
        BY <1>2 DEF HandoffAnswered, HandoffUnanswered, Answer, NoAnswer
    <2>2. handoff[i].keeps \in BOOLEAN
        BY <1>0, RecordTypes
    <2>3. /\ lease' \in [Items -> {"queued", "leased", "over"}]
          /\ copied' \in SUBSET Items /\ rows' \in [Items -> {"none", "held", "expired"}]
          /\ \A x \in Items : rows[x] # "none" \/ x \in copied => rows'[x] # "none" \/ x \in copied'
        BY <1>0, <1>2, <2>2, AnswerType DEF HandoffAnswered, HandoffUnanswered
    <2>. QED BY <1>2, <2>1, <2>3, TaskMoves DEF HandoffAnswered, HandoffUnanswered
<1>3. ASSUME RemoveFinished(i) PROVE IInv'
    <2>1. /\ handoff' \in [Items -> Handoffs] /\ handoff'[i] = NoTask
          /\ \A x \in Items \ {i} : handoff'[x] = handoff[x]
        BY <1>0, <1>3, RecordTypes DEF RemoveFinished, EntryOf, TypeOK
    <2>2. slots' = slots + 1 /\ UNCHANGED <<lease, generation, copied, running, worker, rows>>
        BY <1>3 DEF RemoveFinished, SlotsAfter, gatewayVars
    <2>3. TypeOK'
        BY <1>0, <2>1, <2>2 DEF TypeOK
    <2>4. SlotsExact'
        <3>1. Scheduled(i) /\ ~Scheduled(i)'
            BY <1>3, <2>1 DEF RemoveFinished, Scheduled, NoTask
        <3>2. ASSUME NEW x \in Items \ {i} PROVE Scheduled(x)' <=> Scheduled(x)
            BY <2>1 DEF Scheduled
        <3>. QED BY <1>0, <2>2, <3>1, <3>2, SlotFreed DEF IInv
    <2>5. RowsInv'
        <3>1. ASSUME NEW x \in Items, HasReport(x)' PROVE HasReport(x)
            BY <2>1, <2>2, <3>1 DEF HasReport, NoTask
        <3>. QED BY <2>2, <3>1, RowsStay DEF IInv
    <2>. QED BY <2>2, <2>3, <2>4, <2>5 DEF IInv, Busy
<1>. QED BY <1>1, <1>2, <1>3 DEF HandoffStep

\* The gateway's sweep, the rows' TTL and the heartbeats.
LEMMA OtherSteps ==
    ASSUME IInv, (\E i \in Items : LeaseExpires(i) \/ RowsExpire(i)) \/ HeartbeatFails
    PROVE  IInv'
<1>0. TypeOK
    BY DEF IInv
<1>1. ASSUME NEW i \in Items, LeaseExpires(i) PROVE IInv'
    <2>1. lease' \in [Items -> {"queued", "leased", "over"}]
        BY <1>0, <1>1 DEF LeaseExpires, TypeOK
    <2>2. TypeOK' /\ UNCHANGED <<generation, copied, running, worker, handoff, slots, rows>>
        BY <1>0, <1>1, <2>1 DEF LeaseExpires, TypeOK
    <2>. QED BY <2>2 DEF IInv, Busy, SlotsExact, Scheduled, RowsInv, HasReport
<1>2. ASSUME NEW i \in Items, RowsExpire(i) PROVE IInv'
    <2>1. TypeOK' /\ UNCHANGED <<lease, generation, copied, running, worker, handoff, slots>>
        BY <1>0, <1>2 DEF RowsExpire, TypeOK, gatewayVars
    <2>2. \A x \in Items : rows[x] # "none" => rows'[x] # "none"
        BY <1>0, <1>2 DEF RowsExpire, TypeOK
    <2>3. \A x \in Items : HasReport(x)' <=> HasReport(x)
        BY <2>1 DEF HasReport
    <2>4. RowsInv'
        BY <2>1, <2>2, <2>3 DEF RowsInv, IInv
    <2>. QED BY <2>1, <2>4 DEF IInv, Busy, SlotsExact, Scheduled
<1>3. ASSUME HeartbeatFails PROVE IInv'
    <2>1. UNCHANGED <<lease, generation, copied, running, slots, rows>>
        BY <1>3 DEF HeartbeatFails, gatewayVars
    <2>2. /\ worker' \in [Workers -> Coroutines]
          /\ \A x \in Workers : /\ worker'[x].at = worker[x].at /\ worker'[x].item = worker[x].item
                                /\ worker'[x].keeps = worker[x].keeps
        <3>1. ASSUME NEW c \in Workers, worker' = [worker EXCEPT ![c].beat = FALSE]
              PROVE  /\ worker' \in [Workers -> Coroutines]
                     /\ \A x \in Workers : /\ worker'[x].at = worker[x].at /\ worker'[x].item = worker[x].item
                                           /\ worker'[x].keeps = worker[x].keeps
            BY <1>0, <3>1 DEF TypeOK, Coroutines
        <3>2. CASE UNCHANGED worker
            BY <1>0, <3>2 DEF TypeOK
        <3>. QED BY <1>3, <3>1, <3>2 DEF HeartbeatFails
    <2>3. /\ handoff' \in [Items -> Handoffs]
          /\ \A x \in Items : handoff'[x].at = handoff[x].at /\ handoff'[x].keeps = handoff[x].keeps
        <3>1. ASSUME NEW i \in Items, handoff' = [handoff EXCEPT ![i].beat = FALSE]
              PROVE  /\ handoff' \in [Items -> Handoffs]
                     /\ \A x \in Items : handoff'[x].at = handoff[x].at /\ handoff'[x].keeps = handoff[x].keeps
            BY <1>0, <3>1 DEF TypeOK, Handoffs
        <3>2. CASE UNCHANGED handoff
            BY <1>0, <3>2 DEF TypeOK
        <3>. QED BY <1>3, <3>1, <3>2 DEF HeartbeatFails
    <2>4. TypeOK'
        BY <1>0, <2>1, <2>2, <2>3 DEF TypeOK
    <2>5. \A x \in Workers : Busy(x)'
        BY <2>2 DEF IInv, Busy
    <2>6. SlotsExact'
        <3>1. \A x \in Items : Scheduled(x)' <=> Scheduled(x)
            BY <2>3 DEF Scheduled
        <3>. QED BY <2>1, <3>1, SlotsStay DEF IInv
    <2>7. RowsInv'
        <3>1. ASSUME NEW x \in Items, HasReport(x)' PROVE HasReport(x)
            BY <2>2, <2>3, <3>1 DEF HasReport
        <3>. QED BY <2>1, <3>1, RowsStay DEF IInv
    <2>. QED BY <2>4, <2>5, <2>6, <2>7 DEF IInv
<1>. QED BY <1>1, <1>2, <1>3

LEMMA ShutdownKeeps ==
    ASSUME IInv, ShutdownBegins
    PROVE  IInv'
<1>1. UNCHANGED <<lease, generation, copied, worker, slots, rows>> /\ running' = FALSE
    BY DEF ShutdownBegins, gatewayVars
<1>2. /\ handoff' \in [Items -> Handoffs]
      /\ \A x \in Items : IF Scheduled(x) THEN handoff'[x].at = "ended" ELSE handoff'[x] = handoff[x]
    BY DEF ShutdownBegins, IInv, TypeOK, Handoffs, HandoffPlaces
<1>3. TypeOK'
    BY <1>1, <1>2 DEF IInv, TypeOK
<1>4. SlotsExact'
    <2>1. \A x \in Items : Scheduled(x)' <=> Scheduled(x)
        BY <1>2 DEF Scheduled
    <2>. QED BY <1>1, <2>1, SlotsStay DEF IInv
<1>5. RowsInv'
    <2>1. ASSUME NEW x \in Items, HasReport(x)' PROVE HasReport(x)
        BY <1>1, <1>2, <2>1 DEF HasReport
    <2>. QED BY <1>1, <2>1, RowsStay DEF IInv
<1>. QED BY <1>1, <1>3, <1>4, <1>5 DEF IInv, Busy

\* A pod that has just started has all its slots, and reports nothing.
LEMMA FreshPod ==
    ASSUME worker = [c \in Workers |-> Idle], handoff = [i \in Items |-> NoTask],
           slots = Cardinality(Workers)
    PROVE  slots \in Nat /\ (\A c \in Workers : Busy(c)) /\ SlotsExact /\ RowsInv
<1>1. Cardinality(Workers) \in Nat
    BY CallbackDeliveryAssumption, FS_CardinalityType
<1>2. {i \in Items : Scheduled(i)} = {}
    BY DEF Scheduled, NoTask
<1>3. SlotsExact
    BY <1>1, <1>2, FS_EmptySet DEF SlotsExact
<1>4. RowsInv
    BY DEF RowsInv, HasReport, Idle, NoTask
<1>. QED BY <1>1, <1>3, <1>4 DEF Busy, Idle

LEMMA ReplacedKeeps ==
    ASSUME IInv, PodReplaced
    PROVE  IInv'
<1>1. /\ worker' = [c \in Workers |-> Idle] /\ handoff' = [i \in Items |-> NoTask]
      /\ slots' = Cardinality(Workers) /\ rows' = [i \in Items |-> "none"] /\ running' = TRUE
      /\ UNCHANGED <<lease, generation, copied>>
    BY DEF PodReplaced, gatewayVars
<1>2. slots' \in Nat /\ (\A c \in Workers : Busy(c)') /\ SlotsExact' /\ RowsInv'
    <2>1. Cardinality(Workers) \in Nat
        BY CallbackDeliveryAssumption, FS_CardinalityType
    <2>2. {i \in Items : Scheduled(i)}' = {}
        BY <1>1 DEF Scheduled, NoTask
    <2>3. SlotsExact'
        BY <1>1, <2>1, <2>2, FS_EmptySet DEF SlotsExact
    <2>4. RowsInv'
        BY <1>1 DEF RowsInv, HasReport, Idle, NoTask
    <2>. QED BY <1>1, <2>1, <2>3, <2>4 DEF Busy, Idle
<1>3. TypeOK'
    BY <1>1, <1>2, RecordTypes DEF IInv, TypeOK
<1>. QED BY <1>2, <1>3 DEF IInv

-----------------------------------------------------------------------------

LEMMA InitIInv == Init => IInv
<1>. SUFFICES ASSUME Init PROVE IInv
    OBVIOUS
<1>1. slots \in Nat /\ (\A c \in Workers : Busy(c)) /\ SlotsExact /\ RowsInv
    BY FreshPod DEF Init
<1>2. Idle \in Coroutines /\ NoTask \in Handoffs
    BY DEF Idle, NoTask, Coroutines, Handoffs, WorkerPlaces, HandoffPlaces
<1>3. TypeOK
    BY <1>1, <1>2 DEF Init, TypeOK
<1>. QED BY <1>1, <1>3 DEF IInv

LEMMA NextIInv == IInv /\ [Next]_vars => IInv'
<1>. SUFFICES ASSUME IInv, [Next]_vars PROVE IInv'
    OBVIOUS
<1>1. CASE \E c \in Workers : WorkerStep(c)
    BY <1>1, WorkerSteps
<1>2. CASE \E i \in Items : HandoffStep(i)
    BY <1>2, HandoffSteps
<1>3. CASE (\E i \in Items : LeaseExpires(i) \/ RowsExpire(i)) \/ HeartbeatFails
    BY <1>3, OtherSteps
<1>4. CASE ShutdownBegins
    BY <1>4, ShutdownKeeps
<1>5. CASE PodReplaced
    BY <1>5, ReplacedKeeps
<1>6. CASE UNCHANGED vars
    BY <1>6 DEF vars, IInv, TypeOK, Busy, SlotsExact, Scheduled, RowsInv, HasReport
<1>. QED BY <1>1, <1>2, <1>3, <1>4, <1>5, <1>6 DEF Next

LEMMA IInvAlways == Spec => []IInv
<1>. QED BY InitIInv, NextIInv, PTL DEF Spec

\* Whatever the coroutines and the handoffs of one item do to each other's
\* entry, the semaphore's slots and the entries of _handoff_tasks add up to the
\* number of coroutines (pipeline_pool.py, _schedule_gateway_callback_retry).
THEOREM SlotsAddUp == Spec => []SlotsExact
<1>1. IInv => SlotsExact
    BY DEF IInv
<1>. QED BY <1>1, IInvAlways, PTL

\* A delivery that is still to be reported finds its rows, whatever answers the
\* reports of older deliveries of the item were given.
THEOREM RowsAreKept == Spec => []RowsAwaitTheirReport
<1>1. IInv => RowsAwaitTheirReport
    <2>. SUFFICES ASSUME IInv, NEW i \in Retain, ToReport(i, generation[i])
                  PROVE  rows[i] # "none" \/ i \in copied
        BY DEF RowsAwaitTheirReport
    <2>1. i \in Items /\ HasReport(i)
        BY CallbackDeliveryAssumption DEF ToReport, HasReport
    <2>. QED BY <2>1 DEF IInv, RowsInv
<1>. QED BY <1>1, IInvAlways, PTL
=============================================================================
