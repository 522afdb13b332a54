------------------------- MODULE IngestGatewayProofs -------------------------
(***************************************************************************)
(* The safety of the split service for any number of works, workers, jobs  *)
(* and callbacks under way: an accepted document is never lost, an upload  *)
(* that failed leaves nothing behind, a document's status tells whether it *)
(* was delivered, completed documents have their rows, and every document  *)
(* lives as DocumentLife says.                                             *)
(*                                                                         *)
(* The argument is local to a document.  Each step of the service is, for  *)
(* each work, one of a few moves of its fate in the broker and one of a    *)
(* few moves of what a client sees; the moves keep the invariant of the    *)
(* work, and they are the actions of DocumentLife.                         *)
(***************************************************************************)
EXTENDS IngestGateway, TLAPS

-----------------------------------------------------------------------------
(* The broker's part of the invariant.                                     *)

BrokerTyped ==
    /\ records \subseteq Work
    /\ fate \in [Work -> WB!Fates]
    /\ lease \in [Work -> {"none", "held", "due"}]
    /\ generation \in [Work -> Nat] /\ activated \in [Work -> Nat] /\ attempts \in [Work -> Nat]
    /\ op \in [Pools -> [step : WB!Steps, work : Work \cup {NoWork}]]

\* The work in the hands of an enqueue is being admitted.
Enqueuing == {"admission", "payload", "sidecar", "undo"}
InFlight == \A w \in Work : \A st \in Enqueuing : WB!At(w, st) => fate[w] = "admitting"

\* The records are the admitted works, and an attempt is counted before the
\* lease is active; what is queued or not yet activated has an attempt left.
Recorded(w) ==
    /\ fate[w] \in {"unseen", "admitting"} => attempts[w] = 0
    /\ w \in records <=> fate[w] = "admitted"
    /\ activated[w] > 0 => attempts[w] > 0
    /\ w \in records /\ (lease[w] = "none" \/ activated[w] # generation[w])
          => attempts[w] < MaxDeliveryAttempts

BrokerInv == BrokerTyped /\ InFlight /\ \A w \in Work : Recorded(w)

LEMMA BrokerInit == WB!Init => BrokerInv
BY IngestGatewayAssumption
DEF WB!Init, BrokerInv, BrokerTyped, InFlight, Enqueuing, Recorded, WB!At, WB!Free, WB!Fates, WB!Steps

LEMMA BrokerSame ==
    ASSUME BrokerInv, UNCHANGED <<records, lease, generation, activated, attempts, op, fate>>
    PROVE  BrokerInv'
BY DEF BrokerInv, BrokerTyped, InFlight, Recorded, WB!At

\* Leases end: their works go back to the queue, or are exhausted.
Returns(D) ==
    /\ D \subseteq records
    /\ records' = records \ WB!Spent(D)
    /\ fate' = [w \in Work |-> IF w \in WB!Spent(D) THEN "exhausted" ELSE fate[w]]
    /\ UNCHANGED <<attempts, op>>

LEMMA ReturnsKeeps ==
    ASSUME BrokerInv, NEW D, Returns(D), UNCHANGED <<generation, activated>>,
           lease' = [w \in Work |-> IF w \in D THEN "none" ELSE lease[w]]
    PROVE  BrokerInv'
<1>1. BrokerTyped'
    BY DEF BrokerInv, BrokerTyped, Returns, WB!Fates
<1>2. InFlight'
    BY DEF BrokerInv, InFlight, Recorded, Returns, WB!At, WB!Spent, BrokerTyped
<1>3. ASSUME NEW w \in Work PROVE Recorded(w)'
    <2>1. Recorded(w) /\ attempts[w] \in Nat
        BY DEF BrokerInv, BrokerTyped
    <2>2. w \in D /\ w \notin WB!Spent(D) => attempts[w] < MaxDeliveryAttempts
        BY <2>1, IngestGatewayAssumption DEF WB!Spent
    <2>3. WB!Spent(D) \subseteq D
        BY DEF WB!Spent
    <2>. QED BY <2>1, <2>2, <2>3 DEF Returns, Recorded
<1>. QED BY <1>1, <1>2, <1>3 DEF BrokerInv

LEMMA DueRecords == \A p : WB!Due(p) \subseteq records
BY DEF WB!Due

LEMMA SweepReturns ==
    ASSUME BrokerInv, NEW p \in Pools, WB!Sweep(p)
    PROVE  BrokerInv' /\ Returns(WB!Due(p)) /\ UNCHANGED phase
<1>1. /\ Returns(WB!Due(p)) /\ UNCHANGED <<generation, activated, phase>>
      /\ lease' = [w \in Work |-> IF w \in WB!Due(p) THEN "none" ELSE lease[w]]
    BY DueRecords DEF WB!Sweep, WB!RequeueOrExhaust, WB!Retire, Returns, WB!lockVars, WB!phaseVars
<1>. QED BY <1>1, ReturnsKeeps

LEMMA ReleaseReturns ==
    ASSUME BrokerInv, NEW w \in Work, NEW g, WB!Release(w, g) \/ WB!PayloadMissing(w, g)
    PROVE  BrokerInv' /\ Returns({w}) /\ UNCHANGED phase
<1>1. WB!Release(w, g)
    BY DEF WB!PayloadMissing
<1>2. /\ Returns({w}) /\ UNCHANGED <<generation, activated, phase>>
      /\ lease' = [v \in Work |-> IF v \in {w} THEN "none" ELSE lease[v]]
    BY <1>1 DEF WB!Release, WB!Current, WB!RequeueOrExhaust, WB!Retire, Returns, WB!lockVars, WB!phaseVars
<1>. QED BY <1>2, ReturnsKeeps

LEMMA WaitReturns ==
    ASSUME BrokerInv, NEW c, WB!ClaimWait(c)
    PROVE  BrokerInv' /\ Returns(WB!Due(ClaimsFrom[c])) /\ UNCHANGED phase
<1>. DEFINE D == WB!Due(ClaimsFrom[c])
<1>1. /\ Returns(D) /\ UNCHANGED <<generation, activated, phase>>
      /\ lease' = [w \in Work |-> IF w \in D THEN "none" ELSE lease[w]]
    BY DueRecords DEF WB!ClaimWait, WB!Retire, Returns, WB!lockVars, WB!phaseVars
<1>. QED BY <1>1, ReturnsKeeps

LEMMA GrantReturns ==
    ASSUME BrokerInv, NEW c, NEW w \in Work, WB!ClaimGrant(c, w)
    PROVE  BrokerInv' /\ Returns(WB!Due(ClaimsFrom[c])) /\ UNCHANGED phase
<1>. DEFINE D == WB!Due(ClaimsFrom[c])
<1>1. /\ Returns(D) /\ UNCHANGED phase
      /\ generation' = [generation EXCEPT ![w] = @ + 1]
      /\ activated' = [activated EXCEPT ![w] = 0]
      /\ lease' = [v \in Work |-> IF v = w THEN "held" ELSE IF v \in D THEN "none" ELSE lease[v]]
    BY DueRecords DEF WB!ClaimGrant, WB!Retire, Returns, WB!lockVars, WB!phaseVars
<1>2. WB!Ready(w, D)
    BY DEF WB!ClaimGrant, WB!Rests
<1>. HIDE DEF D
<1>3. BrokerTyped'
    BY <1>1 DEF BrokerInv, BrokerTyped, Returns, WB!Fates
<1>4. InFlight'
    BY <1>1 DEF BrokerInv, InFlight, Recorded, Returns, WB!At, WB!Spent, BrokerTyped
<1>5. ASSUME NEW v \in Work PROVE Recorded(v)'
    <2>1. /\ Recorded(v) /\ attempts[v] \in Nat /\ generation[v] \in Nat
          /\ WB!Spent(D) \subseteq D /\ D \subseteq records
        BY <1>1 DEF BrokerInv, BrokerTyped, WB!Spent, Returns
    <2>2. v \in D /\ v \notin WB!Spent(D) => attempts[v] < MaxDeliveryAttempts
        BY <2>1, IngestGatewayAssumption DEF WB!Spent
    <2>3. CASE v = w
        <3>1. /\ v \in records \ WB!Spent(D) /\ attempts[v] < MaxDeliveryAttempts
            BY <1>2, <2>1, <2>2, <2>3 DEF WB!Ready, Recorded
        <3>2. /\ records' = records \ WB!Spent(D) /\ fate'[v] = fate[v] /\ attempts'[v] = attempts[v]
              /\ activated'[v] = 0
            BY <1>1, <2>3, <3>1 DEF Returns, BrokerInv, BrokerTyped
        <3>. QED BY <2>1, <3>1, <3>2 DEF Recorded
    <2>4. CASE v # w
        <3>1. /\ generation'[v] = generation[v] /\ activated'[v] = activated[v]
              /\ lease'[v] = IF v \in D THEN "none" ELSE lease[v]
            BY <1>1, <2>4 DEF BrokerInv, BrokerTyped
        <3>. QED BY <1>1, <2>1, <2>2, <3>1 DEF Returns, Recorded
    <2>. QED BY <2>3, <2>4
<1>. QED BY <1>1, <1>3, <1>4, <1>5 DEF BrokerInv, D

\* Steps that end nothing: only leases, locks and files move.
LEMMA QuietBroker ==
    ASSUME BrokerInv,
           \/ \E c \in Claimers : WB!ClaimCall(c) \/ WB!ClaimTimeout(c) \/ WB!ClaimStopped(c)
           \/ \E w \in Work : WB!LeaseDue(w) \/ WB!AckDone(w) \/ \E g \in Nat : WB!Heartbeat(w, g)
           \/ \E f \in WB!Files : WB!Unlink(f) \/ WB!LoseFile(f)
           \/ WB!ShutdownBegin \/ (\E p \in Pools : WB!ShutdownNotify(p))
           \/ WB!ShutdownDrain \/ WB!ShutdownDiscard \/ WB!Start
    PROVE  BrokerInv' /\ UNCHANGED <<fate, attempts>>
<1>. USE DEF WB!recordVars, WB!lockVars
<1>1. ASSUME NEW c, WB!ClaimCall(c) \/ WB!ClaimTimeout(c) \/ WB!ClaimStopped(c)
      PROVE  BrokerInv' /\ UNCHANGED <<fate, attempts>>
    BY <1>1, BrokerSame DEF WB!ClaimCall, WB!ClaimTimeout, WB!ClaimStopped
<1>2. ASSUME NEW w \in Work, NEW t \in {"held", "due"}, lease' = [lease EXCEPT ![w] = t], lease[w] # "none",
             UNCHANGED <<records, generation, activated, attempts, op, fate>>
      PROVE  BrokerInv'
    BY <1>2 DEF BrokerInv, BrokerTyped, InFlight, Recorded, WB!At
<1>3. ASSUME NEW w \in Work, WB!LeaseDue(w) PROVE BrokerInv' /\ UNCHANGED <<fate, attempts>>
    BY <1>2, <1>3 DEF WB!LeaseDue
<1>4. ASSUME NEW w \in Work, NEW g \in Nat, WB!Heartbeat(w, g) PROVE BrokerInv' /\ UNCHANGED <<fate, attempts>>
    BY <1>2, <1>4 DEF WB!Heartbeat
<1>5. ASSUME NEW w \in Work, WB!AckDone(w) PROVE BrokerInv' /\ UNCHANGED <<fate, attempts>>
    <2>1. /\ UNCHANGED <<records, lease, generation, activated, attempts, fate>>
          /\ op' = [op EXCEPT ![PoolOf[w]] = WB!Free]
        BY <1>5 DEF WB!AckDone
    <2>2. BrokerTyped'
        BY <2>1 DEF BrokerInv, BrokerTyped, WB!Free, WB!Steps
    <2>3. InFlight'
        BY <2>1, IngestGatewayAssumption DEF BrokerInv, BrokerTyped, InFlight, Enqueuing, WB!At, WB!Free
    <2>. QED BY <2>1, <2>2, <2>3 DEF BrokerInv, Recorded
<1>6. ASSUME NEW f, WB!Unlink(f) \/ WB!LoseFile(f) PROVE BrokerInv' /\ UNCHANGED <<fate, attempts>>
    BY <1>6, BrokerSame DEF WB!Unlink, WB!LoseFile
<1>7. ASSUME \/ WB!ShutdownBegin \/ (\E p \in Pools : WB!ShutdownNotify(p))
             \/ WB!ShutdownDrain \/ WB!ShutdownDiscard \/ WB!Start
      PROVE  BrokerInv' /\ UNCHANGED <<fate, attempts>>
    BY <1>7, BrokerSame
    DEF WB!ShutdownBegin, WB!ShutdownNotify, WB!ShutdownDrain, WB!ShutdownDiscard, WB!Start
<1>. QED BY <1>1, <1>3, <1>4, <1>5, <1>6, <1>7

\* The handler of work w moves on, and its lock is the only one that moves.
LEMMA Enqueues ==
    ASSUME BrokerInv, NEW w \in Work, NEW f \in {"admitting", "admitted", "rejected"}, NEW st \in WB!Steps,
           fate' = [fate EXCEPT ![w] = f],
           op' = [op EXCEPT ![PoolOf[w]] = [step |-> st, work |-> w]] \/ op' = [op EXCEPT ![PoolOf[w]] = WB!Free],
           op' = [op EXCEPT ![PoolOf[w]] = [step |-> st, work |-> w]] => f = "admitting",
           fate[w] = "unseen" \/ (fate[w] = "admitting" /\ \E s \in Enqueuing : WB!At(w, s)),
           records' = IF f = "admitted" THEN records \cup {w} ELSE records,
           UNCHANGED <<lease, generation, activated, attempts>>
    PROVE  BrokerInv'
<1>0. PoolOf[w] \in Pools /\ \A v \in Work : PoolOf[v] \in Pools
    BY IngestGatewayAssumption
<1>1. BrokerTyped'
    <2>1. [step |-> st, work |-> w] \in [step : WB!Steps, work : Work \cup {NoWork}]
        OBVIOUS
    <2>2. WB!Free \in [step : WB!Steps, work : Work \cup {NoWork}]
        BY DEF WB!Free, WB!Steps
    <2>3. op' \in [Pools -> [step : WB!Steps, work : Work \cup {NoWork}]]
        BY <1>0, <2>1, <2>2 DEF BrokerInv, BrokerTyped
    <2>. QED BY <2>3 DEF BrokerInv, BrokerTyped, WB!Fates
<1>2. ASSUME NEW v \in Work, NEW s \in Enqueuing, WB!At(v, s)' PROVE fate'[v] = "admitting"
    <2>1. CASE v = w
        <3>1. op' # [op EXCEPT ![PoolOf[w]] = WB!Free]
            BY <1>0, <1>2, <2>1 DEF WB!At, WB!Free, BrokerInv, BrokerTyped, Enqueuing
        <3>. QED BY <2>1, <3>1 DEF BrokerInv, BrokerTyped
    <2>2. CASE v # w
        <3>1. WB!At(v, s)
            BY <1>0, <1>2, <2>2 DEF WB!At, WB!Free, BrokerInv, BrokerTyped, Enqueuing
        <3>. QED BY <2>2, <3>1 DEF BrokerInv, BrokerTyped, InFlight
    <2>. QED BY <2>1, <2>2
<1>3. ASSUME NEW v \in Work PROVE Recorded(v)'
    BY IngestGatewayAssumption DEF BrokerInv, BrokerTyped, Recorded
<1>. QED BY <1>1, <1>2, <1>3 DEF BrokerInv, InFlight

LEMMA EnqueueStarts ==
    ASSUME BrokerInv, NEW w \in Work, WB!EnqueueStart(w)
    PROVE  /\ BrokerInv' /\ UNCHANGED <<attempts, phase>>
           /\ fate[w] = "unseen" /\ fate' = [fate EXCEPT ![w] = "admitting"]
<1>1. /\ op' = [op EXCEPT ![PoolOf[w]] = [step |-> "admission", work |-> w]]
      /\ fate[w] = "unseen" /\ fate' = [fate EXCEPT ![w] = "admitting"]
      /\ UNCHANGED <<records, lease, generation, activated, attempts, phase>>
    BY DEF WB!EnqueueStart, WB!recordVars, WB!phaseVars
<1>2. "admission" \in WB!Steps
    BY DEF WB!Steps
<1>. QED BY <1>1, <1>2, Enqueues

LEMMA InHands ==
    ASSUME BrokerInv, NEW w \in Work, NEW st \in Enqueuing, WB!At(w, st)
    PROVE  fate[w] = "admitting"
BY DEF BrokerInv, InFlight

\* The lock is handed from one step of an enqueue to the next.
LEMMA StepsOn ==
    ASSUME BrokerInv, NEW w \in Work, NEW s \in Enqueuing, WB!At(w, s), NEW st \in WB!Steps,
           op' = [op EXCEPT ![PoolOf[w]].step = st],
           UNCHANGED <<records, lease, generation, activated, attempts, fate>>
    PROVE  BrokerInv'
<1>1. op' = [op EXCEPT ![PoolOf[w]] = [step |-> st, work |-> w]]
    <2>1. PoolOf[w] \in Pools /\ op[PoolOf[w]].work = w
        BY IngestGatewayAssumption DEF WB!At
    <2>2. [op[PoolOf[w]] EXCEPT !.step = st] = [step |-> st, work |-> w]
        BY <2>1 DEF BrokerInv, BrokerTyped
    <2>. QED BY <2>1, <2>2 DEF BrokerInv, BrokerTyped
<1>2. fate[w] = "admitting" /\ fate' = [fate EXCEPT ![w] = "admitting"]
    BY InHands DEF BrokerInv, BrokerTyped
<1>. QED BY <1>1, <1>2, Enqueues

LEMMA EnqueueSteps ==
    ASSUME BrokerInv, NEW w \in Work,
           WB!EnqueueAdmit(w) \/ WB!SpoolPayload(w) \/ WB!SpoolSidecar(w) \/ WB!SpoolFails(w)
    PROVE  /\ BrokerInv' /\ UNCHANGED <<attempts, phase>>
           /\ \/ UNCHANGED fate
              \/ fate[w] = "admitting" /\ fate' = [fate EXCEPT ![w] = "admitted"]
<1>. USE DEF WB!recordVars, WB!phaseVars
<1>0. {"payload", "sidecar", "undo"} \subseteq WB!Steps
    BY DEF WB!Steps
<1>1. ASSUME WB!Commit(w), NEW s \in Enqueuing, WB!At(w, s)
      PROVE  /\ BrokerInv' /\ UNCHANGED attempts
             /\ fate[w] = "admitting" /\ fate' = [fate EXCEPT ![w] = "admitted"]
    <2>1. /\ records' = records \cup {w} /\ fate' = [fate EXCEPT ![w] = "admitted"]
          /\ op' = [op EXCEPT ![PoolOf[w]] = WB!Free]
          /\ UNCHANGED <<lease, generation, activated, attempts>>
        BY <1>1 DEF WB!Commit
    <2>2. fate[w] = "admitting"
        BY <1>1, InHands
    <2>3. op' # [op EXCEPT ![PoolOf[w]] = [step |-> "undo", work |-> w]]
        BY <2>1, IngestGatewayAssumption DEF WB!Free, BrokerInv, BrokerTyped
    <2>. QED BY <1>0, <1>1, <2>1, <2>2, <2>3, Enqueues
<1>2. CASE WB!EnqueueAdmit(w)
    BY <1>0, <1>2, StepsOn DEF WB!EnqueueAdmit, Enqueuing
<1>3. CASE WB!SpoolFails(w)
    <2>1. PICK s \in {"payload", "sidecar"} : WB!At(w, s)
        BY <1>3 DEF WB!SpoolFails
    <2>2. s \in Enqueuing
        BY DEF Enqueuing
    <2>. QED BY <1>0, <1>3, <2>1, <2>2, StepsOn DEF WB!SpoolFails
<1>4. CASE WB!SpoolSidecar(w)
    BY <1>1, <1>4 DEF WB!SpoolSidecar, Enqueuing
<1>5. CASE WB!SpoolPayload(w)
    <2>1. WB!At(w, "payload") /\ UNCHANGED phase /\ "payload" \in Enqueuing
        BY <1>5 DEF WB!SpoolPayload, Enqueuing
    <2>2. CASE WB!Commit(w)
        BY <1>1, <2>1, <2>2
    <2>3. CASE ~WB!Commit(w)
        <3>1. /\ op' = [op EXCEPT ![PoolOf[w]].step = "sidecar"]
              /\ UNCHANGED <<WB!recordVars, fate>>
            BY <1>5, <2>3, Zenon DEF WB!SpoolPayload
        <3>. QED BY <1>0, <2>1, <3>1, StepsOn
    <2>. QED BY <2>2, <2>3
<1>. QED BY <1>2, <1>3, <1>4, <1>5

LEMMA EnqueueEnds ==
    ASSUME BrokerInv, NEW w \in Work, WB!EnqueueReject(w) \/ WB!EnqueueUndo(w)
    PROVE  /\ BrokerInv' /\ UNCHANGED <<attempts, phase>>
           /\ fate[w] = "admitting" /\ fate' = [fate EXCEPT ![w] = "rejected"]
<1>1. PICK s \in Enqueuing : WB!At(w, s)
    BY DEF WB!EnqueueReject, WB!EnqueueUndo, Enqueuing
<1>2. /\ op' = [op EXCEPT ![PoolOf[w]] = WB!Free] /\ fate' = [fate EXCEPT ![w] = "rejected"]
      /\ UNCHANGED <<records, lease, generation, activated, attempts, phase>>
    BY DEF WB!EnqueueReject, WB!EnqueueUndo, WB!recordVars, WB!phaseVars
<1>3. fate[w] = "admitting"
    BY <1>1, InHands
<1>4. op' # [op EXCEPT ![PoolOf[w]] = [step |-> "undo", work |-> w]] /\ "undo" \in WB!Steps
    BY <1>2, IngestGatewayAssumption DEF WB!Free, WB!Steps, BrokerInv, BrokerTyped
<1>. QED BY <1>1, <1>2, <1>3, <1>4, Enqueues

LEMMA Activates ==
    ASSUME BrokerInv, NEW w \in Work, NEW g \in Nat, g > 0, WB!Activate(w, g)
    PROVE  /\ BrokerInv' /\ UNCHANGED <<fate, phase>>
           /\ fate[w] = "admitted" /\ attempts[w] < MaxDeliveryAttempts
           /\ attempts' = [attempts EXCEPT ![w] = @ + 1]
<1>1. /\ w \in records /\ generation[w] = g /\ activated[w] # g
      /\ attempts' = [attempts EXCEPT ![w] = @ + 1] /\ activated' = [activated EXCEPT ![w] = g]
      /\ UNCHANGED <<records, lease, generation, op, fate, phase>> /\ lease[w] # "none"
    BY DEF WB!Activate, WB!Current, WB!Counted, WB!lockVars, WB!phaseVars
<1>2. fate[w] = "admitted" /\ attempts[w] < MaxDeliveryAttempts
    BY <1>1 DEF BrokerInv, Recorded
<1>3. BrokerTyped' /\ InFlight'
    BY <1>1 DEF BrokerInv, BrokerTyped, InFlight, WB!At
<1>4. ASSUME NEW v \in Work PROVE Recorded(v)'
    BY <1>1, <1>2 DEF BrokerInv, BrokerTyped, Recorded
<1>. QED BY <1>1, <1>2, <1>3, <1>4 DEF BrokerInv

LEMMA Acknowledges ==
    ASSUME BrokerInv, NEW w \in Work, NEW g, WB!Acknowledge(w, g)
    PROVE  /\ BrokerInv' /\ UNCHANGED <<attempts, phase>>
           /\ fate[w] = "admitted" /\ fate' = [fate EXCEPT ![w] = "acknowledged"]
<1>1. /\ w \in records /\ records' = records \ {w} /\ lease' = [lease EXCEPT ![w] = "none"]
      /\ op' = [op EXCEPT ![PoolOf[w]] = [step |-> "unlink", work |-> w]]
      /\ fate' = [fate EXCEPT ![w] = "acknowledged"]
      /\ UNCHANGED <<generation, activated, attempts, phase>>
    BY DEF WB!Acknowledge, WB!Current, WB!phaseVars
<1>2. fate[w] = "admitted"
    BY <1>1 DEF BrokerInv, Recorded
<1>3. BrokerTyped'
    BY <1>1 DEF BrokerInv, BrokerTyped, WB!Fates, WB!Steps
<1>4. InFlight'
    BY <1>1, <1>2, IngestGatewayAssumption DEF BrokerInv, BrokerTyped, InFlight, Enqueuing, WB!At
<1>5. ASSUME NEW v \in Work PROVE Recorded(v)'
    BY <1>1, <1>2 DEF BrokerInv, BrokerTyped, Recorded
<1>. QED BY <1>1, <1>2, <1>3, <1>4, <1>5 DEF BrokerInv

\* The broker forgets everything: its records, or all it was handling.
Forgets(D) ==
    /\ fate' = [w \in Work |-> IF w \in D THEN "discarded" ELSE fate[w]]
    /\ UNCHANGED attempts

LEMMA ClearForgets ==
    ASSUME BrokerInv, WB!ShutdownClear
    PROVE  BrokerInv' /\ Forgets(records) /\ phase' = "stopped" /\ phase # "stopped"
<1>1. /\ records' = {} /\ lease' = [w \in Work |-> "none"] /\ Forgets(records)
      /\ UNCHANGED <<generation, activated, op>> /\ phase' = "stopped" /\ phase # "stopped"
    BY DEF WB!ShutdownClear, WB!Forget, Forgets, WB!lockVars
<1>. QED BY <1>1 DEF Forgets, BrokerInv, BrokerTyped, InFlight, Recorded, WB!Fates, WB!At

LEMMA CrashForgets ==
    ASSUME BrokerInv, WB!Crash
    PROVE  BrokerInv' /\ Forgets(records \cup {w \in Work : fate[w] = "admitting"})
<1>1. /\ records' = {} /\ lease' = [w \in Work |-> "none"]
      /\ Forgets(records \cup {w \in Work : fate[w] = "admitting"})
      /\ UNCHANGED <<generation, activated>> /\ op' = [p \in Pools |-> WB!Free]
    BY DEF WB!Crash, WB!Forget, Forgets
<1>2. BrokerTyped'
    BY <1>1 DEF Forgets, BrokerInv, BrokerTyped, WB!Fates, WB!Free, WB!Steps
<1>3. InFlight'
    BY <1>1, IngestGatewayAssumption DEF InFlight, Enqueuing, WB!At, WB!Free
<1>4. ASSUME NEW w \in Work PROVE Recorded(w)'
    BY <1>1 DEF Forgets, BrokerInv, BrokerTyped, Recorded
<1>. QED BY <1>1, <1>2, <1>3, <1>4 DEF BrokerInv

-----------------------------------------------------------------------------
(* The tracker's part of the invariant.                                    *)

\* A job lists the documents it still has, and no document of another job.
TrackInv ==
    /\ documents \subseteq Work /\ aged \subseteq Jobs
    /\ status \in [Work -> JT!Statuses]
    /\ outcome \in [Work -> {"none", "registered", "replayed", "refused", "error"}]
    /\ documentIds \in [Jobs -> SUBSET Work]
    /\ \A w \in Work : w \in documents <=> w \in documentIds[JobOf[w]]
    /\ \A j \in Jobs : \A d \in documentIds[j] : JobOf[d] = j

\* The moves of what the tracker knows of one document.
Over(w) == w \notin documents \/ status[w] \in JT!DocTerminal
SameOutcome(w) == outcome'[w] = "registered" <=> outcome[w] = "registered"
Fade(w) ==
    /\ Known(w)' => Known(w)
    /\ w \in documents' => w \in documents
    /\ status'[w] = status[w] /\ SameOutcome(w)
Holds(w) == Fade(w) /\ (Known(w) => Known(w)')
Registers(w) ==
    /\ outcome[w] = "none" /\ outcome'[w] = "registered"
    /\ Known(w)' /\ status'[w] = "pending"
Begins(w) ==
    /\ Known(w) /\ Known(w)' /\ SameOutcome(w)
    /\ status[w] = "pending" /\ status'[w] = "processing"
Ends(w, new) ==
    /\ Known(w) /\ Known(w)' /\ SameOutcome(w)
    /\ status[w] \notin JT!DocTerminal /\ status'[w] = new

\* Aged jobs leave with their documents; nobody saw those any more.
Leaves(X) ==
    /\ X \subseteq aged /\ aged' = aged \ X
    /\ documents' = documents \ JT!Dropped(X)
    /\ documentIds' = [j \in Jobs |-> IF j \in X THEN {} ELSE documentIds[j]]

LEMMA LeavesKeeps ==
    ASSUME TrackInv, NEW X, Leaves(X)
    PROVE  /\ documents' \subseteq Work /\ aged' \subseteq Jobs
           /\ documentIds' \in [Jobs -> SUBSET Work]
           /\ \A w \in Work : w \in documents' <=> w \in documentIds'[JobOf[w]]
           /\ \A j \in Jobs : \A d \in documentIds'[j] : JobOf[d] = j
           /\ \A w \in documents : w \in documents' <=> JobOf[w] \notin X
           /\ \A w \in Work : Known(w)' <=> Known(w)
<1>1. \A w \in documents : w \in documents' <=> JobOf[w] \notin X
    BY DEF Leaves, JT!Dropped, TrackInv
<1>2. documents' \subseteq documents
    BY DEF Leaves
<1>3. \A w \in Work : Known(w)' <=> Known(w)
    BY <1>1, <1>2 DEF Leaves, Known
<1>. QED BY <1>1, <1>2, <1>3, IngestGatewayAssumption DEF TrackInv, Leaves

LEMMA DropLeaves ==
    ASSUME TrackInv, NEW X, X \subseteq aged, JT!Drop(X), UNCHANGED status,
           \A w \in Work : SameOutcome(w), outcome' \in [Work -> {"none", "registered", "replayed", "refused", "error"}]
    PROVE  TrackInv' /\ \A w \in Work : Holds(w)
<1>1. Leaves(X)
    BY DEF JT!Drop, JT!ForgetAggregates, Leaves
<1>. QED BY <1>1, LeavesKeeps DEF TrackInv, Holds, Fade, Leaves

LEMMA TrackerSame ==
    ASSUME TrackInv, UNCHANGED <<documents, status, documentIds, aged, outcome>>
    PROVE  TrackInv' /\ (\A w \in Work : Holds(w)) /\ (\A w \in Work : Known(w)' <=> Known(w))
BY DEF TrackInv, Holds, Fade, SameOutcome, Known

LEMMA JobRegisters ==
    ASSUME TrackInv, NEW j \in Jobs, JT!RegisterJob(j)
    PROVE  TrackInv' /\ \A w \in Work : Holds(w)
<1>1. Leaves(aged) /\ UNCHANGED <<status, outcome>>
    BY DEF JT!RegisterJob, JT!ForgetAggregates, Leaves
<1>. QED BY <1>1, LeavesKeeps DEF TrackInv, Holds, Fade, SameOutcome, Leaves

LEMMA UploadRefused ==
    ASSUME TrackInv, NEW w \in Work,
           JT!NoJobForDocument(w) \/ JT!ReplayDocument(w) \/ JT!RefuseDocument(w)
    PROVE  TrackInv' /\ \A v \in Work : Holds(v)
<1>1. ASSUME NEW how \in {"refused", "error", "replayed"}, JT!Answer(w, how)
      PROVE  /\ \A v \in Work : SameOutcome(v)
             /\ outcome' \in [Work -> {"none", "registered", "replayed", "refused", "error"}]
    BY <1>1 DEF JT!Answer, SameOutcome, TrackInv
<1>2. CASE JT!NoJobForDocument(w)
    <2>1. JT!Drop({JobOf[w]} \cap aged) /\ UNCHANGED status /\ JT!Answer(w, "refused")
        BY <1>2 DEF JT!NoJobForDocument
    <2>. QED BY <1>1, <2>1, DropLeaves
<1>3. CASE JT!ReplayDocument(w) \/ JT!RefuseDocument(w)
    <2>1. /\ \E how \in {"refused", "error", "replayed"} : JT!Answer(w, how)
          /\ UNCHANGED <<documents, status, documentIds, aged>>
        BY <1>3 DEF JT!ReplayDocument, JT!RefuseDocument, JT!aggVars, JT!mapVars
    <2>. QED BY <1>1, <2>1 DEF TrackInv, Holds, Fade, Known
<1>. QED BY <1>2, <1>3

LEMMA DocumentRegisters ==
    ASSUME TrackInv, NEW w \in Work, JT!RegisterDocument(w)
    PROVE  TrackInv' /\ Registers(w) /\ \A v \in Work \ {w} : Fade(v)
<1>. DEFINE X == JT!Evicted
            rest == documents \ JT!Dropped(X)
<1>0. JobOf \in [Work -> Jobs]
    BY IngestGatewayAssumption
<1>1. /\ JobOf[w] \notin aged /\ X \subseteq aged /\ aged' = aged \ X
      /\ outcome[w] = "none" /\ outcome' = [outcome EXCEPT ![w] = "registered"]
      /\ status' = [status EXCEPT ![w] = "pending"]
      /\ documents' = rest \cup {w}
      /\ documentIds' = [i \in Jobs |-> IF i \in X THEN {} ELSE IF i = JobOf[w] THEN documentIds[JobOf[w]] \cup {w}
                                        ELSE documentIds[i]]
    BY DEF JT!RegisterDocument, JT!Live, JT!Answer, JT!Evicted
<1>2. \A v \in documents : v \in rest <=> JobOf[v] \notin X
    BY <1>1 DEF JT!Dropped, TrackInv
<1>. HIDE DEF X
<1>3. TrackInv'
    BY <1>0, <1>1, <1>2 DEF TrackInv, JT!Statuses
<1>4. Registers(w)
    BY <1>1 DEF Registers, Known, TrackInv
<1>5. ASSUME NEW v \in Work \ {w} PROVE Fade(v)
    BY <1>1, <1>2 DEF Fade, Known, TrackInv, SameOutcome
<1>. QED BY <1>3, <1>4, <1>5

LEMMA DocumentBegins ==
    ASSUME TrackInv, NEW w \in Work, Begun(w)
    PROVE  /\ TrackInv'
           /\ Begins(w) \/ (Holds(w) /\ (w \in documents' => status[w] # "pending"))
           /\ \A v \in Work \ {w} : Holds(v)
<1>1. CASE w \in documents /\ JobOf[w] \in aged
    <2>1. JT!Drop({JobOf[w]}) /\ UNCHANGED <<status, outcome>>
        BY <1>1 DEF Begun, JT!MarkProcessing
    <2>2. Leaves({JobOf[w]})
        BY <1>1, <2>1 DEF JT!Drop, JT!ForgetAggregates, Leaves
    <2>3. w \notin documents'
        BY <1>1, <2>2, LeavesKeeps
    <2>. QED BY <1>1, <2>1, <2>3, DropLeaves DEF SameOutcome, TrackInv
<1>2. CASE w \in documents /\ JobOf[w] \notin aged /\ status[w] = "pending"
    <2>1. /\ status' = [status EXCEPT ![w] = "processing"]
          /\ UNCHANGED <<documents, documentIds, aged, outcome>>
        BY <1>2 DEF Begun, JT!MarkProcessing, JT!mapVars
    <2>. QED BY <1>2, <2>1 DEF TrackInv, JT!Statuses, Begins, Holds, Fade, Known, SameOutcome
<1>3. CASE ~(w \in documents /\ (JobOf[w] \in aged \/ status[w] = "pending"))
    <2>1. UNCHANGED <<documents, status, documentIds, aged, outcome>>
        BY <1>3 DEF Begun, trackerVars
    <2>. QED BY <1>3, <2>1, TrackerSame
<1>. QED BY <1>1, <1>2, <1>3

LEMMA RollsBack ==
    ASSUME TrackInv, NEW w \in Work, RollBack(w)
    PROVE  /\ TrackInv' /\ \A v \in Work : Fade(v)
           /\ status[w] = "pending" => w \notin documents'
<1>1. CASE w \in documents /\ status[w] = "pending"
    <2>1. /\ documents' = documents \ {w}
          /\ documentIds' = [documentIds EXCEPT ![JobOf[w]] = @ \ {w}]
          /\ UNCHANGED <<status, aged, outcome>>
        BY <1>1 DEF RollBack, JT!UnregisterPending
    <2>. QED BY <2>1, IngestGatewayAssumption DEF TrackInv, Fade, Known, SameOutcome
<1>2. CASE ~(w \in documents /\ status[w] = "pending")
    <2>1. UNCHANGED <<documents, status, documentIds, aged, outcome>>
        BY <1>2 DEF RollBack, trackerVars
    <2>. QED BY <1>2, <2>1, TrackerSame DEF Holds
<1>. QED BY <1>1, <1>2

\* The documents of D are told how they ended, those that are still there.
LEMMA Marking ==
    ASSUME TrackInv, NEW D, D \subseteq Work, NEW new \in JT!DocTerminal,
           JT!MarkTerminal(D, new) \/ (UNCHANGED trackerVars /\ D \cap documents = {})
    PROVE  /\ TrackInv'
           /\ \A w \in D : Over(w)'
           /\ \A w \in Work : (w \in D /\ Ends(w, new)) \/ Holds(w)
           /\ \A w \in D : Ends(w, new) \/ (Holds(w) /\ (Known(w) => status[w] \in JT!DocTerminal))
<1>1. CASE UNCHANGED trackerVars /\ D \cap documents = {}
    BY <1>1, TrackerSame DEF trackerVars, Over, Known
<1>2. CASE JT!MarkTerminal(D, new)
    <2>. DEFINE X == {JobOf[d] : d \in D \cap documents} \cap aged
                T == JT!Marked(D)
    <2>1. /\ status' = [d \in Work |-> IF d \in T THEN new ELSE status[d]]
          /\ Leaves(X) /\ UNCHANGED outcome
        BY <1>2 DEF JT!MarkTerminal, Leaves
    <2>2. /\ T \subseteq D \cap documents
          /\ \A w \in T : JobOf[w] \notin aged /\ status[w] \notin JT!DocTerminal
          /\ \A w \in D \cap documents : w \in T \/ JobOf[w] \in X \/ status[w] \in JT!DocTerminal
        BY DEF JT!Marked
    <2>. HIDE DEF X, T
    <2>3. TrackInv'
        BY <2>1, LeavesKeeps DEF TrackInv, JT!DocTerminal, JT!Statuses
    <2>4. documents' \subseteq documents
        BY <2>1 DEF Leaves
    <2>5. ASSUME NEW w \in D PROVE Over(w)'
        BY <2>1, <2>2, <2>4, LeavesKeeps DEF Over
    <2>6. ASSUME NEW w \in T PROVE Ends(w, new)
        BY <2>1, <2>2, LeavesKeeps DEF Ends, Known, SameOutcome
    <2>7. ASSUME NEW w \in Work \ T PROVE Holds(w)
        BY <2>1, <2>4, LeavesKeeps DEF Holds, Fade, SameOutcome
    <2>8. ASSUME NEW w \in D \ T, Known(w) PROVE status[w] \in JT!DocTerminal
        BY <2>1, <2>2, <2>8 DEF Known, Leaves
    <2>. QED BY <2>2, <2>3, <2>5, <2>6, <2>7, <2>8
<1>. QED BY <1>1, <1>2

LEMMA JobAges ==
    ASSUME TrackInv, NEW j \in Jobs, JT!AgeOut(j)
    PROVE  TrackInv' /\ \A w \in Work : Fade(w)
BY DEF JT!AgeOut, JT!aggVars, JT!mapVars, TrackInv, Fade, Known, SameOutcome

LEMMA JobRead ==
    ASSUME TrackInv, NEW X, JT!Read(X)
    PROVE  TrackInv' /\ \A w \in Work : Holds(w)
BY DropLeaves DEF JT!Read, SameOutcome, TrackInv

LEMMA TrackerRestarts ==
    ASSUME TrackInv, JT!Restart
    PROVE  TrackInv' /\ documents' = {} /\ \A w \in Work : Fade(w)
BY IngestGatewayAssumption DEF JT!Restart, TrackInv, Fade, Known, SameOutcome

-----------------------------------------------------------------------------
(* The participants' part of the invariant.                                *)

Ats == {"idle", "claiming", "fetching", "running", "completed", "failed"}
Stages == {"look", "copy", "ack", "unlink"}

WorkersTyped ==
    /\ worker \in [Claimers -> [at : Ats, work : Work \cup {NoWork}, gen : Nat]]
    /\ \A c \in Claimers :
         worker[c].at \in {"fetching", "running", "completed", "failed"} =>
            worker[c].work \in Work /\ worker[c].gen > 0

\* A callback under way is for a delivery that was counted; rows are handed
\* over only where they were asked for, and the lease ends after the document.
CallOk(k) ==
    /\ k.from \in Claimers /\ k.work \in Work /\ k.gen > 0 /\ k.gen \in Nat
    /\ attempts[k.work] > 0
    /\ k.stage \in {"look", "copy"} => k.work \in Retain
    /\ k.stage \in {"ack", "unlink"} => Over(k.work)

ParticipantInv ==
    /\ WorkersTyped
    /\ calls \subseteq [from : Claimers, work : Work, gen : Nat, stage : Stages]
    /\ \A k \in calls : CallOk(k)
    /\ uploading \subseteq Work /\ stored \subseteq Retain

-----------------------------------------------------------------------------
(* The invariant of one work, and the moves that keep it.                  *)

WorkInv(w) ==
    /\ fate[w] # "unseen" \/ w \in uploading \/ w \in documents \/ w \in stored
          => outcome[w] = "registered"
    /\ fate[w] = "rejected" => w \notin documents
    /\ fate[w] \in {"acknowledged", "exhausted"} => Over(w)
    /\ fate[w] = "discarded" => w \notin documents \/ phase = "stopped"
    /\ w \in documents => (status[w] = "pending" <=> attempts[w] = 0)
    /\ w \in Retain /\ Known(w) /\ status[w] = "completed" => w \in stored

IInv == BrokerInv /\ TrackInv /\ ParticipantInv /\ \A w \in Work : WorkInv(w)

SameAttempts(w) == attempts'[w] = attempts[w]
SameRows(w) == w \in stored' <=> w \in stored
Counts(w) == attempts[w] < MaxDeliveryAttempts /\ attempts'[w] = attempts[w] + 1

FateMove(w) ==
    \/ fate'[w] = fate[w]
    \/ fate[w] = "unseen" /\ fate'[w] = "admitting" /\ outcome[w] = "registered"
    \/ fate[w] = "admitting" /\ fate'[w] = "admitted"
    \/ fate[w] = "admitting" /\ fate'[w] = "rejected" /\ w \notin documents'
    \/ fate[w] = "admitted" /\ fate'[w] \in {"acknowledged", "exhausted"} /\ Over(w)'
    \/ /\ fate[w] \in {"admitting", "admitted"} /\ fate'[w] = "discarded"
       /\ w \notin documents' \/ phase' = "stopped"

Fades(w) == Fade(w) /\ SameAttempts(w) /\ SameRows(w)
Enters(w) == Registers(w) /\ SameAttempts(w) /\ SameRows(w)
Delivered(w) ==
    /\ Counts(w) /\ SameRows(w) /\ fate[w] = "admitted"
    /\ Begins(w) \/ (Holds(w) /\ (w \in documents' => status[w] # "pending"))
Finishes(w) ==
    /\ attempts[w] > 0 /\ SameAttempts(w)
    /\ \/ Ends(w, "failed") /\ SameRows(w)
       \/ Ends(w, "completed") /\ (w \in stored' <=> w \in Retain)
RowsKept(w) ==
    /\ Holds(w) /\ (Known(w) => status[w] \in JT!DocTerminal)
    /\ attempts[w] > 0 /\ SameAttempts(w) /\ w \in Retain /\ w \in stored'
RowsExpired(w) == Holds(w) /\ ~Known(w) /\ SameAttempts(w) /\ w \notin stored'

ViewMove(w) ==
    Fades(w) \/ Enters(w) \/ Delivered(w) \/ Finishes(w) \/ RowsKept(w) \/ RowsExpired(w)

\* A stopped gateway stays stopped until the next process, which knows nothing.
PhaseMove == phase = "stopped" => phase' = "stopped" \/ documents' = {}
UploadMove(w) == w \in uploading' => w \in uploading \/ outcome'[w] = "registered"

Moves == PhaseMove /\ \A w \in Work : FateMove(w) /\ ViewMove(w) /\ UploadMove(w)

LEMMA MovesKeep ==
    ASSUME IInv, Moves, BrokerInv', TrackInv', NEW w \in Work
    PROVE  WorkInv(w)'
<1>. USE DEF JT!DocTerminal
<1>1. /\ FateMove(w) /\ ViewMove(w) /\ UploadMove(w) /\ PhaseMove /\ WorkInv(w) /\ Recorded(w)
      /\ attempts[w] \in Nat
    BY DEF Moves, IInv, BrokerInv, BrokerTyped
<1>2. /\ outcome[w] = "registered" => outcome'[w] = "registered"
      /\ w \in documents' => w \in documents \/ Registers(w)
      /\ ~Registers(w) => SameOutcome(w)
    BY <1>1 DEF ViewMove, Fades, Enters, Delivered, Finishes, RowsKept, RowsExpired,
                Holds, Fade, Registers, Begins, Ends, SameOutcome, Known
<1>3. Registers(w) => /\ fate[w] = "unseen" /\ w \notin uploading /\ w \notin documents
                      /\ fate'[w] = "unseen" /\ attempts[w] = 0
    BY <1>1 DEF WorkInv, Recorded, Registers, FateMove
<1>4. fate'[w] # "unseen" \/ w \in uploading' \/ w \in documents' \/ w \in stored'
          => outcome'[w] = "registered"
    <2>1. fate'[w] # "unseen" \/ w \in uploading' \/ w \in documents' => outcome'[w] = "registered"
        BY <1>1, <1>2 DEF WorkInv, FateMove, UploadMove, Registers
    <2>2. w \in stored' => w \in stored \/ attempts[w] > 0
        BY <1>1 DEF ViewMove, Fades, Enters, Delivered, Finishes, RowsKept, RowsExpired, SameRows
    <2>3. attempts[w] > 0 => outcome[w] = "registered"
        BY <1>1 DEF WorkInv, Recorded
    <2>. QED BY <1>1, <1>2, <2>1, <2>2, <2>3 DEF WorkInv
<1>5. fate'[w] = "rejected" => w \notin documents'
    BY <1>1, <1>2, <1>3 DEF WorkInv, FateMove
<1>6. Over(w) /\ ~Registers(w) => Over(w)'
    BY <1>1 DEF ViewMove, Fades, Enters, Delivered, Finishes, RowsKept, RowsExpired,
                Over, Holds, Fade, Begins, Ends, Known
<1>7. fate'[w] \in {"acknowledged", "exhausted"} => Over(w)'
    BY <1>1, <1>3, <1>6 DEF WorkInv, FateMove
<1>8. fate'[w] = "discarded" => w \notin documents' \/ phase' = "stopped"
    BY <1>1, <1>2, <1>3 DEF WorkInv, FateMove, PhaseMove
<1>9. w \in documents' => (status'[w] = "pending" <=> attempts'[w] = 0)
    <2>1. CASE Fades(w) \/ RowsKept(w) \/ RowsExpired(w)
        BY <1>1, <2>1 DEF WorkInv, Fades, RowsKept, RowsExpired, Holds, Fade, SameAttempts
    <2>2. CASE Enters(w)
        BY <1>3, <2>2 DEF Enters, Registers, SameAttempts
    <2>3. CASE Delivered(w)
        BY <1>1, <2>3 DEF Delivered, Counts, Begins, Holds, Fade
    <2>4. CASE Finishes(w)
        BY <1>1, <2>4 DEF Finishes, Ends, SameAttempts
    <2>. QED BY <1>1, <2>1, <2>2, <2>3, <2>4 DEF ViewMove
<1>10. w \in Retain /\ Known(w)' /\ status'[w] = "completed" => w \in stored'
    <2>1. CASE Fades(w) \/ RowsKept(w) \/ RowsExpired(w)
        BY <1>1, <2>1 DEF WorkInv, Fades, RowsKept, RowsExpired, Holds, Fade, SameRows
    <2>2. CASE Enters(w)
        BY <2>2 DEF Enters, Registers
    <2>3. CASE Delivered(w)
        BY <1>1, <2>3 DEF WorkInv, Delivered, Begins, Holds, Fade, SameRows
    <2>4. CASE Finishes(w)
        BY <1>1, <2>4 DEF Finishes, Ends
    <2>. QED BY <1>1, <2>1, <2>2, <2>3, <2>4 DEF ViewMove
<1>. QED BY <1>4, <1>5, <1>7, <1>8, <1>9, <1>10 DEF WorkInv

\* What a delivery has settled stays settled.
LEMMA OverStays ==
    ASSUME IInv, BrokerInv', NEW w \in Work, ViewMove(w), attempts[w] > 0
    PROVE  attempts'[w] > 0 /\ (Over(w) => Over(w)')
<1>1. WorkInv(w) /\ Recorded(w) /\ attempts[w] \in Nat /\ outcome[w] = "registered"
    BY DEF IInv, BrokerInv, BrokerTyped, WorkInv, Recorded
<1>. QED BY <1>1 DEF ViewMove, Fades, Enters, Delivered, Finishes, RowsKept, RowsExpired, SameAttempts,
                     Counts, Over, Holds, Fade, Registers, Begins, Ends, Known, JT!DocTerminal

\* A step that starts no callback and moves no worker keeps the participants' part.
LEMMA CallsKeep ==
    ASSUME IInv, BrokerInv', \A w \in Work : ViewMove(w), NEW k \in calls
    PROVE  CallOk(k)'
<1>1. CallOk(k)
    BY DEF IInv, ParticipantInv
<1>2. attempts'[k.work] > 0 /\ (Over(k.work) => Over(k.work)')
    BY <1>1, OverStays DEF CallOk
<1>. QED BY <1>1, <1>2 DEF CallOk

LEMMA WorkInvInit == Init => IInv
<1>1. ASSUME Init PROVE TrackInv
    BY <1>1, IngestGatewayAssumption DEF Init, JT!Init, TrackInv, JT!Statuses
<1>2. ASSUME Init PROVE ParticipantInv
    BY <1>2 DEF Init, ParticipantInv, WorkersTyped, Idle, Ats
<1>3. ASSUME Init, NEW w \in Work PROVE WorkInv(w)
    BY <1>3 DEF Init, JT!Init, WB!Init, WorkInv
<1>. QED BY <1>1, <1>2, <1>3, BrokerInit DEF Init, IInv

-----------------------------------------------------------------------------
(* What the steps have in common.                                          *)

\* The parts of a step, put together.
LEMMA StepOf ==
    ASSUME IInv, BrokerInv', TrackInv', WorkersTyped', PhaseMove,
           \A w \in Work : FateMove(w) /\ ViewMove(w) /\ UploadMove(w),
           uploading' \subseteq Work, stored' \subseteq Retain,
           \A k \in calls' : k \in calls \/ (/\ k \in [from : Claimers, work : Work, gen : Nat, stage : Stages]
                                             /\ CallOk(k)')
    PROVE  IInv' /\ Moves
<1>1. Moves
    BY DEF Moves
<1>2. \A w \in Work : WorkInv(w)'
    BY <1>1, MovesKeep
<1>3. \A k \in calls' : CallOk(k)'
    BY CallsKeep
<1>4. ParticipantInv'
    BY <1>3 DEF ParticipantInv, IInv
<1>. QED BY <1>1, <1>2, <1>4 DEF IInv

\* What a worker does next.
LEMMA WorkerSteps ==
    ASSUME WorkersTyped, NEW c \in Claimers,
           \/ UNCHANGED worker \/ GoIdle(c)
           \/ \E at \in Ats : /\ Become(c, at)
                              /\ \/ worker[c].at \in {"fetching", "running", "completed", "failed"}
                                 \/ at \in {"idle", "claiming"}
    PROVE  WorkersTyped'
<1>1. CASE UNCHANGED worker
    BY <1>1 DEF WorkersTyped
<1>2. CASE GoIdle(c)
    BY <1>2 DEF WorkersTyped, GoIdle, Idle, Ats
<1>3. ASSUME NEW at \in Ats, Become(c, at),
             \/ worker[c].at \in {"fetching", "running", "completed", "failed"}
             \/ at \in {"idle", "claiming"}
      PROVE  WorkersTyped'
    <2>1. worker'[c] = [worker[c] EXCEPT !.at = at]
        BY <1>3 DEF Become, WorkersTyped
    <2>2. \A d \in Claimers : d # c => worker'[d] = worker[d]
        BY <1>3 DEF Become, WorkersTyped
    <2>3. worker' \in [Claimers -> [at : Ats, work : Work \cup {NoWork}, gen : Nat]]
        BY <1>3, <2>1 DEF Become, WorkersTyped
    <2>4. worker'[c].work = worker[c].work /\ worker'[c].gen = worker[c].gen /\ worker'[c].at = at
        BY <1>3, <2>1 DEF WorkersTyped
    <2>. QED BY <1>3, <2>2, <2>3, <2>4 DEF WorkersTyped
<1>. QED BY <1>1, <1>2, <1>3

\* The tracker and the rows stand still, and no delivery is counted.
LEMMA ViewSame ==
    ASSUME IInv, UNCHANGED <<trackerVars, attempts, stored>>
    PROVE  TrackInv' /\ (\A w \in Work : Fades(w)) /\ (\A w \in Work : Over(w)' <=> Over(w))
           /\ documents' = documents
<1>1. UNCHANGED <<documents, status, documentIds, aged, outcome>>
    BY DEF trackerVars
<1>. QED BY <1>1, TrackerSame DEF IInv, Fades, Holds, SameAttempts, SameRows, Over

LEMMA BrokerStill ==
    ASSUME IInv, UNCHANGED brokerVars
    PROVE  BrokerInv' /\ UNCHANGED <<fate, attempts, phase>>
BY BrokerSame DEF brokerVars, IInv

LEMMA WorkersSame == ASSUME IInv, UNCHANGED worker PROVE WorkersTyped'
BY DEF IInv, ParticipantInv, WorkersTyped

\* Steps that end no delivery and count none, and that the tracker does not notice.
LEMMA QuietSteps ==
    ASSUME IInv, BrokerInv', WorkersTyped', calls' \subseteq calls,
           UNCHANGED <<fate, attempts, trackerVars, uploading, stored>>,
           phase = "stopped" => phase' = "stopped" \/ documents' = {}
    PROVE  IInv' /\ Moves
<1>1. TrackInv' /\ \A w \in Work : ViewMove(w) /\ FateMove(w) /\ UploadMove(w)
    BY ViewSame DEF ViewMove, FateMove, UploadMove
<1>2. uploading' \subseteq Work /\ stored' \subseteq Retain
    BY DEF IInv, ParticipantInv
<1>. QED BY <1>1, <1>2, StepOf DEF PhaseMove

\* Steps of the workers and callback handlers alone.
LEMMA WorkerAlone ==
    ASSUME IInv, WorkersTyped', calls' \subseteq calls, UNCHANGED <<brokerVars, trackerVars, uploading, stored>>
    PROVE  IInv' /\ Moves
BY BrokerStill, QuietSteps

-----------------------------------------------------------------------------
(* Uploads.                                                                *)

\* Steps of the tracker alone.
LEMMA TrackerSteps ==
    ASSUME IInv, TrackInv', \A w \in Work : Fade(w), UNCHANGED <<brokerVars, workerVars, gatewayVars>>
    PROVE  IInv' /\ Moves
<1>1. BrokerInv' /\ UNCHANGED <<fate, attempts, phase, stored, calls, uploading, worker>>
    BY BrokerStill DEF workerVars, gatewayVars
<1>2. \A w \in Work : ViewMove(w) /\ FateMove(w) /\ UploadMove(w)
    BY <1>1 DEF ViewMove, FateMove, UploadMove, Fades, SameAttempts, SameRows
<1>3. WorkersTyped' /\ uploading' \subseteq Work /\ stored' \subseteq Retain
    BY <1>1 DEF WorkersTyped, IInv, ParticipantInv
<1>. QED BY <1>1, <1>2, <1>3, StepOf DEF PhaseMove

LEMMA CreateJobStep == ASSUME IInv, NEW j \in Jobs, CreateJob(j) PROVE IInv' /\ Moves
BY JobRegisters, TrackerSteps DEF CreateJob, IInv, Holds

LEMMA AgeOutStep == ASSUME IInv, NEW j \in Jobs, AgeOut(j) PROVE IInv' /\ Moves
BY JobAges, TrackerSteps DEF AgeOut, IInv

LEMMA ReadStep == ASSUME IInv, NEW X, Read(X) PROVE IInv' /\ Moves
BY JobRead, TrackerSteps DEF Read, IInv, Holds

LEMMA UploadStepKeeps == ASSUME IInv, NEW w \in Work, Upload(w) PROVE IInv' /\ Moves
<1>1. CASE JT!RegisterDocument(w) /\ uploading' = uploading \cup {w}
    <2>1. BrokerInv' /\ UNCHANGED <<fate, attempts, phase, stored, calls, worker>>
        BY BrokerStill DEF Upload, workerVars
    <2>2. TrackInv' /\ Registers(w) /\ \A v \in Work \ {w} : Fade(v)
        BY <1>1, DocumentRegisters DEF IInv
    <2>3. \A v \in Work : ViewMove(v) /\ FateMove(v) /\ UploadMove(v)
        BY <1>1, <2>1, <2>2
        DEF ViewMove, FateMove, UploadMove, Fades, Enters, Registers, SameAttempts, SameRows
    <2>4. WorkersTyped' /\ uploading' \subseteq Work /\ stored' \subseteq Retain
        BY <1>1, <2>1 DEF WorkersTyped, IInv, ParticipantInv
    <2>. QED BY <2>1, <2>2, <2>3, <2>4, StepOf DEF PhaseMove
<1>2. CASE (JT!NoJobForDocument(w) \/ JT!ReplayDocument(w) \/ JT!RefuseDocument(w)) /\ UNCHANGED uploading
    BY <1>2, UploadRefused, TrackerSteps DEF Upload, IInv, Holds, gatewayVars
<1>. QED BY <1>1, <1>2 DEF Upload

LEMMA EnqueueStartStep == ASSUME IInv, NEW w \in Work, EnqueueStart(w) PROVE IInv' /\ Moves
<1>1. /\ BrokerInv' /\ UNCHANGED <<attempts, phase>>
      /\ fate[w] = "unseen" /\ fate' = [fate EXCEPT ![w] = "admitting"]
    BY EnqueueStarts DEF EnqueueStart, IInv
<1>2. /\ UNCHANGED <<trackerVars, stored, calls, worker>> /\ uploading' = uploading \ {w}
      /\ w \in uploading
    BY DEF EnqueueStart, workerVars
<1>3. TrackInv' /\ \A v \in Work : Fades(v)
    BY <1>1, <1>2, ViewSame
<1>4. \A v \in Work : ViewMove(v) /\ FateMove(v) /\ UploadMove(v)
    BY <1>1, <1>2, <1>3 DEF ViewMove, FateMove, UploadMove, IInv, WorkInv, BrokerInv, BrokerTyped
<1>5. WorkersTyped' /\ uploading' \subseteq Work /\ stored' \subseteq Retain
    BY <1>2 DEF WorkersTyped, IInv, ParticipantInv
<1>. QED BY <1>1, <1>2, <1>3, <1>4, <1>5, StepOf DEF PhaseMove

LEMMA EnqueueProceedsStep == ASSUME IInv, NEW w \in Work, EnqueueProceeds(w) PROVE IInv' /\ Moves
<1>1. /\ BrokerInv' /\ UNCHANGED <<attempts, phase>>
      /\ \/ UNCHANGED fate
         \/ fate[w] = "admitting" /\ fate' = [fate EXCEPT ![w] = "admitted"]
    BY EnqueueSteps DEF EnqueueProceeds, IInv
<1>2. UNCHANGED <<trackerVars, stored, calls, uploading, worker>>
    BY DEF EnqueueProceeds, workerVars, gatewayVars
<1>3. TrackInv' /\ \A v \in Work : Fades(v)
    BY <1>1, <1>2, ViewSame
<1>4. \A v \in Work : ViewMove(v) /\ FateMove(v) /\ UploadMove(v)
    BY <1>1, <1>2, <1>3 DEF ViewMove, FateMove, UploadMove, IInv, BrokerInv, BrokerTyped
<1>5. WorkersTyped' /\ uploading' \subseteq Work /\ stored' \subseteq Retain
    BY <1>2 DEF WorkersTyped, IInv, ParticipantInv
<1>. QED BY <1>1, <1>2, <1>3, <1>4, <1>5, StepOf DEF PhaseMove

\* The document of a failed admission was not delivered, so it is still pending.
LEMMA EnqueueRefusedStep == ASSUME IInv, NEW w \in Work, EnqueueRefused(w) PROVE IInv' /\ Moves
<1>1. /\ BrokerInv' /\ UNCHANGED <<attempts, phase>>
      /\ fate[w] = "admitting" /\ fate' = [fate EXCEPT ![w] = "rejected"]
    BY EnqueueEnds DEF EnqueueRefused, IInv
<1>2. UNCHANGED <<stored, calls, uploading, worker>>
    BY DEF EnqueueRefused, workerVars, gatewayVars
<1>3. /\ TrackInv' /\ \A v \in Work : Fade(v)
      /\ status[w] = "pending" => w \notin documents'
    BY RollsBack DEF EnqueueRefused, IInv
<1>4. w \notin documents'
    BY <1>1, <1>3 DEF IInv, BrokerInv, Recorded, WorkInv, Fade
<1>5. \A v \in Work : ViewMove(v) /\ FateMove(v) /\ UploadMove(v)
    BY <1>1, <1>2, <1>3, <1>4
    DEF ViewMove, FateMove, UploadMove, Fades, SameAttempts, SameRows, IInv, BrokerInv, BrokerTyped
<1>6. WorkersTyped' /\ uploading' \subseteq Work /\ stored' \subseteq Retain
    BY <1>2 DEF WorkersTyped, IInv, ParticipantInv
<1>. QED BY <1>1, <1>2, <1>3, <1>5, <1>6, StepOf DEF PhaseMove

-----------------------------------------------------------------------------
(* Deliveries that end in the broker, and the worker's steps.              *)

\* An exhausted work was delivered, so its document had begun and now fails.
LEMMA Exhausts ==
    ASSUME IInv, NEW D, Returns(D), Exhaust(WB!Spent(D)), UNCHANGED stored
    PROVE  TrackInv' /\ \A w \in Work : FateMove(w) /\ ViewMove(w)
<1>. DEFINE X == WB!Spent(D)
<1>1. X \subseteq records /\ records \subseteq Work /\ \A w \in X : attempts[w] >= MaxDeliveryAttempts
    BY DEF Returns, WB!Spent, IInv, BrokerInv, BrokerTyped
<1>2. \A w \in X : attempts[w] > 0 /\ fate[w] = "admitted"
    BY <1>1, IngestGatewayAssumption DEF IInv, BrokerInv, BrokerTyped, Recorded
<1>3. JT!MarkTerminal(X, "failed") \/ (UNCHANGED trackerVars /\ X \cap documents = {})
    BY DEF Exhaust
<1>4. "failed" \in JT!DocTerminal
    BY DEF JT!DocTerminal
<1>5. fate' = [w \in Work |-> IF w \in X THEN "exhausted" ELSE fate[w]] /\ UNCHANGED attempts
    BY DEF Returns
<1>. HIDE DEF X
<1>6. /\ TrackInv' /\ \A w \in X : Over(w)'
      /\ \A w \in Work : (w \in X /\ Ends(w, "failed")) \/ Holds(w)
    BY <1>1, <1>3, <1>4, Marking DEF IInv
<1>7. \A w \in Work : FateMove(w)
    BY <1>2, <1>5, <1>6 DEF FateMove
<1>8. \A w \in Work : ViewMove(w)
    BY <1>2, <1>5, <1>6 DEF ViewMove, Finishes, Fades, Holds, SameAttempts, SameRows
<1>. QED BY <1>6, <1>7, <1>8

\* ... and what the worker does is its own.
LEMMA ReturnSteps ==
    ASSUME IInv, BrokerInv', NEW D, Returns(D), Exhaust(WB!Spent(D)), WorkersTyped',
           UNCHANGED <<phase, gatewayVars>>
    PROVE  IInv' /\ Moves
<1>1. UNCHANGED <<stored, uploading, calls>>
    BY DEF gatewayVars
<1>2. TrackInv' /\ \A w \in Work : FateMove(w) /\ ViewMove(w) /\ UploadMove(w)
    BY <1>1, Exhausts DEF UploadMove
<1>3. uploading' \subseteq Work /\ stored' \subseteq Retain
    BY <1>1 DEF IInv, ParticipantInv
<1>. QED BY <1>1, <1>2, <1>3, StepOf DEF PhaseMove

LEMMA SweepStep == ASSUME IInv, NEW p \in Pools, Sweep(p) PROVE IInv' /\ Moves
<1>1. BrokerInv' /\ Returns(WB!Due(p)) /\ UNCHANGED phase
    BY SweepReturns DEF Sweep, IInv
<1>2. WorkersTyped'
    BY WorkersSame DEF Sweep, workerVars
<1>. QED BY <1>1, <1>2, ReturnSteps DEF Sweep

LEMMA LeaseDueStep == ASSUME IInv, NEW w \in Work, LeaseDue(w) PROVE IInv' /\ Moves
<1>1. BrokerInv' /\ UNCHANGED <<fate, attempts>>
    BY QuietBroker DEF LeaseDue, IInv
<1>2. UNCHANGED phase
    BY DEF LeaseDue, WB!LeaseDue, WB!phaseVars
<1>. QED BY <1>1, <1>2, QuietSteps, WorkersSame DEF LeaseDue, workerVars, gatewayVars

LEMMA ClaimWaitStep == ASSUME IInv, NEW c \in Claimers, ClaimWait(c) PROVE IInv' /\ Moves
<1>1. BrokerInv' /\ Returns(WB!Due(ClaimsFrom[c])) /\ UNCHANGED phase
    BY WaitReturns DEF ClaimWait, IInv
<1>2. WorkersTyped'
    BY WorkersSame DEF ClaimWait, workerVars
<1>. QED BY <1>1, <1>2, ReturnSteps DEF ClaimWait

LEMMA ClaimGrantStep ==
    ASSUME IInv, NEW c \in Claimers, NEW w \in Work, ClaimGrant(c, w) PROVE IInv' /\ Moves
<1>1. BrokerInv' /\ Returns(WB!Due(ClaimsFrom[c])) /\ UNCHANGED phase
    BY GrantReturns DEF ClaimGrant, IInv
<1>2. generation[w] \in Nat /\ WorkersTyped
    BY DEF IInv, BrokerInv, BrokerTyped, ParticipantInv
<1>3. WorkersTyped'
    <2>1. CASE worker' = [worker EXCEPT ![c] = [at |-> "fetching", work |-> w, gen |-> generation[w] + 1]]
        BY <1>2, <2>1 DEF WorkersTyped, Ats
    <2>2. CASE worker' = [worker EXCEPT ![c] = IF @.at = "claiming" THEN Idle ELSE @]
        BY <1>2, <2>2 DEF WorkersTyped, Ats, Idle
    <2>. QED BY <2>1, <2>2 DEF ClaimGrant
<1>. QED BY <1>1, <1>3, ReturnSteps DEF ClaimGrant

LEMMA FetchFailsStep == ASSUME IInv, NEW c \in Claimers, FetchFails(c) PROVE IInv' /\ Moves
<1>. DEFINE w == worker[c].work  g == worker[c].gen
<1>1. w \in Work /\ WorkersTyped' /\ UNCHANGED gatewayVars
    BY WorkerSteps DEF FetchFails, IInv, ParticipantInv, WorkersTyped
<1>2. CASE (WB!Release(w, g) \/ WB!PayloadMissing(w, g)) /\ Exhaust(WB!Spent({w}))
    <2>1. BrokerInv' /\ Returns({w}) /\ UNCHANGED phase
        BY <1>1, <1>2, ReleaseReturns DEF IInv
    <2>. QED BY <1>1, <1>2, <2>1, ReturnSteps
<1>3. CASE UNCHANGED <<brokerVars, trackerVars>>
    BY <1>1, <1>3, WorkerAlone DEF gatewayVars
<1>. QED BY <1>2, <1>3 DEF FetchFails

LEMMA ClaimCallStep == ASSUME IInv, NEW c \in Claimers, ClaimCall(c) PROVE IInv' /\ Moves
<1>1. BrokerInv' /\ UNCHANGED <<fate, attempts>>
    BY QuietBroker DEF ClaimCall, IInv
<1>2. UNCHANGED phase /\ WorkersTyped'
    BY WorkerSteps DEF ClaimCall, WB!ClaimCall, WB!phaseVars, IInv, ParticipantInv, Ats
<1>. QED BY <1>1, <1>2, QuietSteps DEF ClaimCall, gatewayVars

LEMMA ClaimEmptyStep == ASSUME IInv, NEW c \in Claimers, ClaimEmpty(c) PROVE IInv' /\ Moves
<1>1. BrokerInv' /\ UNCHANGED <<fate, attempts>>
    BY QuietBroker DEF ClaimEmpty, IInv
<1>2. UNCHANGED phase
    BY DEF ClaimEmpty, WB!ClaimTimeout, WB!ClaimStopped, WB!phaseVars
<1>3. WorkersTyped'
    BY DEF ClaimEmpty, IInv, ParticipantInv, WorkersTyped, Idle, Ats
<1>. QED BY <1>1, <1>2, <1>3, QuietSteps DEF ClaimEmpty, gatewayVars

\* The activation that counts the delivery is the one that shows it.
LEMMA ActivateStep == ASSUME IInv, NEW c \in Claimers, Activate(c) PROVE IInv' /\ Moves
<1>. DEFINE w == worker[c].work
<1>1. w \in Work /\ worker[c].gen \in Nat /\ worker[c].gen > 0
    BY DEF Activate, IInv, ParticipantInv, WorkersTyped
<1>2. /\ BrokerInv' /\ UNCHANGED <<fate, phase>>
      /\ fate[w] = "admitted" /\ attempts[w] < MaxDeliveryAttempts
      /\ attempts' = [attempts EXCEPT ![w] = @ + 1]
    BY <1>1, Activates DEF Activate, IInv
<1>3. UNCHANGED <<stored, uploading, calls>> /\ WorkersTyped'
    BY WorkerSteps DEF Activate, gatewayVars, IInv, ParticipantInv, Ats
<1>4. /\ TrackInv'
      /\ Begins(w) \/ (Holds(w) /\ (w \in documents' => status[w] # "pending"))
      /\ \A v \in Work \ {w} : Holds(v)
    <2>1. w \in documents' /\ Holds(w) => w \in documents
        BY DEF Holds, Fade
    <2>. QED BY <1>1, <2>1, DocumentBegins DEF Activate, IInv
<1>5. \A v \in Work : attempts'[v] = IF v = w THEN attempts[v] + 1 ELSE attempts[v]
    BY <1>1, <1>2 DEF IInv, BrokerInv, BrokerTyped
<1>6. Delivered(w) /\ \A v \in Work \ {w} : Fades(v)
    BY <1>1, <1>2, <1>3, <1>4, <1>5 DEF Delivered, Counts, SameRows, Fades, Holds, SameAttempts
<1>7. \A v \in Work : ViewMove(v) /\ FateMove(v) /\ UploadMove(v)
    BY <1>2, <1>3, <1>6 DEF ViewMove, FateMove, UploadMove
<1>8. uploading' \subseteq Work /\ stored' \subseteq Retain
    BY <1>3 DEF IInv, ParticipantInv
<1>. QED BY <1>2, <1>3, <1>4, <1>7, <1>8, StepOf DEF PhaseMove

LEMMA HeartbeatStep == ASSUME IInv, NEW c \in Claimers, Heartbeat(c) PROVE IInv' /\ Moves
<1>1. worker[c].work \in Work /\ worker[c].gen \in Nat
    BY DEF Heartbeat, IInv, ParticipantInv, WorkersTyped
<1>2. BrokerInv' /\ UNCHANGED <<fate, attempts>>
    BY <1>1, QuietBroker DEF Heartbeat, IInv
<1>3. UNCHANGED phase
    BY DEF Heartbeat, WB!Heartbeat, WB!phaseVars
<1>. QED BY <1>2, <1>3, QuietSteps, WorkersSame DEF Heartbeat, workerVars, gatewayVars

LEMMA ExecuteStep == ASSUME IInv, NEW c \in Claimers, Execute(c) PROVE IInv' /\ Moves
<1>1. WorkersTyped'
    BY WorkerSteps DEF Execute, IInv, ParticipantInv, Ats
<1>. QED BY <1>1, WorkerAlone DEF Execute, gatewayVars

LEMMA WorkerLostStep == ASSUME IInv, NEW c \in Claimers, WorkerLost(c) PROVE IInv' /\ Moves
<1>1. WorkersTyped'
    BY WorkerSteps DEF WorkerLost, IInv, ParticipantInv
<1>. QED BY <1>1, WorkerAlone DEF WorkerLost, gatewayVars

-----------------------------------------------------------------------------
(* Callbacks.                                                              *)

\* The document of a counted delivery is marked, with its rows where it has any.
LEMMA Marks ==
    ASSUME IInv, NEW w \in Work, NEW new \in JT!DocTerminal, Mark(w, new), attempts[w] > 0,
           UNCHANGED attempts,
           \/ UNCHANGED stored /\ (new = "completed" => (w \in stored <=> w \in Retain))
           \/ new = "completed" /\ w \in Retain /\ stored' = stored \cup {w}
    PROVE  TrackInv' /\ Over(w)' /\ \A v \in Work : ViewMove(v)
<1>1. JT!MarkTerminal({w}, new) \/ (UNCHANGED trackerVars /\ {w} \cap documents = {})
    BY DEF Mark
<1>2. /\ TrackInv' /\ Over(w)'
      /\ \A v \in Work : v # w => Holds(v)
      /\ Ends(w, new) \/ (Holds(w) /\ (Known(w) => status[w] \in JT!DocTerminal))
    <2>. DEFINE D == {w}
    <2>1. D \subseteq Work /\ TrackInv /\ \A v : v \in D <=> v = w
        BY DEF IInv
    <2>. HIDE DEF D
    <2>2. JT!MarkTerminal(D, new) \/ (UNCHANGED trackerVars /\ D \cap documents = {})
        BY <1>1 DEF D
    <2>3. /\ TrackInv'
          /\ \A v \in D : Over(v)'
          /\ \A v \in Work : (v \in D /\ Ends(v, new)) \/ Holds(v)
          /\ \A v \in D : Ends(v, new) \/ (Holds(v) /\ (Known(v) => status[v] \in JT!DocTerminal))
        BY <2>1, <2>2, Marking
    <2>. QED BY <2>1, <2>3
<1>3. \A v \in Work : v # w => Fades(v)
    BY <1>2 DEF Fades, Holds, SameAttempts, SameRows
<1>4. Ends(w, new) => Finishes(w)
    BY DEF Finishes, SameAttempts, SameRows, JT!DocTerminal
<1>5. Holds(w) /\ (Known(w) => status[w] \in JT!DocTerminal) => Fades(w) \/ RowsKept(w)
    BY DEF Fades, RowsKept, Holds, SameAttempts, SameRows
<1>. QED BY <1>2, <1>3, <1>4, <1>5 DEF ViewMove

\* The parts of a callback's step that every one of them shares.
LEMMA CallSteps ==
    ASSUME IInv, UNCHANGED <<brokerVars, uploading>>, WorkersTyped', TrackInv', stored' \subseteq Retain,
           \A w \in Work : ViewMove(w),
           \A k \in calls' : k \in calls \/ (/\ k \in [from : Claimers, work : Work, gen : Nat, stage : Stages]
                                             /\ CallOk(k)')
    PROVE  IInv' /\ Moves
<1>1. BrokerInv' /\ UNCHANGED <<fate, attempts, phase>>
    BY BrokerStill
<1>2. \A w \in Work : FateMove(w) /\ UploadMove(w)
    BY <1>1 DEF FateMove, UploadMove
<1>3. uploading' \subseteq Work
    BY DEF IInv, ParticipantInv
<1>. QED BY <1>1, <1>2, <1>3, StepOf DEF PhaseMove

LEMMA CallbackArrivesStep == ASSUME IInv, NEW c \in Claimers, CallbackArrives(c) PROVE IInv' /\ Moves
<1>. DEFINE w == worker[c].work
<1>1. w \in Work /\ worker[c].gen \in Nat /\ worker[c].gen > 0
    BY DEF CallbackArrives, Reporting, IInv, ParticipantInv, WorkersTyped
<1>2. attempts[w] > 0
    BY <1>1 DEF CallbackArrives, WB!CallbackValid, IInv, BrokerInv, Recorded
<1>3. UNCHANGED <<attempts, worker, stored, brokerVars, uploading>>
    BY DEF CallbackArrives, brokerVars, workerVars
<1>4. WorkersTyped' /\ stored' \subseteq Retain
    BY <1>3, WorkersSame DEF IInv, ParticipantInv
<1>5. \A stage \in Stages : Call(c, stage) \in [from : Claimers, work : Work, gen : Nat, stage : Stages]
    BY <1>1 DEF Call
<1>6. CASE /\ Handoff(w) /\ calls' = calls \cup {Call(c, "look")} /\ UNCHANGED trackerVars
    <2>1. TrackInv' /\ \A v \in Work : ViewMove(v)
        BY <1>3, <1>6, ViewSame DEF ViewMove
    <2>2. ASSUME NEW k, k = Call(c, "look") PROVE CallOk(k)'
        BY <2>2, <1>1, <1>2, <1>3, <1>6 DEF CallOk, Call, Handoff
    <2>9. /\ Call(c, "look") \in [from : Claimers, work : Work, gen : Nat, stage : Stages]
          /\ calls' = calls \cup {Call(c, "look")}
        BY <1>5, <1>6 DEF Stages
    <2>. QED BY <1>3, <1>4, <2>9, <2>1, <2>2, CallSteps
<1>7. CASE /\ worker[c].at = "completed" => ~Handoff(w)
           /\ calls' = calls \cup {Call(c, "ack")} /\ Mark(w, worker[c].at)
    <2>1. worker[c].at \in JT!DocTerminal
        BY DEF CallbackArrives, Reporting, JT!DocTerminal
    <2>2. worker[c].at = "completed" => (w \in stored <=> w \in Retain)
        BY <1>7 DEF Handoff, IInv, ParticipantInv
    <2>3. TrackInv' /\ Over(w)' /\ \A v \in Work : ViewMove(v)
        BY <1>1, <1>2, <1>3, <1>7, <2>1, <2>2, Marks
    <2>4. ASSUME NEW k, k = Call(c, "ack") PROVE CallOk(k)'
        BY <2>4, <1>1, <1>2, <1>3, <2>3 DEF CallOk, Call
    <2>9. /\ Call(c, "ack") \in [from : Claimers, work : Work, gen : Nat, stage : Stages]
          /\ calls' = calls \cup {Call(c, "ack")}
        BY <1>5, <1>7 DEF Stages
    <2>. QED BY <1>3, <1>4, <2>9, <2>3, <2>4, CallSteps
<1>. QED BY <1>6, <1>7 DEF CallbackArrives

LEMMA CallbackRejectedStep == ASSUME IInv, NEW c \in Claimers, CallbackRejected(c) PROVE IInv' /\ Moves
<1>. DEFINE w == worker[c].work
<1>1. WorkersTyped'
    BY WorkerSteps DEF CallbackRejected, IInv, ParticipantInv
<1>2. UNCHANGED <<stored, attempts, brokerVars, uploading, calls>>
    BY DEF CallbackRejected, brokerVars, gatewayVars
<1>3. TrackInv' /\ \A v \in Work : Holds(v)
    <2>1. CASE UNCHANGED trackerVars
        BY <2>1, TrackerSame DEF trackerVars, IInv
    <2>2. CASE JT!Drop({JobOf[w]} \cap aged) /\ UNCHANGED <<status, outcome>>
        <3>1. outcome' \in [Work -> {"none", "registered", "replayed", "refused", "error"}]
            BY <2>2 DEF IInv, TrackInv
        <3>. QED BY <2>2, <3>1, DropLeaves DEF SameOutcome, IInv
    <2>. QED BY <2>1, <2>2 DEF CallbackRejected
<1>4. \A v \in Work : ViewMove(v)
    BY <1>2, <1>3 DEF ViewMove, Fades, Holds, SameAttempts, SameRows
<1>5. stored' \subseteq Retain
    BY <1>2 DEF IInv, ParticipantInv
<1>. QED BY <1>1, <1>2, <1>3, <1>4, <1>5, CallSteps

\* A callback that has got on to its next stage.
LEMMA MovedCalls ==
    ASSUME IInv, NEW k \in calls, NEW stage \in Stages, Moved(k, stage), UNCHANGED attempts,
           stage \in {"look", "copy"} => k.work \in Retain,
           stage \in {"ack", "unlink"} => Over(k.work)'
    PROVE  \A m \in calls' : m \in calls \/ (/\ m \in [from : Claimers, work : Work, gen : Nat, stage : Stages]
                                             /\ CallOk(m)')
<1>1. k \in [from : Claimers, work : Work, gen : Nat, stage : Stages] /\ CallOk(k)
    BY DEF IInv, ParticipantInv
<1>2. SUFFICES ASSUME NEW m, m = [k EXCEPT !.stage = stage]
               PROVE  m \in [from : Claimers, work : Work, gen : Nat, stage : Stages] /\ CallOk(m)'
    BY DEF Moved
<1>3. /\ m \in [from : Claimers, work : Work, gen : Nat, stage : Stages]
      /\ m.work = k.work /\ m.from = k.from /\ m.gen = k.gen /\ m.stage = stage
    BY <1>1, <1>2
<1>. QED BY <1>1, <1>3 DEF CallOk

LEMMA LookFindsStep == ASSUME IInv, NEW k \in calls, LookFinds(k) PROVE IInv' /\ Moves
<1>1. k.work \in Work /\ attempts[k.work] > 0 /\ k.work \in Retain
    BY DEF LookFinds, IInv, ParticipantInv, CallOk
<1>2. UNCHANGED <<stored, attempts, worker, brokerVars, uploading>>
    BY DEF LookFinds, brokerVars, workerVars
<1>3. TrackInv' /\ Over(k.work)' /\ \A w \in Work : ViewMove(w)
    BY <1>1, <1>2, Marks DEF LookFinds, JT!DocTerminal
<1>4. WorkersTyped' /\ stored' \subseteq Retain
    BY <1>2, WorkersSame DEF IInv, ParticipantInv
<1>. QED BY <1>1, <1>2, <1>3, <1>4, MovedCalls, CallSteps DEF LookFinds, Stages

LEMMA CopyStep == ASSUME IInv, NEW k \in calls, Copy(k) PROVE IInv' /\ Moves
<1>1. k.work \in Work /\ attempts[k.work] > 0 /\ k.work \in Retain
    BY DEF Copy, IInv, ParticipantInv, CallOk
<1>2. UNCHANGED <<attempts, worker, brokerVars, uploading>>
    BY DEF Copy, brokerVars, workerVars
<1>3. TrackInv' /\ Over(k.work)' /\ \A w \in Work : ViewMove(w)
    BY <1>1, <1>2, Marks DEF Copy, JT!DocTerminal
<1>4. WorkersTyped' /\ stored' \subseteq Retain
    BY <1>1, <1>2, WorkersSame DEF Copy, IInv, ParticipantInv
<1>. QED BY <1>1, <1>2, <1>3, <1>4, MovedCalls, CallSteps DEF Copy, Stages

LEMMA LookMissesStep == ASSUME IInv, NEW k \in calls, LookMisses(k) PROVE IInv' /\ Moves
<1>1. k.work \in Retain /\ k.from \in Claimers
    BY DEF LookMisses, IInv, ParticipantInv, CallOk
<1>2. UNCHANGED <<trackerVars, stored, attempts, brokerVars, uploading>>
    BY DEF LookMisses, brokerVars
<1>3. WorkersTyped'
    BY <1>1 DEF LookMisses, IInv, ParticipantInv, WorkersTyped, Idle, Ats
<1>4. TrackInv' /\ stored' \subseteq Retain /\ \A w \in Work : ViewMove(w)
    BY <1>2, ViewSame DEF ViewMove, IInv, ParticipantInv
<1>5. CASE Moved(k, "copy")
    BY <1>1, <1>2, <1>3, <1>4, <1>5, MovedCalls, CallSteps DEF Stages
<1>6. CASE calls' = calls \ {k}
    BY <1>2, <1>3, <1>4, <1>6, CallSteps
<1>. QED BY <1>5, <1>6 DEF LookMisses

LEMMA HandoffFailsStep == ASSUME IInv, NEW k \in calls, HandoffFails(k) PROVE IInv' /\ Moves
BY WorkerAlone, WorkersSame DEF HandoffFails, workerVars

\* The document has ended before its lease does.
LEMMA AcknowledgeStep == ASSUME IInv, NEW k \in calls, Acknowledge(k) PROVE IInv' /\ Moves
<1>1. k.work \in Work /\ Over(k.work)
    BY DEF Acknowledge, IInv, ParticipantInv, CallOk
<1>2. /\ BrokerInv' /\ UNCHANGED <<attempts, phase>>
      /\ fate[k.work] = "admitted" /\ fate' = [fate EXCEPT ![k.work] = "acknowledged"]
    BY <1>1, Acknowledges DEF Acknowledge, IInv
<1>3. UNCHANGED <<trackerVars, stored, uploading, worker>>
    BY DEF Acknowledge, workerVars
<1>4. TrackInv' /\ Over(k.work)' /\ \A w \in Work : Fades(w)
    BY <1>1, <1>2, <1>3, ViewSame
<1>5. \A w \in Work : ViewMove(w) /\ FateMove(w) /\ UploadMove(w)
    BY <1>2, <1>3, <1>4 DEF ViewMove, FateMove, UploadMove, IInv, BrokerInv, BrokerTyped
<1>6. WorkersTyped' /\ stored' \subseteq Retain /\ uploading' \subseteq Work
    BY <1>3, WorkersSame DEF IInv, ParticipantInv
<1>. QED BY <1>2, <1>3, <1>4, <1>5, <1>6, MovedCalls, StepOf DEF Acknowledge, Stages, PhaseMove

LEMMA AnswerStep == ASSUME IInv, NEW k \in calls, Answer(k) PROVE IInv' /\ Moves
<1>1. k.work \in Work /\ k.from \in Claimers
    BY DEF IInv, ParticipantInv, CallOk
<1>2. BrokerInv' /\ UNCHANGED <<fate, attempts, phase>>
    BY <1>1, QuietBroker, BrokerStill DEF Answer, WB!AckDone, WB!phaseVars, IInv
<1>3. WorkersTyped'
    BY <1>1, WorkerSteps DEF Answer, IInv, ParticipantInv
<1>. QED BY <1>2, <1>3, QuietSteps DEF Answer

-----------------------------------------------------------------------------
(* Time, files, and the end of the process.                                *)

LEMMA RowsExpireStep == ASSUME IInv, NEW w \in Work, RowsExpire(w) PROVE IInv' /\ Moves
<1>1. UNCHANGED <<attempts, worker, calls, brokerVars, uploading, trackerVars>> /\ stored' = stored \ {w}
    BY DEF RowsExpire, brokerVars, workerVars
<1>2. TrackInv' /\ \A v \in Work : Holds(v)
    BY <1>1, TrackerSame DEF trackerVars, IInv
<1>3. \A v \in Work : ViewMove(v)
    BY <1>1, <1>2 DEF RowsExpire, ViewMove, RowsExpired, Fades, Holds, SameAttempts, SameRows
<1>4. WorkersTyped' /\ stored' \subseteq Retain
    BY <1>1, WorkersSame DEF IInv, ParticipantInv
<1>. QED BY <1>1, <1>2, <1>3, <1>4, CallSteps

LEMMA FileStep == ASSUME IInv, Unlink \/ LoseFile \/ Start PROVE IInv' /\ Moves
<1>1. BrokerInv' /\ UNCHANGED <<fate, attempts>>
    BY QuietBroker DEF Unlink, LoseFile, Start, IInv
<1>2. phase = "stopped" => phase' = "stopped"
    BY DEF Unlink, LoseFile, Start, WB!Unlink, WB!LoseFile, WB!Start, WB!phaseVars
<1>. QED BY <1>1, <1>2, QuietSteps, WorkersSame DEF Unlink, LoseFile, Start, workerVars, gatewayVars

LEMMA ShutdownStep == ASSUME IInv, Shutdown PROVE IInv' /\ Moves
<1>1. UNCHANGED <<trackerVars, worker, calls, uploading, stored>>
    BY DEF Shutdown, workerVars, gatewayVars
<1>2. WorkersTyped' /\ uploading' \subseteq Work /\ stored' \subseteq Retain
    BY <1>1, WorkersSame DEF IInv, ParticipantInv
<1>3. CASE WB!ShutdownClear
    <2>1. BrokerInv' /\ Forgets(records) /\ phase' = "stopped"
        BY <1>3, ClearForgets DEF IInv
    <2>2. TrackInv' /\ \A w \in Work : ViewMove(w)
        BY <1>1, <2>1, ViewSame DEF ViewMove, Forgets
    <2>3. \A w \in Work : FateMove(w) /\ UploadMove(w)
        BY <1>1, <2>1 DEF FateMove, UploadMove, Forgets, IInv, BrokerInv, Recorded
    <2>. QED BY <1>1, <1>2, <2>1, <2>2, <2>3, StepOf DEF PhaseMove
<1>4. CASE ~WB!ShutdownClear
    <2>1. \/ WB!ShutdownBegin \/ (\E p \in Pools : WB!ShutdownNotify(p))
          \/ WB!ShutdownDrain \/ WB!ShutdownDiscard
        BY <1>4 DEF Shutdown, WB!Shutdown
    <2>2. BrokerInv' /\ UNCHANGED <<fate, attempts>>
        BY <2>1, QuietBroker DEF IInv
    <2>3. phase # "stopped"
        BY <2>1 DEF WB!ShutdownBegin, WB!Running, WB!ShutdownNotify, WB!ShutdownDrain, WB!ShutdownDiscard
    <2>. QED BY <1>1, <1>2, <2>2, <2>3, QuietSteps
<1>. QED BY <1>3, <1>4

LEMMA CrashStep == ASSUME IInv, Crash PROVE IInv' /\ Moves
<1>1. BrokerInv' /\ Forgets(records \cup {w \in Work : fate[w] = "admitting"})
    BY CrashForgets DEF Crash, IInv
<1>2. TrackInv' /\ documents' = {} /\ \A w \in Work : Fade(w)
    BY TrackerRestarts DEF Crash, IInv
<1>3. uploading' = {} /\ calls' = {} /\ UNCHANGED stored
    BY DEF Crash
<1>4. WorkersTyped'
    BY DEF Crash, IInv, ParticipantInv, WorkersTyped, Idle, Ats
<1>5. \A w \in Work : ViewMove(w) /\ UploadMove(w)
    BY <1>1, <1>2, <1>3 DEF ViewMove, UploadMove, Fades, SameAttempts, SameRows, Forgets
<1>6. \A w \in Work : FateMove(w)
    BY <1>1, <1>2 DEF FateMove, Forgets, IInv, BrokerInv, Recorded
<1>7. uploading' \subseteq Work /\ stored' \subseteq Retain
    BY <1>3 DEF IInv, ParticipantInv
<1>. QED BY <1>1, <1>2, <1>3, <1>4, <1>5, <1>6, <1>7, StepOf DEF PhaseMove

-----------------------------------------------------------------------------
(* Every step keeps the invariant and is made of moves.                    *)

LEMMA NextMoves == ASSUME IInv, [Next]_vars PROVE IInv' /\ Moves
<1>1. ASSUME NEW j \in Jobs, CreateJob(j) \/ AgeOut(j) \/ Read({j}) PROVE IInv' /\ Moves
    BY <1>1, CreateJobStep, AgeOutStep, ReadStep
<1>2. ASSUME NEW w \in Work, UploadStep(w) \/ LeaseDue(w) \/ RowsExpire(w) PROVE IInv' /\ Moves
    BY <1>2, UploadStepKeeps, EnqueueStartStep, EnqueueProceedsStep, EnqueueRefusedStep,
       LeaseDueStep, RowsExpireStep DEF UploadStep
<1>3. ASSUME NEW p \in Pools, Sweep(p) PROVE IInv' /\ Moves
    BY <1>3, SweepStep
<1>4. ASSUME NEW c \in Claimers, WorkerStep(c) PROVE IInv' /\ Moves
    <2>1. CASE ClaimCall(c) \/ ClaimWait(c) \/ ClaimEmpty(c) \/ (\E w \in Work : ClaimGrant(c, w))
        BY <2>1, ClaimCallStep, ClaimWaitStep, ClaimEmptyStep, ClaimGrantStep
    <2>2. CASE FetchFails(c) \/ Activate(c) \/ Heartbeat(c) \/ Execute(c) \/ WorkerLost(c)
        BY <2>2, FetchFailsStep, ActivateStep, HeartbeatStep, ExecuteStep, WorkerLostStep
    <2>3. CASE CallbackArrives(c) \/ CallbackRejected(c)
        BY <2>3, CallbackArrivesStep, CallbackRejectedStep
    <2>. QED BY <1>4, <2>1, <2>2, <2>3 DEF WorkerStep
<1>5. ASSUME NEW k \in calls, CallbackStep(k) PROVE IInv' /\ Moves
    BY <1>5, LookFindsStep, LookMissesStep, CopyStep, HandoffFailsStep, AcknowledgeStep, AnswerStep
    DEF CallbackStep
<1>6. CASE Unlink \/ LoseFile \/ Shutdown \/ Crash \/ Start
    BY <1>6, FileStep, ShutdownStep, CrashStep
<1>7. CASE UNCHANGED vars
    BY <1>7, WorkerAlone, WorkersSame DEF vars, workerVars, gatewayVars
<1>. QED BY <1>1, <1>2, <1>3, <1>4, <1>5, <1>6, <1>7 DEF Next

\* The inductive invariant: the broker's records, the tracker's maps, the
\* workers and callbacks under way, and the account of each work.
THEOREM ServiceIsConsistent == Spec => []IInv
<1>1. IInv /\ [Next]_vars => IInv'
    BY NextMoves
<1>. QED BY <1>1, WorkInvInit, PTL DEF Spec

\* NothingLost: while the gateway lives, an accepted document that has not ended
\* is queued or leased in the broker (work_queue.py, job_tracker.py), whatever
\* expiries, callbacks and acknowledgements cross.
THEOREM NoDocumentLost == Spec => []NothingLost
<1>1. IInv => NothingLost
    <2>. SUFFICES ASSUME IInv, phase \in {"running", "stopping", "draining"}, NEW w \in documents,
                         fate[w] \notin {"unseen", "admitting"}, status[w] \notin JT!DocTerminal
                  PROVE  w \in records
        BY DEF NothingLost
    <2>1. w \in Work /\ WorkInv(w) /\ Recorded(w) /\ fate[w] \in WB!Fates
        BY DEF IInv, TrackInv, BrokerInv, BrokerTyped
    <2>. QED BY <2>1 DEF WorkInv, Recorded, Over, WB!Fates
<1>. QED BY <1>1, ServiceIsConsistent, PTL

\* UploadIsAllOrNothing: an upload whose admission was refused or failed leaves no
\* document in the tracker, no place in its job's list and no record in the broker
\* (routers/ingest.py, the rollback of an admission); its manifest entry stays.
THEOREM UploadsAreAtomic == Spec => []UploadIsAllOrNothing
<1>1. IInv => UploadIsAllOrNothing
    <2>. SUFFICES ASSUME IInv, NEW w \in Work, fate[w] = "rejected"
                  PROVE  w \notin documents /\ w \notin documentIds[JobOf[w]] /\ w \notin records
        BY DEF UploadIsAllOrNothing
    <2>1. WorkInv(w) /\ Recorded(w) /\ (w \in documents <=> w \in documentIds[JobOf[w]])
        BY DEF IInv, BrokerInv, TrackInv
    <2>. QED BY <2>1 DEF WorkInv, Recorded
<1>. QED BY <1>1, ServiceIsConsistent, PTL

\* StatusTellsDelivery: a tracked document is pending exactly while no worker was
\* ever allowed to execute it, so the rollback of a pending document is safe.
THEOREM PendingMeansUndelivered == Spec => []StatusTellsDelivery
<1>1. IInv => StatusTellsDelivery
    BY DEF IInv, TrackInv, WorkInv, StatusTellsDelivery
<1>. QED BY <1>1, ServiceIsConsistent, PTL

\* CompletedHasResult: a document whose rows were asked for is completed only
\* once the gateway has them (routers/ingest.py, job_callback).
THEOREM CompletedKeepsRows == Spec => []CompletedHasResult
<1>1. IInv => CompletedHasResult
    BY IngestGatewayAssumption DEF IInv, WorkInv, CompletedHasResult
<1>. QED BY <1>1, ServiceIsConsistent, PTL

-----------------------------------------------------------------------------
(* The refinement of DocumentLife.                                         *)

LEMMA LifeOf ==
    ASSUME IInv, IInv', Moves, NEW w \in Work
    PROVE  \/ Life!Accept(w) \/ Life!Deliver(w) \/ Life!Complete(w) \/ Life!Fail(w)
           \/ Life!Keep(w) \/ Life!Vanish(w) \/ Life!Expire(w) \/ Life!Stay(w)
<1>. USE DEF Life!Views, Life!SameView, Life!SameDeliveries, Life!SameRows, View, JT!DocTerminal
<1>1. ViewMove(w) /\ WorkInv(w) /\ WorkInv(w)' /\ status[w] \in JT!Statuses /\ stored \subseteq Retain
    BY DEF Moves, IInv, TrackInv, ParticipantInv
<1>2. Known(w) => outcome[w] = "registered" /\ (status[w] = "pending" <=> attempts[w] = 0)
    BY <1>1 DEF WorkInv, Known
<1>3. CASE Fades(w)
    BY <1>1, <1>2, <1>3 DEF Fades, Fade, SameOutcome, JT!Statuses, SameAttempts, SameRows, Life!Vanish, Life!Stay
<1>4. CASE Enters(w)
    BY <1>4 DEF Enters, Registers, SameAttempts, SameRows, Life!Accept
<1>5. CASE Delivered(w)
    <2>1. outcome[w] = "registered" /\ Counts(w) /\ SameRows(w)
        BY <1>1, <1>5 DEF Delivered, WorkInv
    <2>2. CASE Begins(w)
        BY <2>1, <2>2 DEF Begins, SameOutcome, Counts, SameRows, Life!Deliver
    <2>3. CASE Holds(w) /\ (w \in documents' => status[w] # "pending")
        <3>1. View(w) \notin {"unknown", "pending"} /\ View(w)' = View(w)
            BY <1>1, <2>1, <2>3 DEF Holds, Fade, SameOutcome, Known, JT!Statuses
        <3>. QED BY <2>1, <3>1 DEF Counts, SameRows, Life!Deliver
    <2>. QED BY <1>5, <2>2, <2>3 DEF Delivered
<1>6. CASE Finishes(w)
    <2>1. View(w) = "processing" /\ outcome'[w] = "registered" /\ Known(w)' /\ SameAttempts(w)
        BY <1>1, <1>2, <1>6 DEF Finishes, Ends, SameOutcome, JT!Statuses
    <2>2. CASE Ends(w, "failed") /\ SameRows(w)
        BY <2>1, <2>2 DEF Ends, SameAttempts, SameRows, Life!Fail
    <2>3. CASE Ends(w, "completed") /\ (w \in stored' <=> w \in Retain)
        BY <2>1, <2>3 DEF Ends, SameAttempts, Life!Complete
    <2>. QED BY <1>6, <2>2, <2>3 DEF Finishes
<1>7. CASE RowsKept(w)
    <2>1. View(w)' = View(w) /\ View(w) # "processing"
        BY <1>2, <1>7 DEF RowsKept, Holds, Fade, SameOutcome
    <2>. QED BY <1>7, <2>1 DEF RowsKept, SameAttempts, Life!Keep
<1>8. CASE RowsExpired(w)
    <2>1. /\ View(w)' = View(w) /\ View(w) \in {"unknown", "gone"}
          /\ View(w) = "unknown" => w \notin stored
        BY <1>1, <1>8 DEF RowsExpired, WorkInv, Holds, Fade, SameOutcome
    <2>2. CASE View(w) = "gone"
        BY <1>8, <2>1, <2>2 DEF RowsExpired, SameAttempts, Life!Expire
    <2>3. CASE View(w) = "unknown"
        BY <1>8, <2>1, <2>3 DEF RowsExpired, SameAttempts, Life!Stay
    <2>. QED BY <2>1, <2>2, <2>3
<1>. QED BY <1>1, <1>3, <1>4, <1>5, <1>6, <1>7, <1>8 DEF ViewMove

\* EveryDocumentLives: what a client sees of each document, how often it was
\* delivered and whether its rows are kept go as DocumentLife says, through
\* queues, leases, lost workers, repeated callbacks, expiring jobs and restarts.
THEOREM ServiceImplementsLife == Spec => EveryDocumentLives
<1>1. Init => Life!Init
    BY DEF Init, JT!Init, WB!Init, Life!Init, View
<1>2. ASSUME IInv, IInv', [Next]_vars PROVE [Life!Next]_Life!vars
    BY <1>2, NextMoves, LifeOf DEF Life!Next
<1>. QED BY <1>1, <1>2, ServiceIsConsistent, PTL DEF Spec, EveryDocumentLives, Life!Spec

=============================================================================
