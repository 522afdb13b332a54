----------------------- MODULE StandaloneIngestProofs -----------------------
(***************************************************************************)
(* The safety of the standalone service for any number of uploads,         *)
(* workers, pools and sidecars: an admitted document is where its status   *)
(* says it is, and in one place only (PoolMatchesTracker), and a           *)
(* single-use sidecar is bound to one registered document at most          *)
(* (SidecarBoundOnce).                                                     *)
(***************************************************************************)
EXTENDS StandaloneIngest, FiniteSetTheorems, TLAPS

-----------------------------------------------------------------------------
(* The tracker's part of the invariant: a document that is known is listed *)
(* by its job, and so leaves with it.                                      *)

Outcomes == {"none", "registered", "replayed", "refused", "error"}

TrackInv ==
    /\ documents \subseteq Docs /\ aged \subseteq Jobs
    /\ status \in [Docs -> JT!Statuses] /\ outcome \in [Docs -> Outcomes]
    /\ documentIds \in [Jobs -> SUBSET Docs]
    /\ \A d \in documents : d \in documentIds[JobOf[d]]

\* All that most steps do to a document is to forget it.
SameOutcome(d) == outcome'[d] = "registered" <=> outcome[d] = "registered"
Fades(d) ==
    /\ d \in documents' => d \in documents
    /\ status'[d] = status[d] /\ SameOutcome(d)

\* The documents of the jobs X leave.
Leaves(X) ==
    /\ aged' \subseteq aged
    /\ documents' = documents \ JT!Dropped(X)
    /\ documentIds' = [j \in Jobs |-> IF j \in X THEN {} ELSE documentIds[j]]

LEMMA LeavesKeeps ==
    ASSUME TrackInv, NEW X, Leaves(X),
           status' \in [Docs -> JT!Statuses], outcome' \in [Docs -> Outcomes]
    PROVE  /\ TrackInv' /\ documents' \subseteq documents
           /\ X \subseteq Jobs => \A d \in documents : JobOf[d] \in X => d \notin documents'
<1>1. ASSUME NEW d \in documents', JobOf[d] \in X, X \subseteq Jobs PROVE FALSE
    BY <1>1 DEF Leaves, JT!Dropped, TrackInv
<1>2. ASSUME NEW d \in documents' PROVE d \in documentIds'[JobOf[d]]
    BY StandaloneIngestAssumption DEF Leaves, JT!Dropped, TrackInv
<1>. QED BY <1>1, <1>2 DEF Leaves, TrackInv

LEMMA DropFades ==
    ASSUME TrackInv, NEW X, JT!Drop(X), UNCHANGED status,
           outcome' \in [Docs -> Outcomes], \A d \in Docs : SameOutcome(d)
    PROVE  TrackInv' /\ \A d \in Docs : Fades(d)
<1>1. Leaves(X)
    BY DEF JT!Drop, JT!ForgetAggregates, Leaves
<1>2. status' \in [Docs -> JT!Statuses]
    BY DEF TrackInv
<1>. QED BY <1>1, <1>2, LeavesKeeps DEF Fades

\* An answer other than "registered".
LEMMA AnswerFades ==
    ASSUME TrackInv, NEW d \in Docs, NEW how \in Outcomes \ {"registered"}, JT!Answer(d, how)
    PROVE  outcome' \in [Docs -> Outcomes] /\ \A e \in Docs : SameOutcome(e)
BY DEF JT!Answer, TrackInv, SameOutcome, Outcomes

LEMMA SameFades ==
    ASSUME TrackInv, UNCHANGED <<documents, status, documentIds>>, aged' \subseteq Jobs,
           outcome' \in [Docs -> Outcomes], \A d \in Docs : SameOutcome(d)
    PROVE  TrackInv' /\ \A d \in Docs : Fades(d)
BY DEF TrackInv, Fades

\* What the tracker does in the steps that neither register nor move a document.
Passes ==
    \/ UNCHANGED trackerVars
    \/ \E j \in Jobs : JT!RegisterJob(j) \/ JT!AgeOut(j) \/ JT!Read({j})
    \/ \E d \in Docs :
         \/ JT!NoJobForDocument(d) \/ JT!RefuseDocument(d) \/ JT!ReplayDocument(d)
         \/ JT!Answer(d, "refused") /\ UNCHANGED <<documents, status, documentIds, aged>>
    \/ JT!Restart

LEMMA PassesFade == ASSUME TrackInv, Passes PROVE TrackInv' /\ \A d \in Docs : Fades(d)
<1>1. UNCHANGED outcome => outcome' \in [Docs -> Outcomes] /\ \A d \in Docs : SameOutcome(d)
    BY DEF TrackInv, SameOutcome
<1>2. CASE UNCHANGED trackerVars
    BY <1>1, <1>2, SameFades DEF trackerVars, TrackInv
<1>3. ASSUME NEW j \in Jobs, JT!RegisterJob(j) PROVE TrackInv' /\ \A d \in Docs : Fades(d)
    <2>1. Leaves(aged) /\ UNCHANGED <<status, outcome>>
        BY <1>3 DEF JT!RegisterJob, JT!ForgetAggregates, Leaves
    <2>2. status' \in [Docs -> JT!Statuses]
        BY <2>1 DEF TrackInv
    <2>. QED BY <1>1, <2>1, <2>2, LeavesKeeps DEF Fades
<1>4. ASSUME NEW j \in Jobs, JT!AgeOut(j) PROVE TrackInv' /\ \A d \in Docs : Fades(d)
    <2>1. UNCHANGED <<documents, status, documentIds, outcome>> /\ aged' \subseteq Jobs
        BY <1>4 DEF JT!AgeOut, JT!aggVars, JT!mapVars, TrackInv
    <2>. QED BY <1>1, <2>1, SameFades
<1>5. ASSUME NEW j \in Jobs, JT!Read({j}) PROVE TrackInv' /\ \A d \in Docs : Fades(d)
    BY <1>1, <1>5, DropFades DEF JT!Read
<1>6. ASSUME NEW d \in Docs, JT!NoJobForDocument(d) PROVE TrackInv' /\ \A e \in Docs : Fades(e)
    <2>1. JT!Drop({JobOf[d]} \cap aged) /\ UNCHANGED status /\ JT!Answer(d, "refused")
        BY <1>6 DEF JT!NoJobForDocument
    <2>2. outcome' \in [Docs -> Outcomes] /\ \A e \in Docs : SameOutcome(e)
        BY <2>1, AnswerFades DEF Outcomes
    <2>. QED BY <2>1, <2>2, DropFades
<1>7. ASSUME NEW d \in Docs,
             \/ JT!RefuseDocument(d) \/ JT!ReplayDocument(d)
             \/ JT!Answer(d, "refused") /\ UNCHANGED <<documents, status, documentIds, aged>>
      PROVE  TrackInv' /\ \A e \in Docs : Fades(e)
    <2>1. /\ UNCHANGED <<documents, status, documentIds, aged>>
          /\ \E how \in Outcomes \ {"registered"} : JT!Answer(d, how)
        BY <1>7 DEF JT!RefuseDocument, JT!ReplayDocument, JT!aggVars, JT!mapVars, Outcomes
    <2>2. outcome' \in [Docs -> Outcomes] /\ \A e \in Docs : SameOutcome(e)
        BY <2>1, AnswerFades
    <2>. QED BY <2>1, <2>2, SameFades DEF TrackInv
<1>8. CASE JT!Restart
    BY <1>1, <1>8 DEF JT!Restart, TrackInv, Fades
<1>. QED BY <1>2, <1>3, <1>4, <1>5, <1>6, <1>7, <1>8 DEF Passes

LEMMA Registration ==
    ASSUME TrackInv, NEW d \in Docs, JT!RegisterDocument(d)
    PROVE  /\ TrackInv' /\ outcome[d] = "none" /\ outcome'[d] = "registered"
           /\ d \in documents' /\ status'[d] = "pending"
           /\ \A e \in Docs \ {d} : Fades(e)
<1>. DEFINE X == JT!Evicted
            rest == documents \ JT!Dropped(X)
<1>1. /\ JobOf[d] \notin X /\ X \subseteq Jobs /\ aged' = aged \ X
      /\ outcome[d] = "none" /\ outcome' = [outcome EXCEPT ![d] = "registered"]
      /\ status' = [status EXCEPT ![d] = "pending"]
      /\ documents' = rest \cup {d}
      /\ documentIds' = [i \in Jobs |-> IF i \in X THEN {} ELSE IF i = JobOf[d] THEN documentIds[JobOf[d]] \cup {d}
                                        ELSE documentIds[i]]
    BY DEF JT!RegisterDocument, JT!Live, JT!Answer, JT!Evicted, TrackInv
<1>2. \A e \in rest : e \in documents /\ JobOf[e] \notin X
    BY <1>1 DEF JT!Dropped, TrackInv
<1>. HIDE DEF X, rest
<1>3. \A e \in documents' : e \in documentIds'[JobOf[e]]
    BY <1>1, <1>2, StandaloneIngestAssumption DEF TrackInv
<1>4. TrackInv'
    BY <1>1, <1>2, <1>3 DEF TrackInv, JT!Statuses, Outcomes
<1>5. \A e \in Docs \ {d} : Fades(e)
    BY <1>1, <1>2 DEF Fades, SameOutcome, TrackInv
<1>. QED BY <1>1, <1>4, <1>5 DEF TrackInv

\* A worker takes document d: it begins, unless its job has expired or it has
\* begun before.
LEMMA Beginning ==
    ASSUME TrackInv, NEW d \in Docs, Begun(d)
    PROVE  /\ TrackInv' /\ SameOutcome(d) /\ \A e \in Docs \ {d} : Fades(e)
           /\ d \in documents' => d \in documents /\ (status[d] = "pending" => status'[d] = "processing")
<1>1. CASE d \in documents /\ JobOf[d] \in aged
    <2>1. JT!Drop({JobOf[d]}) /\ UNCHANGED <<status, outcome>>
        BY <1>1 DEF Begun, JT!MarkProcessing
    <2>2. Leaves({JobOf[d]})
        BY <2>1 DEF JT!Drop, JT!ForgetAggregates, Leaves
    <2>3. TrackInv' /\ documents' \subseteq documents /\ d \notin documents'
        <3>1. {JobOf[d]} \subseteq Jobs
            BY StandaloneIngestAssumption
        <3>2. status' \in [Docs -> JT!Statuses] /\ outcome' \in [Docs -> Outcomes]
            BY <2>1 DEF TrackInv
        <3>. QED BY <1>1, <2>2, <3>1, <3>2, LeavesKeeps
    <2>. QED BY <2>1, <2>3 DEF Fades, SameOutcome
<1>2. CASE d \in documents /\ JobOf[d] \notin aged /\ status[d] = "pending"
    <2>1. /\ status' = [status EXCEPT ![d] = "processing"]
          /\ UNCHANGED <<documents, documentIds, aged, outcome>>
        BY <1>2 DEF Begun, JT!MarkProcessing, JT!mapVars
    <2>. QED BY <1>2, <2>1 DEF TrackInv, JT!Statuses, Fades, SameOutcome
<1>3. CASE ~(d \in documents /\ (JobOf[d] \in aged \/ status[d] = "pending"))
    <2>1. UNCHANGED <<documents, status, documentIds, aged, outcome>>
        BY <1>3 DEF Begun, trackerVars
    <2>. QED BY <1>3, <2>1 DEF TrackInv, Fades, SameOutcome
<1>. QED BY <1>1, <1>2, <1>3

LEMMA Ending ==
    ASSUME TrackInv, NEW d \in Docs, NEW how \in JT!DocTerminal, Ended(d, how)
    PROVE  /\ TrackInv' /\ SameOutcome(d) /\ \A e \in Docs \ {d} : Fades(e)
           /\ d \in documents' => d \in documents /\ status'[d] \in JT!DocTerminal
<1>1. CASE d \notin documents
    <2>1. UNCHANGED <<documents, status, documentIds, aged, outcome>>
        BY <1>1 DEF Ended, trackerVars
    <2>. QED BY <1>1, <2>1 DEF TrackInv, Fades, SameOutcome
<1>2. CASE d \in documents
    <2>. DEFINE X == {JobOf[e] : e \in {d} \cap documents} \cap aged
                T == JT!Marked({d})
    <2>1. /\ status' = [e \in Docs |-> IF e \in T THEN how ELSE status[e]]
          /\ Leaves(X) /\ UNCHANGED outcome
        BY <1>2 DEF Ended, JT!MarkTerminal, Leaves
    <2>2. /\ T \subseteq {d} /\ X \subseteq Jobs
          /\ d \in T \/ JobOf[d] \in X \/ status[d] \in JT!DocTerminal
        BY <1>2 DEF JT!Marked, TrackInv
    <2>. HIDE DEF X, T
    <2>3. /\ TrackInv' /\ documents' \subseteq documents
          /\ JobOf[d] \in X => d \notin documents'
        <3>1. status' \in [Docs -> JT!Statuses] /\ outcome' \in [Docs -> Outcomes]
            BY <2>1 DEF TrackInv, JT!Statuses, JT!DocTerminal
        <3>. QED BY <1>2, <2>1, <2>2, <3>1, LeavesKeeps
    <2>. QED BY <2>1, <2>2, <2>3 DEF Fades, SameOutcome
<1>. QED BY <1>1, <1>2

-----------------------------------------------------------------------------
(* The pools: every place in a queue and every worker holds another        *)
(* document, one of that pool.                                             *)

PoolInv ==
    /\ queue \in [Pools -> Seq(Docs)] /\ running \in [Workers -> Docs \cup {NoDoc}]
    /\ \A p \in Pools : \A i, k \in 1..Len(queue[p]) : queue[p][i] = queue[p][k] => i = k
    /\ \A p \in Pools : \A i \in 1..Len(queue[p]) : PoolOf[queue[p][i]] = p
    /\ \A k, l \in Workers : running[k] = running[l] /\ ~Idle(k) => k = l

Waiting(d) == \E i \in 1..Len(queue[PoolOf[d]]) : queue[PoolOf[d]][i] = d
Executing(d) == \E k \in Workers : running[k] = d

\* What the pools' lengths and counts have to do with it.
LEMMA Places ==
    ASSUME PoolInv, NEW d \in Docs
    PROVE  /\ Queued(d) = IF Waiting(d) THEN 1 ELSE 0
           /\ Running(d) = IF Executing(d) THEN 1 ELSE 0
<1>. DEFINE q == queue[PoolOf[d]]
            Q == {i \in DOMAIN q : q[i] = d}
            R == {k \in Workers : running[k] = d}
<1>1. PoolOf[d] \in Pools /\ q \in Seq(Docs) /\ DOMAIN q = 1..Len(q) /\ d # NoDoc
    BY StandaloneIngestAssumption DEF PoolInv
<1>a. Queued(d) = Cardinality(Q) /\ Running(d) = Cardinality(R)
    BY DEF Queued, Running
<1>2. ASSUME Waiting(d) PROVE Queued(d) = 1
    <2>1. PICK i \in 1..Len(q) : q[i] = d
        BY <1>2 DEF Waiting
    <2>2. Q = {i}
        BY <1>1, <2>1 DEF PoolInv
    <2>3. Cardinality(Q) = 1
        BY <2>2, FS_Singleton
    <2>. QED BY <1>a, <1>2, <2>3
<1>3. ASSUME ~Waiting(d) PROVE Queued(d) = 0
    <2>1. Q = {}
        BY <1>1, <1>3 DEF Waiting
    <2>2. Cardinality(Q) = 0
        BY <2>1, FS_EmptySet
    <2>. QED BY <1>a, <1>3, <2>2
<1>4. ASSUME Executing(d) PROVE Running(d) = 1
    <2>1. PICK k \in Workers : running[k] = d
        BY <1>4 DEF Executing
    <2>2. R = {k}
        BY <1>1, <2>1 DEF PoolInv, Idle
    <2>3. Cardinality(R) = 1
        BY <2>2, FS_Singleton
    <2>. QED BY <1>a, <1>4, <2>3
<1>5. ASSUME ~Executing(d) PROVE Running(d) = 0
    <2>1. R = {}
        BY <1>5 DEF Executing
    <2>2. Cardinality(R) = 0
        BY <2>1, FS_EmptySet
    <2>. QED BY <1>a, <1>5, <2>2
<1>. QED BY <1>2, <1>3, <1>4, <1>5

LEMMA PoolsSame ==
    ASSUME PoolInv, UNCHANGED poolVars
    PROVE  PoolInv' /\ \A d \in Docs : (Waiting(d)' <=> Waiting(d)) /\ (Executing(d)' <=> Executing(d))
BY DEF PoolInv, poolVars, Waiting, Executing, Idle

LEMMA Joins ==
    ASSUME PoolInv, NEW d \in Docs, ~Waiting(d),
           queue' = [queue EXCEPT ![PoolOf[d]] = Append(@, d)], UNCHANGED running
    PROVE  /\ PoolInv'
           /\ \A e \in Docs : (Waiting(e)' <=> Waiting(e) \/ e = d) /\ (Executing(e)' <=> Executing(e))
<1>. DEFINE p == PoolOf[d]
            n == Len(queue[p])
<1>1. p \in Pools /\ queue[p] \in Seq(Docs) /\ n \in Nat
    BY StandaloneIngestAssumption DEF PoolInv
<1>2. /\ queue'[p] \in Seq(Docs) /\ Len(queue'[p]) = n + 1 /\ queue'[p][n + 1] = d
      /\ \A i \in 1..n : queue'[p][i] = queue[p][i]
    BY <1>1 DEF PoolInv
<1>3. \A i : i \in 1..(n + 1) <=> i \in 1..n \/ i = n + 1
    BY <1>1
<1>4. \A r \in Pools \ {p} : queue'[r] = queue[r]
    BY DEF PoolInv
<1>5. \A i \in 1..n : queue[p][i] # d
    BY DEF Waiting
<1>6. queue' \in [Pools -> Seq(Docs)]
    BY <1>1, <1>2 DEF PoolInv
<1>. HIDE DEF n
<1>7. \A i, k \in 1..(n + 1) : queue'[p][i] = queue'[p][k] => i = k
    BY <1>1, <1>2, <1>3, <1>5 DEF PoolInv, n
<1>8. \A i \in 1..(n + 1) : PoolOf[queue'[p][i]] = p
    BY <1>1, <1>2, <1>3 DEF PoolInv, n
<1>9. PoolInv'
    BY <1>1, <1>2, <1>4, <1>6, <1>7, <1>8 DEF PoolInv, Idle
<1>10. ASSUME NEW e \in Docs PROVE Waiting(e)' <=> Waiting(e) \/ e = d
    <2>1. CASE PoolOf[e] = p
        BY <1>2, <1>3, <2>1 DEF Waiting, n
    <2>2. CASE PoolOf[e] # p
        <3>1. PoolOf[e] \in Pools
            BY StandaloneIngestAssumption
        <3>. QED BY <1>4, <2>2, <3>1 DEF Waiting
    <2>. QED BY <2>1, <2>2
<1>. QED BY <1>9, <1>10 DEF Executing

\* An idle worker takes the head of its pool's queue.
Moves(k, d) ==
    LET p == Serves[k] IN
    /\ Idle(k) /\ queue[p] # <<>> /\ d = Head(queue[p])
    /\ queue' = [queue EXCEPT ![p] = Tail(@)]
    /\ running' = [running EXCEPT ![k] = d]

LEMMA Taken ==
    ASSUME PoolInv, NEW k \in Workers, NEW d, Moves(k, d), ~Executing(d)
    PROVE  /\ PoolInv' /\ d \in Docs /\ Waiting(d) /\ ~Waiting(d)' /\ Executing(d)'
           /\ \A e \in Docs \ {d} : (Waiting(e)' <=> Waiting(e)) /\ (Executing(e)' <=> Executing(e))
<1>. DEFINE p == Serves[k]
            n == Len(queue[p])
<1>1. /\ p \in Pools /\ queue[p] \in Seq(Docs) /\ n \in Nat /\ n > 0
      /\ d = queue[p][1] /\ d \in Docs /\ d # NoDoc
    <2>1. p \in Pools /\ queue[p] \in Seq(Docs) /\ queue[p] # <<>> /\ d = Head(queue[p])
        BY StandaloneIngestAssumption DEF PoolInv, Moves
    <2>2. n \in Nat /\ n > 0 /\ Head(queue[p]) = queue[p][1] /\ queue[p][1] \in Docs
        BY <2>1
    <2>. QED BY <2>1, <2>2, StandaloneIngestAssumption
<1>2. /\ queue'[p] \in Seq(Docs) /\ Len(queue'[p]) = n - 1
      /\ \A i \in 1..(n - 1) : queue'[p][i] = queue[p][i + 1]
    BY <1>1 DEF PoolInv, Moves
<1>3. /\ \A i \in 1..(n - 1) : i + 1 \in 1..n /\ i + 1 # 1 /\ i \in Int
      /\ \A i \in 1..n : i = 1 \/ (i - 1 \in 1..(n - 1) /\ (i - 1) + 1 = i)
      /\ 1 \in 1..n
      /\ \A i, m \in 1..(n - 1) : i + 1 = m + 1 => i = m
    BY <1>1
<1>4. \A r \in Pools \ {p} : queue'[r] = queue[r]
    BY DEF PoolInv, Moves
<1>5. \A l \in Workers : running'[l] = IF l = k THEN d ELSE running[l]
    BY DEF PoolInv, Moves
<1>6. /\ queue' \in [Pools -> Seq(Docs)] /\ running' \in [Workers -> Docs \cup {NoDoc}]
    BY <1>1, <1>2 DEF PoolInv, Moves
<1>7. \A i \in 1..n, m \in 1..n : queue[p][i] = queue[p][m] => i = m
    BY <1>1 DEF PoolInv
<1>8. PoolOf[d] = p /\ \A i \in 1..n : PoolOf[queue[p][i]] = p
    BY <1>1, <1>3 DEF PoolInv
<1>. HIDE DEF n, p
<1>9. \A i, m \in 1..(n - 1) : queue'[p][i] = queue'[p][m] => i = m
    BY <1>2, <1>3, <1>7
<1>10. \A i \in 1..(n - 1) : PoolOf[queue'[p][i]] = p
    BY <1>2, <1>3, <1>8
<1>11. \A l, m \in Workers : running'[l] = running'[m] /\ running'[l] # NoDoc => l = m
    BY <1>1, <1>5 DEF PoolInv, Idle, Executing
<1>12. PoolInv'
    <2>1. ASSUME NEW r \in Pools
          PROVE  /\ \A i, m \in 1..Len(queue'[r]) : queue'[r][i] = queue'[r][m] => i = m
                 /\ \A i \in 1..Len(queue'[r]) : PoolOf[queue'[r][i]] = r
        <3>1. CASE r = p
            BY <1>2, <1>9, <1>10, <3>1
        <3>2. CASE r # p
            BY <1>4, <3>2 DEF PoolInv
        <3>. QED BY <3>1, <3>2
    <2>. QED BY <1>6, <1>11, <2>1 DEF PoolInv, Idle
<1>13. Waiting(d) /\ ~Waiting(d)'
    <2>1. Waiting(d)
        BY <1>1, <1>3, <1>8 DEF Waiting, n
    <2>2. ~\E i \in 1..(n - 1) : queue'[p][i] = d
        BY <1>1, <1>2, <1>3, <1>7
    <2>. QED BY <1>2, <1>8, <2>1, <2>2 DEF Waiting
<1>14. ASSUME NEW e \in Docs \ {d} PROVE Waiting(e)' <=> Waiting(e)
    <2>1. CASE PoolOf[e] = p
        <3>1. Waiting(e)' <=> \E i \in 1..(n - 1) : queue'[p][i] = e
            BY <1>2, <2>1 DEF Waiting
        <3>2. Waiting(e) <=> \E i \in 1..n : queue[p][i] = e
            BY <2>1 DEF Waiting, n
        <3>3. ASSUME NEW i \in 1..(n - 1), queue'[p][i] = e PROVE \E m \in 1..n : queue[p][m] = e
            BY <1>2, <1>3, <3>3
        <3>4. ASSUME NEW m \in 1..n, queue[p][m] = e PROVE \E i \in 1..(n - 1) : queue'[p][i] = e
            <4>1. m # 1
                BY <1>1, <3>4 DEF n
            <4>. QED BY <1>2, <1>3, <3>4, <4>1
        <3>. QED BY <3>1, <3>2, <3>3, <3>4
    <2>2. CASE PoolOf[e] # p
        <3>1. PoolOf[e] \in Pools
            BY StandaloneIngestAssumption
        <3>. QED BY <1>4, <2>2, <3>1 DEF Waiting
    <2>. QED BY <2>1, <2>2
<1>15. Executing(d)' /\ \A e \in Docs \ {d} : Executing(e)' <=> Executing(e)
    <2>1. running[k] = NoDoc /\ NoDoc \notin Docs
        BY StandaloneIngestAssumption DEF Moves, Idle
    <2>. QED BY <1>5, <2>1 DEF Executing
<1>. QED BY <1>1, <1>12, <1>13, <1>14, <1>15

\* A worker is done with document d.
Leaving(k, d) ==
    /\ d = running[k] /\ d # NoDoc
    /\ running' = [running EXCEPT ![k] = NoDoc] /\ UNCHANGED queue

LEMMA Left ==
    ASSUME PoolInv, NEW k \in Workers, NEW d, Leaving(k, d)
    PROVE  /\ PoolInv' /\ d \in Docs /\ Executing(d) /\ ~Executing(d)'
           /\ \A e \in Docs : (Waiting(e)' <=> Waiting(e))
           /\ \A e \in Docs \ {d} : (Executing(e)' <=> Executing(e))
<1>1. \A l \in Workers : running'[l] = IF l = k THEN NoDoc ELSE running[l]
    BY DEF PoolInv, Leaving
<1>2. d \in Docs /\ NoDoc \notin Docs
    BY StandaloneIngestAssumption DEF PoolInv, Leaving
<1>3. PoolInv'
    BY <1>1 DEF PoolInv, Idle, Leaving
<1>4. Executing(d) /\ ~Executing(d)'
    BY <1>1, <1>2 DEF PoolInv, Executing, Idle, Leaving
<1>5. \A e \in Docs \ {d} : (Executing(e)' <=> Executing(e))
    BY <1>1, <1>2 DEF Executing, Leaving
<1>. QED BY <1>2, <1>3, <1>4, <1>5 DEF Waiting, Leaving

-----------------------------------------------------------------------------
(* The invariant of one document, and the moves that keep it.              *)

Placed(d) ==
    /\ Waiting(d) \/ Executing(d) => outcome[d] = "registered"
    /\ ~(Waiting(d) /\ Executing(d))
    /\ d \in documents \ turnedAway =>
         /\ status[d] = "pending" <=> Waiting(d)
         /\ status[d] = "processing" <=> Executing(d)

LEMMA Stays ==
    ASSUME NEW d \in Docs, Placed(d), Fades(d), turnedAway \subseteq turnedAway',
           Waiting(d)' <=> Waiting(d), Executing(d)' <=> Executing(d)
    PROVE  Placed(d)'
BY DEF Placed, Fades, SameOutcome

-----------------------------------------------------------------------------
(* The sidecars: a single-use one that a registered document has bound was *)
(* drawn and is spent, and an id is never drawn again.                     *)

BoundTo(d, s) == SidecarOf[d] = s /\ outcome[d] = "registered"

SidecarInv ==
    /\ entries \subseteq drawn
    /\ \A s \in SingleUse : \A d, e \in Docs : BoundTo(d, s) /\ BoundTo(e, s) => d = e
    /\ \A s \in SingleUse : \A d \in Docs : BoundTo(d, s) => s \in drawn \ entries

\* Sidecars are added under a new id, or go.
SidecarsMove ==
    /\ drawn \subseteq drawn' /\ entries' \subseteq drawn'
    /\ entries' \cap drawn \subseteq entries

LEMMA MoveKeeps ==
    ASSUME SidecarInv, SidecarsMove, \A d \in Docs : SameOutcome(d)
    PROVE  SidecarInv'
BY DEF SidecarInv, SidecarsMove, SameOutcome, BoundTo

LEMMA BindMoves ==
    ASSUME SidecarInv, NEW s, SS!Consume(s) \/ UNCHANGED sidecarVars PROVE SidecarsMove
BY DEF SidecarInv, SS!Consume, SS!LeftAfter, SidecarsMove, sidecarVars

LEMMA StepMoves ==
    ASSUME SidecarInv, NEW s, SS!Put(s) \/ SS!Delete(s) \/ SS!Expire(s) PROVE SidecarsMove
BY DEF SidecarInv, SS!Put, SS!Delete, SS!Expire, SidecarsMove

\* A document is registered with what it has bound.
LEMMA BindKeeps ==
    ASSUME SidecarInv, NEW d \in Docs, Bound(d), Bind(d), outcome[d] = "none",
           \A e \in Docs \ {d} : SameOutcome(e)
    PROVE  SidecarInv'
<1>1. ASSUME HasSidecar(d)
      PROVE  /\ SidecarOf[d] \in entries /\ UNCHANGED drawn /\ entries' \subseteq entries
             /\ SidecarOf[d] \in SingleUse => SidecarOf[d] \notin entries'
    BY <1>1 DEF Bound, Bind, SS!Available, SS!Consume, SS!LeftAfter
<1>2. ASSUME ~HasSidecar(d)
      PROVE  UNCHANGED <<entries, drawn>> /\ SidecarOf[d] \notin SingleUse
    BY <1>2, StandaloneIngestAssumption DEF Bind, HasSidecar, sidecarVars
<1>3. \A e \in Docs \ {d}, s \in SingleUse : BoundTo(e, s)' => BoundTo(e, s)
    BY DEF SameOutcome, BoundTo
<1>4. \A s \in SingleUse : BoundTo(d, s)' => s = SidecarOf[d] /\ s \in drawn' \ entries' /\ s \in entries
    BY <1>1, <1>2 DEF BoundTo, SidecarInv
<1>5. drawn' = drawn /\ entries' \subseteq entries
    BY <1>1, <1>2
<1>. QED BY <1>3, <1>4, <1>5 DEF SidecarInv

-----------------------------------------------------------------------------
(* The inductive invariant and the steps.                                  *)

IInv == TrackInv /\ PoolInv /\ SidecarInv /\ \A d \in Docs : Placed(d)

LEMMA InitInv == Init => IInv
<1>. SUFFICES ASSUME Init PROVE IInv
    OBVIOUS
<1>1. TrackInv
    BY DEF Init, JT!Init, TrackInv, JT!Statuses, Outcomes
<1>2. PoolInv /\ \A d \in Docs : ~Waiting(d) /\ ~Executing(d)
    BY StandaloneIngestAssumption DEF Init, PoolInv, Idle, Waiting, Executing
<1>3. SidecarInv
    BY DEF Init, JT!Init, SS!Init, SidecarInv, BoundTo
<1>. QED BY <1>1, <1>2, <1>3 DEF Init, JT!Init, IInv, Placed

\* The steps that leave the pools alone and neither register nor move a document.
LEMMA QuietKeeps ==
    ASSUME IInv, Passes, UNCHANGED <<poolVars, turnedAway>>, SidecarsMove
    PROVE  IInv'
<1>1. TrackInv' /\ \A d \in Docs : Fades(d)
    BY PassesFade DEF IInv
<1>2. PoolInv' /\ \A d \in Docs : (Waiting(d)' <=> Waiting(d)) /\ (Executing(d)' <=> Executing(d))
    BY PoolsSame DEF IInv
<1>3. SidecarInv'
    BY <1>1, MoveKeeps DEF IInv, Fades
<1>4. \A d \in Docs : Placed(d)'
    BY <1>1, <1>2, Stays DEF IInv
<1>. QED BY <1>1, <1>2, <1>3, <1>4 DEF IInv

LEMMA AdmitKeeps ==
    ASSUME IInv, NEW d \in Docs, Admit(d) PROVE IInv'
<1>1. /\ TrackInv' /\ outcome[d] = "none" /\ outcome'[d] = "registered"
      /\ d \in documents' /\ status'[d] = "pending" /\ \A e \in Docs \ {d} : Fades(e)
    BY Registration DEF IInv, Admit
<1>2. ~Waiting(d) /\ ~Executing(d) /\ UNCHANGED <<running, turnedAway>>
    BY <1>1 DEF IInv, Placed, Admit
<1>3. /\ PoolInv'
      /\ \A e \in Docs : (Waiting(e)' <=> Waiting(e) \/ e = d) /\ (Executing(e)' <=> Executing(e))
    BY <1>2, Joins DEF IInv, Admit
<1>4. SidecarInv'
    BY <1>1, BindKeeps DEF IInv, Admit, Fades
<1>5. \A e \in Docs \ {d} : Placed(e)'
    BY <1>1, <1>2, <1>3, Stays DEF IInv
<1>6. Placed(d)'
    BY <1>1, <1>2, <1>3 DEF Placed
<1>. QED BY <1>1, <1>3, <1>4, <1>5, <1>6 DEF IInv

LEMMA TurnAwayKeeps ==
    ASSUME IInv, NEW d \in Docs, TurnAway(d) PROVE IInv'
<1>1. /\ TrackInv' /\ outcome[d] = "none" /\ outcome'[d] = "registered"
      /\ \A e \in Docs \ {d} : Fades(e)
    BY Registration DEF IInv, TurnAway
<1>2. ~Waiting(d) /\ ~Executing(d) /\ turnedAway' = turnedAway \cup {d}
    BY <1>1 DEF IInv, Placed, TurnAway
<1>3. PoolInv' /\ \A e \in Docs : (Waiting(e)' <=> Waiting(e)) /\ (Executing(e)' <=> Executing(e))
    BY PoolsSame DEF IInv, TurnAway
<1>4. SidecarInv'
    BY <1>1, BindKeeps DEF IInv, TurnAway, Fades
<1>5. \A e \in Docs \ {d} : Placed(e)'
    BY <1>1, <1>2, <1>3, Stays DEF IInv
<1>6. Placed(d)'
    BY <1>1, <1>2, <1>3 DEF Placed
<1>. QED BY <1>1, <1>3, <1>4, <1>5, <1>6 DEF IInv

LEMMA TakeKeeps ==
    ASSUME IInv, NEW k \in Workers, Take(k) PROVE IInv'
<1>0. PICK d : d = Head(queue[Serves[k]])
    OBVIOUS
<1>1. Moves(k, d) /\ Begun(d) /\ UNCHANGED <<sidecarVars, turnedAway>>
    BY <1>0 DEF Take, Rest, Moves
<1>2. Serves[k] \in Pools /\ queue[Serves[k]] \in Seq(Docs) /\ queue[Serves[k]] # <<>>
    BY <1>1, StandaloneIngestAssumption DEF IInv, PoolInv, Moves
<1>3. d \in Docs
    BY <1>0, <1>2
<1>4. d = queue[Serves[k]][1] /\ 1 \in 1..Len(queue[Serves[k]])
    BY <1>0, <1>2
<1>5. Waiting(d)
    BY <1>2, <1>4 DEF IInv, PoolInv, Waiting
<1>6. ~Executing(d) /\ outcome[d] = "registered"
    BY <1>3, <1>5 DEF IInv, Placed
<1>7. /\ PoolInv' /\ ~Waiting(d)' /\ Executing(d)'
      /\ \A e \in Docs \ {d} : (Waiting(e)' <=> Waiting(e)) /\ (Executing(e)' <=> Executing(e))
    BY <1>1, <1>6, Taken DEF IInv
<1>8. /\ TrackInv' /\ SameOutcome(d) /\ \A e \in Docs \ {d} : Fades(e)
      /\ d \in documents' => d \in documents /\ (status[d] = "pending" => status'[d] = "processing")
    BY <1>1, <1>3, Beginning DEF IInv
<1>9. SidecarInv'
    <2>1. \A e \in Docs : SameOutcome(e)
        BY <1>8 DEF Fades
    <2>2. SidecarsMove
        BY <1>1 DEF IInv, SidecarInv, SidecarsMove, sidecarVars
    <2>. QED BY <2>1, <2>2, MoveKeeps DEF IInv
<1>10. \A e \in Docs \ {d} : Placed(e)'
    BY <1>1, <1>7, <1>8, Stays DEF IInv
<1>11. Placed(d)'
    BY <1>1, <1>3, <1>5, <1>6, <1>7, <1>8 DEF IInv, Placed, SameOutcome
<1>. QED BY <1>7, <1>8, <1>9, <1>10, <1>11 DEF IInv

LEMMA FinishKeeps ==
    ASSUME IInv, NEW k \in Workers, NEW how \in JT!DocTerminal, Finish(k, how) PROVE IInv'
<1>1. PICK d : d = running[k]
    OBVIOUS
<1>2. Leaving(k, d) /\ Ended(d, how) /\ UNCHANGED <<sidecarVars, turnedAway>>
    BY <1>1 DEF Finish, Idle, Leaving
<1>3. /\ PoolInv' /\ d \in Docs /\ Executing(d) /\ ~Executing(d)'
      /\ \A e \in Docs : (Waiting(e)' <=> Waiting(e))
      /\ \A e \in Docs \ {d} : (Executing(e)' <=> Executing(e))
    BY <1>2, Left DEF IInv
<1>4. /\ TrackInv' /\ SameOutcome(d) /\ \A e \in Docs \ {d} : Fades(e)
      /\ d \in documents' => d \in documents /\ status'[d] \in JT!DocTerminal
    BY <1>2, <1>3, Ending DEF IInv
<1>5. SidecarInv'
    <2>1. \A e \in Docs : SameOutcome(e)
        BY <1>4 DEF Fades
    <2>2. SidecarsMove
        BY <1>2 DEF IInv, SidecarInv, SidecarsMove, sidecarVars
    <2>. QED BY <2>1, <2>2, MoveKeeps DEF IInv
<1>6. \A e \in Docs \ {d} : Placed(e)'
    BY <1>2, <1>3, <1>4, Stays DEF IInv
<1>7. Placed(d)'
    BY <1>2, <1>3, <1>4 DEF IInv, Placed, SameOutcome, JT!DocTerminal
<1>. QED BY <1>3, <1>4, <1>5, <1>6, <1>7 DEF IInv

LEMMA RestartKeeps == ASSUME IInv, Restart PROVE IInv'
<1>1. TrackInv' /\ \A d \in Docs : Fades(d)
    BY PassesFade DEF IInv, Passes, Restart
<1>2. PoolInv' /\ \A d \in Docs : ~Waiting(d)' /\ ~Executing(d)'
    BY StandaloneIngestAssumption DEF Restart, PoolInv, Idle, Waiting, Executing
<1>3. SidecarInv'
    <2>1. SidecarsMove
        BY DEF Restart, SidecarsMove
    <2>. QED BY <1>1, <2>1, MoveKeeps DEF IInv, Fades
<1>4. documents' = {}
    BY DEF Restart, JT!Restart
<1>. QED BY <1>1, <1>2, <1>3, <1>4 DEF IInv, Placed

LEMMA StepKeeps == IInv /\ [Next]_vars => IInv'
<1>. SUFFICES ASSUME IInv, [Next]_vars PROVE IInv'
    OBVIOUS
<1>0. UNCHANGED sidecarVars => SidecarsMove
    BY DEF IInv, SidecarInv, SidecarsMove, sidecarVars
<1>1. ASSUME NEW j \in Jobs, CreateJob(j) PROVE IInv'
    BY <1>0, <1>1, QuietKeeps DEF CreateJob, Passes
<1>2. ASSUME NEW d \in Docs, FindJob(d) PROVE IInv'
    BY <1>0, <1>2, QuietKeeps DEF FindJob, Passes
<1>3. ASSUME NEW d \in Docs, SidecarIsGone(d) PROVE IInv'
    <2>1. Passes /\ UNCHANGED <<poolVars, turnedAway>>
        BY <1>3 DEF SidecarIsGone, Passes
    <2>2. SidecarsMove
        BY <1>3, BindMoves DEF SidecarIsGone, IInv
    <2>. QED BY <2>1, <2>2, QuietKeeps
<1>4. ASSUME NEW d \in Docs, RegistrationFails(d) PROVE IInv'
    <2>1. Passes /\ UNCHANGED <<poolVars, turnedAway>>
        BY <1>4 DEF RegistrationFails, Passes
    <2>2. SidecarsMove
        BY <1>4, BindMoves DEF RegistrationFails, Bind, IInv
    <2>. QED BY <2>1, <2>2, QuietKeeps
<1>5. ASSUME NEW d \in Docs, Duplicate(d) PROVE IInv'
    BY <1>0, <1>5, QuietKeeps DEF Duplicate, Passes
<1>6. ASSUME NEW s \in Sidecars, SidecarStep(s) PROVE IInv'
    <2>1. Passes /\ UNCHANGED <<poolVars, turnedAway>>
        BY <1>6 DEF SidecarStep, Passes
    <2>2. SidecarsMove
        BY <1>6, StepMoves DEF SidecarStep, IInv
    <2>. QED BY <2>1, <2>2, QuietKeeps
<1>7. CASE TimePasses
    BY <1>0, <1>7, QuietKeeps DEF TimePasses, Passes
<1>8. CASE UNCHANGED vars
    BY <1>0, <1>8, QuietKeeps DEF vars, Passes
<1>. QED BY <1>1, <1>2, <1>3, <1>4, <1>5, <1>6, <1>7, <1>8, AdmitKeeps, TurnAwayKeeps, TakeKeeps,
            FinishKeeps, RestartKeeps DEF Next

LEMMA Invariance == Spec => []IInv
BY InitInv, StepKeeps, PTL DEF Spec

-----------------------------------------------------------------------------

\* An admitted document waits in its pool's queue while it is pending, is with
\* one worker while it is processing, and is nowhere once it has ended, however
\* many workers serve the pool and whenever its job expires (_Pool.submit,
\* _Pool._worker_loop).
THEOREM AdmittedInOnePlace == Spec => []PoolMatchesTracker
<1>1. IInv => PoolMatchesTracker
    <2>. SUFFICES ASSUME IInv, NEW d \in Docs
                  PROVE  /\ Queued(d) + Running(d) <= 1
                         /\ d \in documents \ turnedAway =>
                              /\ status[d] = "pending" <=> Queued(d) = 1
                              /\ status[d] = "processing" <=> Running(d) = 1
        BY DEF PoolMatchesTracker
    <2>1. Placed(d)
        BY DEF IInv
    <2>2. /\ Queued(d) = IF Waiting(d) THEN 1 ELSE 0
          /\ Running(d) = IF Executing(d) THEN 1 ELSE 0
        BY Places DEF IInv
    <2>. QED BY <2>1, <2>2 DEF Placed
<1>. QED BY <1>1, Invariance, PTL

\* A single-use sidecar ends up with one registered document at most, and no
\* upload finds it afterwards (_bind_sidecar_for_admission, SidecarStore.consume).
THEOREM SidecarsBoundOnce == Spec => []SidecarBoundOnce
<1>1. IInv => SidecarBoundOnce
    <2>. SUFFICES ASSUME IInv, NEW s \in SingleUse
                  PROVE  LET bound == {d \in Docs : SidecarOf[d] = s /\ outcome[d] = "registered"}
                         IN Cardinality(bound) <= 1 /\ (bound # {} => s \notin entries)
        BY DEF SidecarBoundOnce
    <2>. DEFINE bound == {d \in Docs : SidecarOf[d] = s /\ outcome[d] = "registered"}
    <2>1. \A d, e \in bound : d = e /\ s \notin entries
        BY DEF IInv, SidecarInv, BoundTo
    <2>2. CASE bound = {}
        BY <2>2, FS_EmptySet
    <2>3. CASE bound # {}
        <3>1. PICK d : bound = {d}
            BY <2>1, <2>3
        <3>2. Cardinality(bound) = 1
            BY <3>1, FS_Singleton
        <3>. QED BY <2>1, <2>3, <3>2
    <2>. QED BY <2>2, <2>3
<1>. QED BY <1>1, Invariance, PTL
=============================================================================
