-------------------------- MODULE WorkBrokerProofs --------------------------
(***************************************************************************)
(* The safety of WorkBroker for any number of works, pools and claimers:   *)
(* its types, the queue and the attempt counts (QueueExact, AttemptsExact, *)
(* which share the invariant IInv), and on top of that invariant EndsOnce, *)
(* StoppedIsEmpty, PoolBounds, RetriesFirst, FifoDelivery and SpoolExact.  *)
(***************************************************************************)
EXTENDS WorkBroker, FiniteSetTheorems, SequenceTheorems, TLAPS

-----------------------------------------------------------------------------
(* Sequences that list a set.                                              *)

\* An order of a finite set of works is a sequence that lists it.
LEMMA OrdersList ==
    ASSUME NEW D \in SUBSET Work, NEW s \in Orders(D)
    PROVE  s \in Seq(Work) /\ Lists(s, D)
<1>1. IsFiniteSet(D) /\ Cardinality(D) \in Nat
    BY WorkBrokerAssumption, FS_Subset, FS_CardinalityType
<1>2. /\ s \in [1..Cardinality(D) -> D]
      /\ \A i, j \in 1..Cardinality(D) : s[i] = s[j] => i = j
      /\ \A w \in D : \E i \in 1..Cardinality(D) : s[i] = w
    BY DEF Orders, Bijection, Injection, Surjection, IsInjective
<1>3. s \in Seq(Work) /\ Len(s) = Cardinality(D)
    BY <1>1, <1>2
<1>. QED BY <1>1, <1>2, <1>3 DEF Lists

\* Putting back works that are not queued keeps the queue exact.
LEMMA FrontLists ==
    ASSUME NEW q \in Seq(Work), NEW S \in SUBSET Work, Lists(q, S),
           NEW s \in Seq(Work), NEW D \in SUBSET Work, Lists(s, D),
           D \cap S = {}
    PROVE  Front(s, q) \in Seq(Work) /\ Lists(Front(s, q), D \cup S)
<1>. DEFINE r == s \o q
<1>1. /\ r \in Seq(Work) /\ Len(r) = Len(s) + Len(q)
      /\ \A i \in 1..Len(r) : r[i] = IF i <= Len(s) THEN s[i] ELSE q[i - Len(s)]
    BY ConcatProperties
<1>2. Len(s) \in Nat /\ Len(q) \in Nat
    BY LenProperties
<1>. HIDE DEF r
<1>3. ASSUME NEW i \in 1..Len(r), NEW j \in 1..Len(r), r[i] = r[j]
      PROVE  i = j
    <2>1. CASE i <= Len(s) /\ j <= Len(s)
        <3>1. i \in 1..Len(s) /\ j \in 1..Len(s)
            BY <1>2, <1>3, <2>1
        <3>2. s[i] = s[j]
            BY <1>1, <1>3, <2>1
        <3>. QED BY <3>1, <3>2 DEF Lists
    <2>2. CASE ~(i <= Len(s)) /\ ~(j <= Len(s))
        <3>1. i - Len(s) \in 1..Len(q) /\ j - Len(s) \in 1..Len(q)
            BY <1>1, <1>2, <2>2
        <3>2. q[i - Len(s)] = q[j - Len(s)]
            BY <1>1, <1>3, <2>2
        <3>3. i - Len(s) = j - Len(s)
            BY <3>1, <3>2 DEF Lists
        <3>. QED BY <1>2, <3>3
    <2>3. ASSUME NEW k \in 1..Len(r), NEW l \in 1..Len(r), k <= Len(s), ~(l <= Len(s))
          PROVE  r[k] # r[l]
        <3>1. k \in 1..Len(s) /\ l - Len(s) \in 1..Len(q)
            BY <1>1, <1>2, <2>3
        <3>2. s[k] \in Work /\ q[l - Len(s)] \in Work
            BY <3>1, ElementOfSeq
        <3>3. s[k] \in D /\ q[l - Len(s)] \in S
            BY <3>1, <3>2 DEF Lists
        <3>. QED BY <1>1, <2>3, <3>3
    <2>. QED BY <1>3, <2>1, <2>2, <2>3
<1>4. ASSUME NEW w \in Work
      PROVE  w \in D \cup S <=> \E i \in 1..Len(r) : r[i] = w
    <2>1. ASSUME w \in D PROVE \E i \in 1..Len(r) : r[i] = w
        <3>1. PICK i \in 1..Len(s) : s[i] = w
            BY <2>1 DEF Lists
        <3>. QED BY <1>1, <1>2, <3>1
    <2>2. ASSUME w \in S PROVE \E i \in 1..Len(r) : r[i] = w
        <3>1. PICK i \in 1..Len(q) : q[i] = w
            BY <2>2 DEF Lists
        <3>2. i + Len(s) \in 1..Len(r) /\ ~(i + Len(s) <= Len(s)) /\ (i + Len(s)) - Len(s) = i
            BY <1>1, <1>2
        <3>. QED BY <1>1, <3>1, <3>2
    <2>3. ASSUME NEW i \in 1..Len(r), r[i] = w PROVE w \in D \cup S
        <3>1. CASE i <= Len(s)
            BY <1>1, <1>2, <2>3, <3>1 DEF Lists
        <3>2. CASE ~(i <= Len(s))
            <4>1. i - Len(s) \in 1..Len(q) /\ q[i - Len(s)] = w
                BY <1>1, <1>2, <2>3, <3>2
            <4>. QED BY <4>1 DEF Lists
        <3>. QED BY <3>1, <3>2
    <2>. QED BY <2>1, <2>2, <2>3
<1>. QED BY <1>1, <1>3, <1>4 DEF Front, Lists, r

\* A work that is not queued can be appended.
LEMMA EnqueuedLists ==
    ASSUME NEW q \in Seq(Work), NEW S \in SUBSET Work, Lists(q, S),
           NEW w \in Work, w \notin S
    PROVE  Enqueued(q, w) \in Seq(Work) /\ Lists(Enqueued(q, w), S \cup {w})
<1>. DEFINE r == Append(q, w)
<1>1. /\ r \in Seq(Work) /\ Len(r) = Len(q) + 1 /\ r[Len(q) + 1] = w
      /\ \A i \in 1..Len(q) : r[i] = q[i]
    BY DEF r
<1>2. Len(q) \in Nat
    BY LenProperties
<1>. HIDE DEF r
<1>3. \A i \in 1..Len(q) : q[i] # w
    BY DEF Lists
<1>4. \A i \in 1..Len(r) : i \in 1..Len(q) \/ i = Len(q) + 1
    BY <1>1, <1>2
<1>5. \A i, j \in 1..Len(r) : r[i] = r[j] => i = j
    BY <1>1, <1>3, <1>4 DEF Lists
<1>6. \A v \in Work : v \in S \cup {w} <=> \E i \in 1..Len(r) : r[i] = v
    BY <1>1, <1>2, <1>4 DEF Lists
<1>. QED BY <1>1, <1>5, <1>6 DEF Enqueued, Lists, r

\* When every queued work is ready, a claim pops exactly the head.
LEMMA RestsTail ==
    ASSUME NEW q \in Seq(Work), NEW S \in SUBSET Work, Lists(q, S),
           NEW D, \A v \in S : Ready(v, D),
           NEW w, NEW rest \in Rests(q, w, D)
    PROVE  /\ w \in S /\ Len(q) >= 1 /\ q[1] = w
           /\ rest \in Seq(Work) /\ Len(rest) = Len(q) - 1
           /\ \A j \in 1..Len(rest) : rest[j] = q[j+1]
<1>1. PICK i \in 1..Len(q) :
        /\ q[i] = w /\ rest = SubSeq(q, i+1, Len(q))
        /\ \A j \in 1..(i-1) : ~Ready(q[j], D)
    BY DEF Rests
<1>2. Len(q) \in Nat
    BY LenProperties
<1>3. \A j \in 1..Len(q) : q[j] \in Work /\ q[j] \in S
    BY ElementOfSeq DEF Lists
<1>4. i = 1
    <2>1. SUFFICES ASSUME i > 1 PROVE FALSE
        BY <1>2
    <2>2. 1 \in 1..(i-1) /\ 1 \in 1..Len(q)
        BY <1>2, <2>1
    <2>. QED BY <1>1, <1>3, <2>2
<1>5. /\ rest \in Seq(Work) /\ Len(rest) = Len(q) - 1
      /\ \A j \in 1..Len(rest) : rest[j] = q[j+1]
    <2>1. rest = SubSeq(q, 2, Len(q)) /\ Len(q) >= 1
        BY <1>1, <1>2, <1>4
    <2>2. q # <<>> /\ rest = Tail(q)
        BY <2>1, EmptySeq, TailIsSubSeq
    <2>. QED BY <2>2, HeadTailProperties
<1>. QED BY <1>1, <1>2, <1>3, <1>4, <1>5

\* The same, by name: rest is q without its head w.
Popped(q, w, rest) ==
    /\ rest \in Seq(Work) /\ Len(rest) = Len(q) - 1 /\ \A j \in 1..Len(rest) : rest[j] = q[j+1]
    /\ Len(q) >= 1 /\ q[1] = w

LEMMA RestsPopped ==
    ASSUME NEW q \in Seq(Work), NEW S \in SUBSET Work, Lists(q, S),
           NEW D, \A v \in S : Ready(v, D),
           NEW w, NEW rest \in Rests(q, w, D)
    PROVE  Popped(q, w, rest)
BY RestsTail DEF Popped

\* So the queue goes on listing what is left.
LEMMA RestsLists ==
    ASSUME NEW q \in Seq(Work), NEW S \in SUBSET Work, Lists(q, S),
           NEW D, \A v \in S : Ready(v, D),
           NEW w, NEW rest \in Rests(q, w, D)
    PROVE  w \in S /\ rest \in Seq(Work) /\ Lists(rest, S \ {w})
<1>1. /\ w \in S /\ Len(q) >= 1 /\ q[1] = w
      /\ rest \in Seq(Work) /\ Len(rest) = Len(q) - 1
      /\ \A j \in 1..Len(rest) : rest[j] = q[j+1]
    BY RestsTail
<1>2. Len(q) \in Nat
    BY LenProperties
<1>3. \A j, k \in 1..Len(rest) : rest[j] = rest[k] => j = k
    <2>1. ASSUME NEW j \in 1..Len(rest), NEW k \in 1..Len(rest), rest[j] = rest[k]
          PROVE  j = k
        <3>1. j+1 \in 1..Len(q) /\ k+1 \in 1..Len(q) /\ q[j+1] = q[k+1]
            BY <1>1, <1>2, <2>1
        <3>2. j+1 = k+1
            BY <3>1 DEF Lists
        <3>. QED BY <3>2
    <2>. QED BY <2>1
<1>4. ASSUME NEW v \in Work
      PROVE  v \in S \ {w} <=> \E j \in 1..Len(rest) : rest[j] = v
    <2>1. ASSUME v \in S, v # w PROVE \E j \in 1..Len(rest) : rest[j] = v
        <3>1. PICK k \in 1..Len(q) : q[k] = v
            BY <2>1 DEF Lists
        <3>2. k # 1
            BY <1>1, <2>1, <3>1
        <3>3. k-1 \in 1..Len(rest) /\ (k-1)+1 = k
            BY <1>1, <1>2, <3>2
        <3>. QED BY <1>1, <3>1, <3>3
    <2>2. ASSUME NEW j \in 1..Len(rest), rest[j] = v PROVE v \in S /\ v # w
        <3>1. j+1 \in 1..Len(q) /\ q[j+1] = v
            BY <1>1, <1>2, <2>2
        <3>2. 1 \in 1..Len(q) /\ j+1 # 1
            BY <1>1
        <3>3. q[j+1] # q[1]
            BY <3>1, <3>2 DEF Lists
        <3>4. v \in S
            BY <3>1 DEF Lists
        <3>. QED BY <1>1, <3>1, <3>3, <3>4
    <2>. QED BY <2>1, <2>2
<1>. QED BY <1>1, <1>3, <1>4 DEF Lists

-----------------------------------------------------------------------------
(* Type correctness.                                                       *)

LEMMA FilesTyped == \A X \in SUBSET Work : FilesOfAll(X) \subseteq Files /\ Doomed(X) \subseteq Files
BY DEF FilesOfAll, FilesOf, Files, Doomed

LEMMA FileTyped == \A w \in Work : FilesOf(w) \subseteq Files
BY DEF FilesOf, Files

LEMMA InitTyped == Init => TypeOK
BY WorkBrokerAssumption, EmptySeq DEF Init, TypeOK, Steps, Fates, Free

LEMMA DueTyped == ASSUME TypeOK, NEW p PROVE Due(p) \subseteq Work /\ Due(p) \subseteq records
BY DEF TypeOK, Due

\* What every end of a delivery leaves well typed.
LEMMA RequeueTyped ==
    ASSUME TypeOK, NEW p \in Pools, NEW D \in SUBSET Work, RequeueOrExhaust(p, D)
    PROVE  /\ records' \subseteq Work /\ queue' \in [Pools -> Seq(Work)]
           /\ lease' \in [Work -> {"none", "held", "due"}]
           /\ generation' \in [Work -> Nat] /\ activated' \in [Work -> Nat]
           /\ attempts' \in [Work -> Nat]
           /\ unlinking' \subseteq Files /\ fate' \in [Work -> Fates]
<1>1. PICK s \in Orders(D \ Spent(D)) : queue' = [queue EXCEPT ![p] = Front(s, @)]
    BY DEF RequeueOrExhaust
<1>2. s \in Seq(Work)
    BY OrdersList
<1>3. queue' \in [Pools -> Seq(Work)]
    BY <1>1, <1>2, ConcatProperties DEF TypeOK, Front
<1>4. Spent(D) \subseteq Work
    BY DEF Spent
<1>5. Doomed(Spent(D)) \subseteq Files
    BY <1>4, FilesTyped
<1>. QED BY <1>3, <1>4, <1>5 DEF RequeueOrExhaust, Retire, TypeOK, Fates

LEMMA NotifyTyped ==
    ASSUME TypeOK, NEW p \in Pools, NotifyOne(p) \/ NotifyAll(p)
    PROVE  claim' \in [Claimers -> {"out", "called", "waiting", "woken"}]
BY DEF TypeOK, NotifyOne, NotifyAll, Waiting

LEMMA AdmissionTyped ==
    ASSUME TypeOK, NEW w \in Work, Admission(w)
    PROVE  TypeOK'
<1>. PoolOf[w] \in Pools
    BY WorkBrokerAssumption
<1>1. CASE EnqueueStart(w)
    BY <1>1 DEF TypeOK, EnqueueStart, recordVars, spoolVars, phaseVars, Steps, Fates
<1>2. CASE EnqueueReject(w)
    BY <1>2 DEF TypeOK, EnqueueReject, recordVars, spoolVars, phaseVars, Steps, Fates, Free
<1>3. CASE EnqueueAdmit(w)
    BY <1>3 DEF TypeOK, EnqueueAdmit, recordVars, spoolVars, phaseVars, Steps
<1>4. ASSUME Commit(w), files' \subseteq Files, UNCHANGED <<unlinking, phaseVars>>
      PROVE  TypeOK'
    <2>1. queue' \in [Pools -> Seq(Work)]
        BY <1>4 DEF TypeOK, Commit, Enqueued
    <2>2. claim' \in [Claimers -> {"out", "called", "waiting", "woken"}]
        BY <1>4, NotifyTyped DEF Commit
    <2>. QED BY <1>4, <2>1, <2>2 DEF TypeOK, Commit, phaseVars, Steps, Fates, Free
<1>5. CASE SpoolPayload(w)
    <2>1. files' \subseteq Files
        BY <1>5 DEF SpoolPayload, TypeOK, Files
    <2>2. CASE Commit(w)
        BY <1>4, <1>5, <2>1, <2>2 DEF SpoolPayload
    <2>3. CASE ~Commit(w)
        <3>1. /\ op' = [op EXCEPT ![PoolOf[w]].step = "sidecar"]
              /\ UNCHANGED <<recordVars, spoolBytes, admission, claim, fate>>
              /\ UNCHANGED <<unlinking, phaseVars>>
            BY <1>5, <2>3, Zenon DEF SpoolPayload
        <3>. QED BY <2>1, <3>1 DEF TypeOK, recordVars, phaseVars, Steps
    <2>. QED BY <2>2, <2>3
<1>6. CASE SpoolSidecar(w)
    <2>1. files' \subseteq Files
        BY <1>6 DEF SpoolSidecar, TypeOK, Files
    <2>. QED BY <1>4, <1>6, <2>1 DEF SpoolSidecar
<1>7. CASE SpoolFails(w)
    <2>1. files' \subseteq Files
        BY <1>7 DEF SpoolFails, TypeOK, Files
    <2>. QED BY <1>7, <2>1 DEF TypeOK, SpoolFails, recordVars, phaseVars, Steps
<1>8. CASE EnqueueUndo(w)
    BY <1>8 DEF TypeOK, EnqueueUndo, recordVars, phaseVars, Steps, Fates, Free
<1>. QED BY <1>1, <1>2, <1>3, <1>5, <1>6, <1>7, <1>8 DEF Admission

LEMMA ClaimTyped ==
    ASSUME TypeOK, NEW c \in Claimers, Claim(c)
    PROVE  TypeOK'
<1>. DEFINE p == ClaimsFrom[c]
            D == Due(p)
<1>0. p \in Pools /\ D \subseteq Work
    BY WorkBrokerAssumption, DueTyped
<1>1. CASE ClaimCall(c)
    BY <1>1 DEF TypeOK, ClaimCall, recordVars, spoolVars, lockVars, phaseVars
<1>2. CASE ClaimTimeout(c)
    BY <1>2 DEF TypeOK, ClaimTimeout, recordVars, spoolVars, lockVars, phaseVars
<1>3. CASE ClaimStopped(c)
    BY <1>3 DEF TypeOK, ClaimStopped, recordVars, spoolVars, lockVars, phaseVars
<1>4. Spent(D) \subseteq Work /\ Doomed(Spent(D)) \subseteq Files
    BY <1>0, FilesTyped DEF Spent
<1>5. ASSUME NEW s \in Orders(D \ Spent(D))
      PROVE  Front(s, queue[p]) \in Seq(Work)
    <2>1. s \in Seq(Work) /\ queue[p] \in Seq(Work)
        BY <1>0, OrdersList DEF TypeOK
    <2>. QED BY <2>1, ConcatProperties DEF Front
<1>6. CASE ClaimWait(c)
    <2>1. queue' \in [Pools -> Seq(Work)]
        <3>1. PICK s \in Orders(D \ Spent(D)) :
                 \/ queue' = [queue EXCEPT ![p] = Front(s, queue[p])]
                 \/ queue' = [queue EXCEPT ![p] = <<>>]
            BY <1>6 DEF ClaimWait
        <3>2. Front(s, queue[p]) \in Seq(Work) /\ <<>> \in Seq(Work)
            BY <1>5, EmptySeq
        <3>. QED BY <3>1, <3>2 DEF TypeOK
    <2>. QED BY <1>4, <1>6, <2>1 DEF TypeOK, ClaimWait, Retire, lockVars, phaseVars, Fates
<1>7. ASSUME NEW w \in Work, ClaimGrant(c, w) PROVE TypeOK'
    <2>0. PICK s \in Orders(D \ Spent(D)) :
              \E rest \in Rests(Front(s, queue[p]), w, D) : queue' = [queue EXCEPT ![p] = rest]
        BY <1>7 DEF ClaimGrant
    <2>1. PICK rest \in Rests(Front(s, queue[p]), w, D) : queue' = [queue EXCEPT ![p] = rest]
        BY <2>0
    <2>2. rest \in Seq(Work)
        <3>. DEFINE q == Front(s, queue[p])
        <3>1. q \in Seq(Work)
            BY <1>5
        <3>. HIDE DEF q
        <3>2. PICK i \in 1..Len(q) : rest = SubSeq(q, i+1, Len(q))
            BY <2>1 DEF Rests, q
        <3>. QED BY <3>1, <3>2
    <2>3. queue' \in [Pools -> Seq(Work)]
        BY <2>1, <2>2 DEF TypeOK
    <2>. QED BY <1>4, <1>7, <2>3 DEF TypeOK, ClaimGrant, Retire, lockVars, phaseVars, Fates
<1>. QED BY <1>1, <1>2, <1>3, <1>6, <1>7 DEF Claim

LEMMA LeaseTyped ==
    ASSUME TypeOK, NEW w \in Work, NEW g \in Nat, LeaseCall(w, g)
    PROVE  TypeOK'
<1>. PoolOf[w] \in Pools
    BY WorkBrokerAssumption
<1>1. CASE Heartbeat(w, g)
    BY <1>1 DEF TypeOK, Heartbeat, spoolVars, lockVars, phaseVars
<1>2. CASE Activate(w, g)
    BY <1>2 DEF TypeOK, Activate, spoolVars, lockVars, phaseVars
<1>3. CASE Release(w, g)
    <2>1. claim' \in [Claimers -> {"out", "called", "waiting", "woken"}]
        BY <1>3, NotifyTyped DEF Release
    <2>2. RequeueOrExhaust(PoolOf[w], {w}) /\ {w} \in SUBSET Work
        BY <1>3 DEF Release
    <2>3. UNCHANGED <<files, op, admission, phase, notified, awaited>>
        BY <1>3 DEF Release, lockVars, phaseVars
    <2>. QED BY <2>1, <2>2, <2>3, RequeueTyped DEF TypeOK
<1>4. CASE PayloadMissing(w, g)
    BY <1>3, <1>4 DEF PayloadMissing
<1>5. CASE Acknowledge(w, g)
    BY <1>5 DEF TypeOK, Acknowledge, phaseVars, Steps, Fates
<1>. QED BY <1>1, <1>2, <1>3, <1>4, <1>5 DEF LeaseCall

LEMMA TypeStep == TypeOK /\ [Next]_vars => TypeOK'
<1>. SUFFICES ASSUME TypeOK, [Next]_vars PROVE TypeOK'
    OBVIOUS
<1>1. ASSUME NEW w \in Work, Admission(w) PROVE TypeOK'
    BY <1>1, AdmissionTyped
<1>2. ASSUME NEW w \in Work, LeaseDue(w) PROVE TypeOK'
    BY <1>2 DEF TypeOK, LeaseDue, spoolVars, lockVars, phaseVars
<1>3. ASSUME NEW w \in Work, AckDone(w) PROVE TypeOK'
    <2>1. PoolOf[w] \in Pools
        BY WorkBrokerAssumption
    <2>2. claim' \in [Claimers -> {"out", "called", "waiting", "woken"}]
        BY <1>3, <2>1, NotifyTyped DEF AckDone
    <2>. QED BY <1>3, <2>2 DEF TypeOK, AckDone, recordVars, phaseVars, Steps, Free
<1>4. ASSUME NEW w \in Work, NEW g \in Generations, LeaseCall(w, g) PROVE TypeOK'
    BY <1>4, LeaseTyped DEF Generations
<1>5. ASSUME NEW c \in Claimers, Claim(c) PROVE TypeOK'
    BY <1>5, ClaimTyped
<1>6. ASSUME NEW p \in Pools, Sweep(p) PROVE TypeOK'
    <2>1. claim' \in [Claimers -> {"out", "called", "waiting", "woken"}]
        BY <1>6, NotifyTyped DEF Sweep
    <2>2. RequeueOrExhaust(p, Due(p)) /\ Due(p) \in SUBSET Work
        BY <1>6, DueTyped DEF Sweep
    <2>3. UNCHANGED <<files, op, admission, phase, notified, awaited>>
        BY <1>6 DEF Sweep, lockVars, phaseVars
    <2>. QED BY <2>1, <2>2, <2>3, RequeueTyped DEF TypeOK
<1>7. ASSUME NEW f \in Files, Unlink(f) \/ LoseFile(f) PROVE TypeOK'
    BY <1>7 DEF TypeOK, Unlink, LoseFile, recordVars, lockVars, phaseVars
<1>8. ASSUME Shutdown PROVE TypeOK'
    <2>1. CASE ShutdownBegin
        BY <2>1 DEF TypeOK, ShutdownBegin, recordVars, spoolVars, lockVars
    <2>2. ASSUME NEW p \in Pools, ShutdownNotify(p) PROVE TypeOK'
        <3>1. claim' \in [Claimers -> {"out", "called", "waiting", "woken"}]
            BY <2>2, NotifyTyped DEF ShutdownNotify
        <3>. QED BY <2>2, <3>1 DEF TypeOK, ShutdownNotify, recordVars, spoolVars, lockVars
    <2>3. CASE ShutdownDiscard
        BY <2>3 DEF TypeOK, ShutdownDiscard, recordVars, lockVars
    <2>5. CASE ShutdownDrain
        BY <2>5 DEF TypeOK, ShutdownDrain, recordVars, spoolVars, lockVars
    <2>4. CASE ShutdownClear
        BY <2>4, EmptySeq DEF TypeOK, ShutdownClear, Forget, lockVars, Fates
    <2>. QED BY <1>8, <2>1, <2>2, <2>3, <2>4, <2>5 DEF Shutdown
<1>9. CASE Crash
    BY <1>9, EmptySeq DEF TypeOK, Crash, Forget, Fates, Free, Steps
<1>10. CASE Start
    BY <1>10 DEF TypeOK, Start, recordVars, lockVars
<1>11. CASE UNCHANGED vars
    BY <1>11 DEF TypeOK, vars, recordVars, spoolVars, lockVars, phaseVars
<1>. QED BY <1>1, <1>2, <1>3, <1>4, <1>5, <1>6, <1>7, <1>8, <1>9, <1>10, <1>11 DEF Next

\* Every behaviour of the broker keeps its variables well typed.
THEOREM TypeCorrect == Spec => []TypeOK
<1>. QED BY InitTyped, TypeStep, PTL DEF Spec

-----------------------------------------------------------------------------
(* The inductive invariant.  QueueExact needs to know that an upload under *)
(* way has no record yet, and that only records have leases; the attempt   *)
(* counts need the budget of a lease that is claimed and not yet activated. *)

\* What an upload has before its record exists: nothing.
Untouched ==
    \A w \in Work : fate[w] \in {"unseen", "admitting"} =>
        w \notin records /\ attempts[w] = 0 /\ generation[w] = 0

\* The work in the hands of an enqueue is being admitted.
InFlight ==
    \A w \in Work : \A st \in {"admission", "payload", "sidecar", "undo"} :
        At(w, st) => fate[w] = "admitting"

OnlyRecordsLeased == \A w \in Work : w \notin records => lease[w] = "none"

LifeInv == Untouched /\ InFlight /\ OnlyRecordsLeased

\* A claim that is not activated still has its attempt to spend.
AttemptInv ==
    /\ DeliveryBudget /\ OneAttemptPerGeneration
    /\ \A w \in records : lease[w] # "none" /\ activated[w] # generation[w]
          => attempts[w] < MaxDeliveryAttempts

IInv == TypeOK /\ LifeInv /\ QueueExact /\ AttemptInv

LEMMA InitInvariant == Init => IInv
<1>. SUFFICES ASSUME Init PROVE IInv
    OBVIOUS
<1>1. TypeOK
    BY InitTyped
<1>2. LifeInv
    BY WorkBrokerAssumption
    DEF Init, LifeInv, Untouched, InFlight, OnlyRecordsLeased, At, Free
<1>3. QueueExact
    BY DEF Init, QueueExact, Lists, Queued
<1>4. AttemptInv
    BY DEF Init, AttemptInv, DeliveryBudget, OneAttemptPerGeneration
<1>. QED BY <1>1, <1>2, <1>3, <1>4 DEF IInv

\* A step that retires works of the records, or changes no fate, respects LifeInv
\* as long as it puts no work in the hands of an enqueue.
LEMMA LifeKept ==
    ASSUME LifeInv, NEW X, X \subseteq records,
           records' = records \ X,
           \A w \in Work : fate'[w] = fate[w] \/ (w \in X /\ fate'[w] \notin {"unseen", "admitting"}),
           \A w \in Work : w \notin records =>
               attempts'[w] = attempts[w] /\ generation'[w] = generation[w] /\ lease'[w] = lease[w],
           \A w \in X : w \in Work => lease'[w] = "none",
           \A w \in Work : \A st \in {"admission", "payload", "sidecar", "undo"} : At(w, st)' => At(w, st)
    PROVE  LifeInv'
BY DEF LifeInv, Untouched, InFlight, OnlyRecordsLeased

LEMMA LifeStep == TypeOK /\ LifeInv /\ [Next]_vars => LifeInv'
<1>. SUFFICES ASSUME TypeOK, LifeInv, [Next]_vars PROVE LifeInv'
    OBVIOUS
<1>. DEFINE enqueuing == {"admission", "payload", "sidecar", "undo"}
            KeepsAt == \A w \in Work : \A st \in enqueuing : At(w, st)' => At(w, st)
            KeepsRecords == UNCHANGED <<records, lease, generation, attempts>>
<1>0. ASSUME KeepsAt, KeepsRecords, UNCHANGED fate PROVE LifeInv'
    BY <1>0 DEF LifeInv, Untouched, InFlight, OnlyRecordsLeased
<1>a. ASSUME UNCHANGED op PROVE KeepsAt
    BY <1>a DEF At
<1>b. ASSUME NEW p \in Pools, NEW D \in SUBSET records, RequeueOrExhaust(p, D), UNCHANGED op
      PROVE  LifeInv'
    <2>1. D \subseteq Work
        BY DEF TypeOK
    <2>. DEFINE X == Spent(D)
    <2>2. /\ X \subseteq records /\ X \subseteq D /\ records' = records \ X
          /\ fate' = [w \in Work |-> IF w \in X THEN "exhausted" ELSE fate[w]]
          /\ lease' = [w \in Work |-> IF w \in D THEN "none" ELSE lease[w]]
          /\ UNCHANGED <<generation, attempts>>
        BY <1>b DEF RequeueOrExhaust, Retire, Spent
    <2>3. KeepsAt
        BY <1>a, <1>b
    <2>. HIDE DEF X, KeepsAt
    <2>4. Untouched'
        BY <2>2 DEF LifeInv, Untouched
    <2>5. InFlight'
        BY <2>2, <2>3 DEF LifeInv, InFlight, Untouched, KeepsAt
    <2>6. OnlyRecordsLeased'
        BY <2>2 DEF LifeInv, OnlyRecordsLeased
    <2>. QED BY <2>4, <2>5, <2>6 DEF LifeInv
<1>1. ASSUME NEW w \in Work, Admission(w) PROVE LifeInv'
    <2>. PoolOf[w] \in Pools
        BY WorkBrokerAssumption
    <2>1. CASE EnqueueStart(w)
        <3>1. /\ op' = [op EXCEPT ![PoolOf[w]] = [step |-> "admission", work |-> w]]
              /\ fate[w] = "unseen" /\ fate' = [fate EXCEPT ![w] = "admitting"]
              /\ KeepsRecords
            BY <2>1 DEF EnqueueStart, recordVars
        <3>2. Untouched' /\ OnlyRecordsLeased'
            BY <3>1 DEF LifeInv, Untouched, OnlyRecordsLeased, TypeOK
        <3>3. /\ op'[PoolOf[w]] = [step |-> "admission", work |-> w]
              /\ \A p \in Pools : p # PoolOf[w] => op'[p] = op[p]
            BY <3>1 DEF TypeOK
        <3>4. \A v \in Work : \A st \in enqueuing : At(v, st)' => v = w \/ At(v, st)
            BY <3>3, WorkBrokerAssumption DEF At
        <3>5. InFlight'
            BY <3>1, <3>4 DEF LifeInv, InFlight, TypeOK
        <3>. QED BY <3>2, <3>5 DEF LifeInv
    <2>2. CASE EnqueueReject(w)
        BY <2>2, WorkBrokerAssumption DEF EnqueueReject, recordVars, LifeInv, Untouched, InFlight, OnlyRecordsLeased, At, Free, TypeOK
    <2>3. ASSUME op' = [op EXCEPT ![PoolOf[w]].step = "undo"] \/ op' = [op EXCEPT ![PoolOf[w]].step = "payload"]
                     \/ op' = [op EXCEPT ![PoolOf[w]].step = "sidecar"],
                 KeepsRecords, UNCHANGED fate,
                 \E st \in enqueuing : At(w, st)
          PROVE  LifeInv'
        <3>1. Untouched' /\ OnlyRecordsLeased'
            BY <2>3 DEF LifeInv, Untouched, OnlyRecordsLeased
        <3>2. PICK st \in enqueuing : op[PoolOf[w]] = [step |-> st, work |-> w]
            BY <2>3 DEF At
        <3>3. op'[PoolOf[w]].work = w
            BY <2>3, <3>2 DEF TypeOK
        <3>4. \A p \in Pools : p # PoolOf[w] => op'[p] = op[p]
            BY <2>3 DEF TypeOK
        <3>5. fate[w] = "admitting"
            BY <3>2 DEF LifeInv, InFlight, At
        <3>6. \A v \in Work : \A s \in enqueuing : At(v, s)' => v = w \/ At(v, s)
            BY <3>3, <3>4, WorkBrokerAssumption DEF At
        <3>7. fate' = fate
            BY <2>3
        <3>8. InFlight'
            BY <3>5, <3>6, <3>7 DEF LifeInv, InFlight
        <3>. QED BY <3>1, <3>8 DEF LifeInv
    <2>4. CASE EnqueueAdmit(w)
        BY <2>3, <2>4 DEF EnqueueAdmit, recordVars
    <2>5. ASSUME Commit(w), \E st \in enqueuing : At(w, st) PROVE LifeInv'
        <3>1. /\ records' = records \cup {w} /\ fate' = [fate EXCEPT ![w] = "admitted"]
              /\ op' = [op EXCEPT ![PoolOf[w]] = Free]
              /\ UNCHANGED <<lease, generation, attempts>>
            BY <2>5 DEF Commit
        <3>2. Untouched' /\ OnlyRecordsLeased'
            BY <3>1 DEF LifeInv, Untouched, OnlyRecordsLeased, TypeOK
        <3>3. op'[PoolOf[w]] = Free /\ \A p \in Pools : p # PoolOf[w] => op'[p] = op[p]
            BY <3>1 DEF TypeOK
        <3>4. \A v \in Work : \A st \in enqueuing : At(v, st)' => v # w /\ At(v, st)
            BY <3>3, WorkBrokerAssumption DEF At, Free
        <3>5. InFlight'
            BY <3>1, <3>4 DEF LifeInv, InFlight, TypeOK
        <3>. QED BY <3>2, <3>5 DEF LifeInv
    <2>6. CASE SpoolPayload(w)
        BY <2>3, <2>5, <2>6 DEF SpoolPayload, recordVars
    <2>7. CASE SpoolSidecar(w)
        BY <2>5, <2>7 DEF SpoolSidecar
    <2>8. CASE SpoolFails(w)
        BY <2>3, <2>8 DEF SpoolFails, recordVars
    <2>9. CASE EnqueueUndo(w)
        BY <2>9, WorkBrokerAssumption DEF EnqueueUndo, recordVars, LifeInv, Untouched, InFlight, OnlyRecordsLeased, At, Free, TypeOK
    <2>. QED BY <1>1, <2>1, <2>2, <2>4, <2>6, <2>7, <2>8, <2>9 DEF Admission
<1>2. ASSUME NEW w \in Work, LeaseDue(w) PROVE LifeInv'
    BY <1>2 DEF LeaseDue, lockVars, LifeInv, Untouched, InFlight, OnlyRecordsLeased, At, TypeOK
<1>3. ASSUME NEW w \in Work, AckDone(w) PROVE LifeInv'
    <2>1. KeepsAt
        BY <1>3, WorkBrokerAssumption DEF AckDone, At, Free, TypeOK
    <2>. QED BY <1>0, <1>3, <2>1 DEF AckDone, recordVars
<1>4. ASSUME NEW w \in Work, NEW g \in Generations, LeaseCall(w, g) PROVE LifeInv'
    <2>. PoolOf[w] \in Pools
        BY WorkBrokerAssumption
    <2>1. CASE Heartbeat(w, g)
        BY <2>1 DEF Heartbeat, Current, lockVars, LifeInv, Untouched, InFlight, OnlyRecordsLeased, At, TypeOK
    <2>2. CASE Activate(w, g)
        BY <2>2 DEF Activate, Current, lockVars, LifeInv, Untouched, InFlight, OnlyRecordsLeased, At, TypeOK
    <2>3. CASE Release(w, g)
        <3>1. {w} \in SUBSET records /\ RequeueOrExhaust(PoolOf[w], {w}) /\ UNCHANGED op
            BY <2>3 DEF Release, Current, lockVars
        <3>. QED BY <1>b, <3>1
    <2>4. CASE PayloadMissing(w, g)
        BY <2>3, <2>4 DEF PayloadMissing
    <2>5. CASE Acknowledge(w, g)
        <3>1. KeepsAt
            BY <2>5, WorkBrokerAssumption DEF Acknowledge, At, TypeOK
        <3>2. {w} \subseteq records /\ records' = records \ {w}
            BY <2>5 DEF Acknowledge, Current
        <3>. QED BY <2>5, <3>1, <3>2, LifeKept DEF Acknowledge, TypeOK
    <2>. QED BY <1>4, <2>1, <2>2, <2>3, <2>4, <2>5 DEF LeaseCall
<1>5. ASSUME NEW c \in Claimers, Claim(c) PROVE LifeInv'
    <2>. DEFINE D == Due(ClaimsFrom[c])
    <2>0. D \subseteq records /\ D \subseteq Work
        BY DueTyped
    <2>1. CASE ClaimCall(c) \/ ClaimTimeout(c) \/ ClaimStopped(c)
        <3>1. UNCHANGED op /\ KeepsRecords /\ UNCHANGED fate
            BY <2>1 DEF ClaimCall, ClaimTimeout, ClaimStopped, recordVars, lockVars
        <3>. QED BY <1>0, <1>a, <3>1
    <2>2. CASE ClaimWait(c)
        <3>1. /\ Retire(Spent(D)) /\ UNCHANGED <<op, generation, attempts>>
              /\ lease' = [w \in Work |-> IF w \in D THEN "none" ELSE lease[w]]
            BY <2>2 DEF ClaimWait, lockVars
        <3>3. Spent(D) \subseteq records /\ Spent(D) \subseteq D
            BY <2>0 DEF Spent
        <3>. QED BY <1>a, <2>0, <3>1, <3>3, LifeKept DEF Retire, TypeOK
    <2>3. ASSUME NEW w \in Work, ClaimGrant(c, w) PROVE LifeInv'
        <3>1. /\ Retire(Spent(D)) /\ UNCHANGED <<op, attempts>>
              /\ generation' = [generation EXCEPT ![w] = @ + 1]
              /\ lease' = [v \in Work |-> IF v = w THEN "held"
                                         ELSE IF v \in D THEN "none" ELSE lease[v]]
            BY <2>3 DEF ClaimGrant, lockVars
        <3>2. w \in records \ Spent(D)
            BY <2>3 DEF ClaimGrant, Rests, Ready
        <3>3. Spent(D) \subseteq records /\ Spent(D) \subseteq D
            BY <2>0 DEF Spent
        <3>. QED BY <1>a, <2>0, <3>1, <3>2, <3>3, LifeKept DEF Retire, TypeOK
    <2>. QED BY <1>5, <2>1, <2>2, <2>3 DEF Claim
<1>6. ASSUME NEW p \in Pools, Sweep(p) PROVE LifeInv'
    BY <1>6, <1>b, DueTyped DEF Sweep, lockVars
<1>7. ASSUME NEW f \in Files, Unlink(f) \/ LoseFile(f) PROVE LifeInv'
    BY <1>7, <1>0, <1>a DEF Unlink, LoseFile, recordVars, lockVars
<1>8. ASSUME Shutdown PROVE LifeInv'
    <2>1. CASE ShutdownBegin \/ ShutdownDrain \/ ShutdownDiscard \/ \E p \in Pools : ShutdownNotify(p)
        BY <2>1, <1>0, <1>a DEF ShutdownBegin, ShutdownDrain, ShutdownDiscard, ShutdownNotify, recordVars, lockVars
    <2>2. CASE ShutdownClear
        BY <2>2 DEF ShutdownClear, Forget, lockVars, LifeInv, Untouched, InFlight, OnlyRecordsLeased, At, TypeOK
    <2>. QED BY <1>8, <2>1, <2>2 DEF Shutdown
<1>9. CASE Crash
    BY <1>9, WorkBrokerAssumption DEF Crash, Forget, LifeInv, Untouched, InFlight, OnlyRecordsLeased, At, Free, TypeOK
<1>10. CASE Start
    BY <1>10, <1>0, <1>a DEF Start, recordVars, lockVars
<1>11. CASE UNCHANGED vars
    BY <1>11, <1>0, <1>a DEF vars, recordVars, lockVars
<1>. QED BY <1>1, <1>2, <1>3, <1>4, <1>5, <1>6, <1>7, <1>8, <1>9, <1>10, <1>11 DEF Next

-----------------------------------------------------------------------------
(* QueueExact.                                                             *)

\* The leases D of pool p are the ones a sweep or a release may take back.
LeasesOf(p) == {w \in records : PoolOf[w] = p /\ lease[w] # "none"}

\* What a pool's queue lists once the leases D are taken back, before a claim
\* takes anything from it.
LEMMA SweptQueue ==
    ASSUME TypeOK, QueueExact, NEW p \in Pools, NEW D \in SUBSET LeasesOf(p),
           NEW s \in Orders(D \ Spent(D))
    PROVE  /\ Front(s, queue[p]) \in Seq(Work)
           /\ Lists(Front(s, queue[p]), (D \ Spent(D)) \cup Queued(p))
           /\ (D \ Spent(D)) \cup Queued(p) \in SUBSET Work
           /\ \A v \in (D \ Spent(D)) \cup Queued(p) : Ready(v, D) /\ PoolOf[v] = p
<1>1. /\ D \ Spent(D) \in SUBSET Work /\ Queued(p) \in SUBSET Work
      /\ (D \ Spent(D)) \cap Queued(p) = {}
    BY DEF TypeOK, LeasesOf, Queued, Spent
<1>2. s \in Seq(Work) /\ Lists(s, D \ Spent(D))
    BY <1>1, OrdersList
<1>3. queue[p] \in Seq(Work) /\ Lists(queue[p], Queued(p))
    BY DEF TypeOK, QueueExact
<1>4. \A v \in (D \ Spent(D)) \cup Queued(p) : Ready(v, D) /\ PoolOf[v] = p
    BY DEF LeasesOf, Queued, Spent, Ready
<1>5. Front(s, queue[p]) \in Seq(Work) /\ Lists(Front(s, queue[p]), (D \ Spent(D)) \cup Queued(p))
    BY <1>1, <1>2, <1>3, FrontLists
<1>. QED BY <1>1, <1>4, <1>5

LEMMA RequeueQueue ==
    ASSUME TypeOK, QueueExact, NEW p \in Pools, NEW D \in SUBSET LeasesOf(p),
           RequeueOrExhaust(p, D)
    PROVE  QueueExact'
<1>1. PICK s \in Orders(D \ Spent(D)) : queue' = [queue EXCEPT ![p] = Front(s, @)]
    BY DEF RequeueOrExhaust
<1>2. /\ records' = records \ Spent(D)
      /\ lease' = [w \in Work |-> IF w \in D THEN "none" ELSE lease[w]]
    BY DEF RequeueOrExhaust, Retire
<1>3. Queued(p)' = (D \ Spent(D)) \cup Queued(p)
    BY <1>2 DEF Queued, LeasesOf, Spent, TypeOK
<1>4. \A r \in Pools : r # p => Queued(r)' = Queued(r)
    BY <1>2 DEF Queued, LeasesOf, Spent, TypeOK
<1>5. queue'[p] = Front(s, queue[p]) /\ \A r \in Pools : r # p => queue'[r] = queue[r]
    BY <1>1 DEF TypeOK
<1>6. Lists(Front(s, queue[p]), (D \ Spent(D)) \cup Queued(p))
    BY SweptQueue
<1>. QED BY <1>3, <1>4, <1>5, <1>6 DEF QueueExact, Lists

LEMMA ClaimQueue ==
    ASSUME TypeOK, QueueExact, NEW c \in Claimers, Claim(c)
    PROVE  QueueExact'
<1>. DEFINE p == ClaimsFrom[c]
            D == Due(p)
            S == (D \ Spent(D)) \cup Queued(p)
<1>0. p \in Pools /\ D \in SUBSET LeasesOf(p)
    BY WorkBrokerAssumption DEF Due, LeasesOf
<1>1. CASE ClaimCall(c) \/ ClaimTimeout(c) \/ ClaimStopped(c)
    BY <1>1 DEF ClaimCall, ClaimTimeout, ClaimStopped, recordVars, QueueExact, Queued
<1>2. CASE ClaimWait(c)
    <2>1. /\ records' = records \ Spent(D)
          /\ lease' = [w \in Work |-> IF w \in D THEN "none" ELSE lease[w]]
        BY <1>2 DEF ClaimWait, Retire
    <2>2. PICK s \in Orders(D \ Spent(D)) :
            \/ queue' = [queue EXCEPT ![p] = Front(s, queue[p])]
            \/ /\ \A i \in 1..Len(Front(s, queue[p])) : ~Ready(Front(s, queue[p])[i], D)
               /\ queue' = [queue EXCEPT ![p] = <<>>]
        BY <1>2 DEF ClaimWait
    <2>3. Queued(p)' = S
        BY <1>0, <2>1 DEF Queued, LeasesOf, Spent, TypeOK
    <2>4. \A r \in Pools : r # p => Queued(r)' = Queued(r) /\ queue'[r] = queue[r]
        BY <1>0, <2>1, <2>2 DEF Queued, LeasesOf, Spent, TypeOK
    <2>. DEFINE q == Front(s, queue[p])
    <2>5. q \in Seq(Work) /\ Lists(q, S) /\ S \in SUBSET Work /\ \A v \in S : Ready(v, D)
        BY <1>0, SweptQueue
    <2>6. Lists(queue'[p], S)
        <3>. HIDE DEF S, D, q
        <3>1. CASE queue' = [queue EXCEPT ![p] = q]
            BY <1>0, <2>5, <3>1 DEF TypeOK
        <3>2. CASE (\A i \in 1..Len(q) : ~Ready(q[i], D)) /\ queue' = [queue EXCEPT ![p] = <<>>]
            <4>1. S = {}
                BY <2>5, <3>2 DEF Lists
            <4>2. queue'[p] = <<>>
                BY <1>0, <3>2 DEF TypeOK
            <4>. QED BY <4>1, <4>2 DEF Lists
        <3>. QED BY <2>2, <3>1, <3>2 DEF q
    <2>. QED BY <1>0, <2>3, <2>4, <2>6 DEF QueueExact, Lists
<1>3. ASSUME NEW w \in Work, ClaimGrant(c, w) PROVE QueueExact'
    <2>1. /\ records' = records \ Spent(D)
          /\ lease' = [v \in Work |-> IF v = w THEN "held"
                                     ELSE IF v \in D THEN "none" ELSE lease[v]]
        BY <1>3 DEF ClaimGrant, Retire
    <2>2. PICK s \in Orders(D \ Spent(D)) :
            \E r \in Rests(Front(s, queue[p]), w, D) : queue' = [queue EXCEPT ![p] = r]
        BY <1>3 DEF ClaimGrant
    <2>3. PICK rest \in Rests(Front(s, queue[p]), w, D) : queue' = [queue EXCEPT ![p] = rest]
        BY <2>2
    <2>4. /\ Front(s, queue[p]) \in Seq(Work) /\ Lists(Front(s, queue[p]), S)
          /\ S \in SUBSET Work /\ \A v \in S : Ready(v, D) /\ PoolOf[v] = p
        BY <1>0, SweptQueue
    <2>5. w \in S /\ Lists(rest, S \ {w})
        <3>. HIDE DEF S, D
        <3>. QED BY <2>4, RestsLists
    <2>6. Queued(p)' = S \ {w}
        BY <1>0, <2>1, <2>5 DEF Queued, LeasesOf, Spent, TypeOK
    <2>7. \A r \in Pools : r # p => Queued(r)' = Queued(r)
        BY <1>0, <2>1, <2>4, <2>5 DEF Queued, LeasesOf, Spent, TypeOK
    <2>8. queue'[p] = rest /\ \A r \in Pools : r # p => queue'[r] = queue[r]
        BY <1>0, <2>3 DEF TypeOK
    <2>. HIDE DEF S, D
    <2>. QED BY <1>0, <2>5, <2>6, <2>7, <2>8 DEF QueueExact, Lists
<1>. QED BY <1>1, <1>2, <1>3 DEF Claim

LEMMA QueueStep == TypeOK /\ LifeInv /\ QueueExact /\ [Next]_vars => QueueExact'
<1>. SUFFICES ASSUME TypeOK, LifeInv, QueueExact, [Next]_vars PROVE QueueExact'
    OBVIOUS
<1>0. ASSUME UNCHANGED <<records, queue, lease>> PROVE QueueExact'
    BY <1>0 DEF QueueExact, Queued, Lists
<1>1. ASSUME NEW w \in Work, Admission(w) PROVE QueueExact'
    <2>1. ASSUME Commit(w), fate[w] = "admitting" PROVE QueueExact'
        <3>. DEFINE p == PoolOf[w]
        <3>0. p \in Pools
            BY WorkBrokerAssumption
        <3>1. /\ records' = records \cup {w} /\ UNCHANGED lease
              /\ queue' = [queue EXCEPT ![p] = Enqueued(@, w)]
            BY <2>1 DEF Commit
        <3>2. w \notin records /\ lease[w] = "none"
            BY <2>1 DEF LifeInv, Untouched, OnlyRecordsLeased
        <3>3. Queued(p)' = Queued(p) \cup {w} /\ \A r \in Pools : r # p => Queued(r)' = Queued(r)
            BY <3>1, <3>2 DEF Queued
        <3>4. queue'[p] = Enqueued(queue[p], w) /\ \A r \in Pools : r # p => queue'[r] = queue[r]
            BY <3>0, <3>1 DEF TypeOK
        <3>5. /\ queue[p] \in Seq(Work) /\ Queued(p) \in SUBSET Work
              /\ Lists(queue[p], Queued(p)) /\ w \notin Queued(p)
            BY <3>0, <3>2 DEF TypeOK, Queued, QueueExact
        <3>6. Lists(Enqueued(queue[p], w), Queued(p) \cup {w})
            BY <3>5, EnqueuedLists
        <3>. QED BY <3>3, <3>4, <3>6 DEF QueueExact, Lists
    <2>2. ASSUME At(w, "payload") \/ At(w, "sidecar") PROVE fate[w] = "admitting"
        BY <2>2 DEF LifeInv, InFlight
    <2>3. CASE EnqueueStart(w) \/ EnqueueReject(w) \/ EnqueueAdmit(w)
        BY <1>0, <2>3 DEF EnqueueStart, EnqueueReject, EnqueueAdmit, recordVars
    <2>4. CASE SpoolPayload(w)
        <3>1. CASE Commit(w)
            BY <2>1, <2>2, <2>4, <3>1 DEF SpoolPayload
        <3>2. CASE ~Commit(w)
            <4>1. UNCHANGED recordVars
                BY <2>4, <3>2, Zenon DEF SpoolPayload
            <4>. QED BY <1>0, <4>1 DEF recordVars
        <3>. QED BY <3>1, <3>2
    <2>5. CASE SpoolSidecar(w)
        BY <2>1, <2>2, <2>5 DEF SpoolSidecar
    <2>6. CASE SpoolFails(w) \/ EnqueueUndo(w)
        BY <1>0, <2>6 DEF SpoolFails, EnqueueUndo, recordVars
    <2>. QED BY <1>1, <2>3, <2>4, <2>5, <2>6 DEF Admission
<1>2. ASSUME NEW w \in Work, LeaseDue(w) \/ AckDone(w) PROVE QueueExact'
    <2>1. CASE LeaseDue(w)
        BY <2>1 DEF LeaseDue, QueueExact, Queued, Lists, TypeOK
    <2>. QED BY <1>0, <1>2, <2>1 DEF AckDone, recordVars
<1>3. ASSUME NEW w \in Work, NEW g \in Generations, LeaseCall(w, g) PROVE QueueExact'
    <2>. PoolOf[w] \in Pools
        BY WorkBrokerAssumption
    <2>1. CASE Heartbeat(w, g)
        <3>1. \A r \in Pools : Queued(r)' = Queued(r)
            BY <2>1 DEF Heartbeat, Current, Queued, TypeOK
        <3>. QED BY <2>1, <3>1 DEF Heartbeat, QueueExact, Lists
    <2>2. CASE Activate(w, g)
        BY <1>0, <2>2 DEF Activate
    <2>3. CASE Release(w, g)
        BY <2>3, RequeueQueue DEF Release, Current, LeasesOf
    <2>4. CASE PayloadMissing(w, g)
        BY <2>3, <2>4 DEF PayloadMissing
    <2>5. CASE Acknowledge(w, g)
        <3>1. \A r \in Pools : Queued(r)' = Queued(r)
            BY <2>5 DEF Acknowledge, Current, Queued, TypeOK
        <3>. QED BY <2>5, <3>1 DEF Acknowledge, QueueExact, Lists
    <2>. QED BY <1>3, <2>1, <2>2, <2>3, <2>4, <2>5 DEF LeaseCall
<1>4. ASSUME NEW c \in Claimers, Claim(c) PROVE QueueExact'
    BY <1>4, ClaimQueue
<1>5. ASSUME NEW p \in Pools, Sweep(p) PROVE QueueExact'
    BY <1>5, RequeueQueue DEF Sweep, Due, LeasesOf
<1>6. ASSUME NEW f \in Files, Unlink(f) \/ LoseFile(f) PROVE QueueExact'
    BY <1>0, <1>6 DEF Unlink, LoseFile, recordVars
<1>7. ASSUME NEW W \in SUBSET Work, Forget(W) PROVE QueueExact'
    BY <1>7 DEF Forget, QueueExact, Queued, Lists
<1>8. ASSUME Shutdown PROVE QueueExact'
    BY <1>0, <1>7, <1>8 DEF Shutdown, ShutdownBegin, ShutdownNotify, ShutdownDrain, ShutdownDiscard,
                            ShutdownClear, recordVars, TypeOK
<1>9. CASE Crash
    <2>1. records \cup {w \in Work : fate[w] = "admitting"} \in SUBSET Work
        BY DEF TypeOK
    <2>. QED BY <1>7, <1>9, <2>1 DEF Crash
<1>10. CASE Start
    BY <1>0, <1>10 DEF Start, recordVars
<1>11. CASE UNCHANGED vars
    BY <1>0, <1>11 DEF vars, recordVars
<1>. QED BY <1>1, <1>2, <1>3, <1>4, <1>5, <1>6, <1>8, <1>9, <1>10, <1>11 DEF Next

-----------------------------------------------------------------------------
(* The attempt counts.                                                     *)

\* What RequeueOrExhaust leaves of them, for the leases D.
LEMMA RequeueAttempts ==
    ASSUME TypeOK, AttemptInv, NEW D,
           records' = records \ Spent(D), UNCHANGED <<generation, activated, attempts>>,
           lease' = [w \in Work |-> IF w \in D THEN "none" ELSE lease[w]]
    PROVE  AttemptInv'
<1>1. \A w \in records' : w \in records /\ w \notin Spent(D)
    OBVIOUS
<1>2. \A w \in records : lease'[w] = IF w \in D THEN "none" ELSE lease[w]
    BY DEF TypeOK
<1>3. \A w \in records \ Spent(D) : w \in D => attempts[w] < MaxDeliveryAttempts
    BY WorkBrokerAssumption DEF Spent, TypeOK
<1>. QED BY <1>1, <1>2, <1>3 DEF AttemptInv, DeliveryBudget, OneAttemptPerGeneration

LEMMA AttemptStep == TypeOK /\ LifeInv /\ AttemptInv /\ [Next]_vars => AttemptInv'
<1>. SUFFICES ASSUME TypeOK, LifeInv, AttemptInv, [Next]_vars PROVE AttemptInv'
    OBVIOUS
<1>0. ASSUME records' \subseteq records, UNCHANGED <<lease, generation, activated, attempts>>
      PROVE  AttemptInv'
    BY <1>0 DEF AttemptInv, DeliveryBudget, OneAttemptPerGeneration
<1>1. ASSUME NEW w \in Work, Admission(w) PROVE AttemptInv'
    <2>1. ASSUME Commit(w), fate[w] = "admitting" PROVE AttemptInv'
        <3>1. /\ records' = records \cup {w} /\ UNCHANGED <<lease, generation, activated, attempts>>
              /\ w \notin records /\ lease[w] = "none" /\ attempts[w] = 0 /\ generation[w] = 0
            BY <2>1 DEF Commit, LifeInv, Untouched, OnlyRecordsLeased
        <3>. QED BY <3>1, WorkBrokerAssumption DEF AttemptInv, DeliveryBudget, OneAttemptPerGeneration
    <2>2. ASSUME At(w, "payload") \/ At(w, "sidecar") PROVE fate[w] = "admitting"
        BY <2>2 DEF LifeInv, InFlight
    <2>3. CASE EnqueueStart(w) \/ EnqueueReject(w) \/ EnqueueAdmit(w)
        BY <1>0, <2>3 DEF EnqueueStart, EnqueueReject, EnqueueAdmit, recordVars
    <2>4. CASE SpoolPayload(w)
        <3>1. CASE Commit(w)
            BY <2>1, <2>2, <2>4, <3>1 DEF SpoolPayload
        <3>2. CASE ~Commit(w)
            <4>1. UNCHANGED recordVars
                BY <2>4, <3>2, Zenon DEF SpoolPayload
            <4>. QED BY <1>0, <4>1 DEF recordVars
        <3>. QED BY <3>1, <3>2
    <2>5. CASE SpoolSidecar(w)
        BY <2>1, <2>2, <2>5 DEF SpoolSidecar
    <2>6. CASE SpoolFails(w) \/ EnqueueUndo(w)
        BY <1>0, <2>6 DEF SpoolFails, EnqueueUndo, recordVars
    <2>. QED BY <1>1, <2>3, <2>4, <2>5, <2>6 DEF Admission
<1>2. ASSUME NEW w \in Work, lease[w] # "none", UNCHANGED <<records, generation, activated, attempts>>,
             \E l \in {"held", "due"} : lease' = [lease EXCEPT ![w] = l]
      PROVE  AttemptInv'
    <2>1. \A v \in Work : lease'[v] = "none" <=> lease[v] = "none"
        BY <1>2 DEF TypeOK
    <2>. QED BY <1>2, <2>1 DEF AttemptInv, DeliveryBudget, OneAttemptPerGeneration, TypeOK
<1>3. ASSUME NEW w \in Work, LeaseDue(w) \/ AckDone(w) PROVE AttemptInv'
    BY <1>0, <1>2, <1>3 DEF LeaseDue, AckDone, recordVars
<1>4. ASSUME NEW w \in Work, NEW g \in Generations, LeaseCall(w, g) PROVE AttemptInv'
    <2>1. CASE Heartbeat(w, g)
        BY <1>2, <2>1 DEF Heartbeat, Current
    <2>2. CASE Activate(w, g)
        <3>1. /\ w \in records /\ lease[w] # "none" /\ generation[w] = g /\ activated[w] # g
              /\ attempts' = [attempts EXCEPT ![w] = @ + 1]
              /\ activated' = [activated EXCEPT ![w] = g]
              /\ UNCHANGED <<records, lease, generation>>
            BY <2>2 DEF Activate, Current, Counted
        <3>2. attempts[w] < MaxDeliveryAttempts /\ attempts[w] < generation[w]
            BY <3>1 DEF AttemptInv, OneAttemptPerGeneration
        <3>3. attempts'[w] = attempts[w] + 1 /\ activated'[w] = generation'[w]
            BY <3>1 DEF TypeOK
        <3>4. \A v \in Work : v # w => attempts'[v] = attempts[v] /\ activated'[v] = activated[v]
            BY <3>1 DEF TypeOK
        <3>5. attempts'[w] <= MaxDeliveryAttempts /\ attempts'[w] <= generation'[w]
            BY <3>1, <3>2, <3>3, WorkBrokerAssumption DEF TypeOK
        <3>. QED BY <3>1, <3>3, <3>4, <3>5
                 DEF AttemptInv, DeliveryBudget, OneAttemptPerGeneration, TypeOK
    <2>3. CASE Release(w, g)
        BY <2>3, RequeueAttempts DEF Release, RequeueOrExhaust, Retire
    <2>4. CASE PayloadMissing(w, g)
        BY <2>3, <2>4 DEF PayloadMissing
    <2>5. CASE Acknowledge(w, g)
        <3>1. /\ records' = records \ {w} /\ UNCHANGED <<generation, activated, attempts>>
              /\ \A v \in records' : lease'[v] = lease[v]
            BY <2>5 DEF Acknowledge, TypeOK
        <3>. QED BY <3>1 DEF AttemptInv, DeliveryBudget, OneAttemptPerGeneration
    <2>. QED BY <1>4, <2>1, <2>2, <2>3, <2>4, <2>5 DEF LeaseCall
<1>5. ASSUME NEW c \in Claimers, Claim(c) PROVE AttemptInv'
    <2>. DEFINE D == Due(ClaimsFrom[c])
    <2>1. CASE ClaimCall(c) \/ ClaimTimeout(c) \/ ClaimStopped(c)
        BY <1>0, <2>1 DEF ClaimCall, ClaimTimeout, ClaimStopped, recordVars
    <2>2. CASE ClaimWait(c)
        BY <2>2, RequeueAttempts DEF ClaimWait, Retire
    <2>3. ASSUME NEW w \in Work, ClaimGrant(c, w) PROVE AttemptInv'
        <3>1. /\ records' = records \ Spent(D) /\ UNCHANGED attempts
              /\ generation' = [generation EXCEPT ![w] = @ + 1]
              /\ activated' = [activated EXCEPT ![w] = 0]
              /\ lease' = [v \in Work |-> IF v = w THEN "held"
                                         ELSE IF v \in D THEN "none" ELSE lease[v]]
            BY <2>3 DEF ClaimGrant, Retire
        <3>2. w \in records \ Spent(D) /\ (lease[w] = "none" \/ w \in D)
            BY <2>3 DEF ClaimGrant, Rests, Ready
        <3>3. \A v \in records \ Spent(D) : v \in D => attempts[v] < MaxDeliveryAttempts
            BY WorkBrokerAssumption DEF Spent, TypeOK
        <3>4. attempts[w] < MaxDeliveryAttempts /\ attempts[w] <= generation[w]
            BY <3>2, <3>3 DEF AttemptInv, DeliveryBudget, OneAttemptPerGeneration
        <3>5. /\ generation'[w] = generation[w] + 1 /\ activated'[w] = 0 /\ lease'[w] = "held"
              /\ generation[w] \in Nat /\ attempts[w] \in Nat
            BY <3>1 DEF TypeOK
        <3>6. \A v \in Work : v # w => /\ generation'[v] = generation[v] /\ activated'[v] = activated[v]
                                       /\ lease'[v] = IF v \in D THEN "none" ELSE lease[v]
            BY <3>1 DEF TypeOK
        <3>. HIDE DEF D
        <3>7. attempts[w] <= MaxDeliveryAttempts /\ attempts[w] < generation'[w]
            BY <3>4, <3>5, WorkBrokerAssumption
        <3>8. DeliveryBudget'
            BY <3>1, <3>3, <3>5, <3>6, <3>7 DEF AttemptInv, DeliveryBudget, TypeOK
        <3>9. OneAttemptPerGeneration'
            BY <3>1, <3>5, <3>6, <3>7 DEF AttemptInv, OneAttemptPerGeneration, TypeOK
        <3>10. \A v \in records' : lease'[v] # "none" /\ activated'[v] # generation'[v]
                    => attempts'[v] < MaxDeliveryAttempts
            BY <3>1, <3>4, <3>6 DEF AttemptInv, TypeOK
        <3>. QED BY <3>8, <3>9, <3>10 DEF AttemptInv
    <2>. QED BY <1>5, <2>1, <2>2, <2>3 DEF Claim
<1>6. ASSUME NEW p \in Pools, Sweep(p) PROVE AttemptInv'
    BY <1>6, RequeueAttempts DEF Sweep, RequeueOrExhaust, Retire
<1>7. ASSUME NEW f \in Files, Unlink(f) \/ LoseFile(f) PROVE AttemptInv'
    BY <1>0, <1>7 DEF Unlink, LoseFile, recordVars
<1>8. ASSUME records' = {} PROVE AttemptInv'
    BY <1>8 DEF AttemptInv, DeliveryBudget, OneAttemptPerGeneration
<1>9. ASSUME Shutdown \/ Crash PROVE AttemptInv'
    BY <1>0, <1>8, <1>9 DEF Shutdown, ShutdownBegin, ShutdownNotify, ShutdownDrain, ShutdownDiscard,
                            ShutdownClear, Crash, Forget, recordVars
<1>10. CASE Start \/ UNCHANGED vars
    BY <1>0, <1>10 DEF Start, vars, recordVars
<1>. QED BY <1>1, <1>3, <1>4, <1>5, <1>6, <1>7, <1>9, <1>10 DEF Next

-----------------------------------------------------------------------------
(* The theorems.                                                           *)

LEMMA Invariance == Spec => []IInv
<1>1. IInv /\ [Next]_vars => IInv'
    BY TypeStep, LifeStep, QueueStep, AttemptStep DEF IInv
<1>. QED BY InitInvariant, <1>1, PTL DEF Spec

\* A pool's queue lists exactly its records without a lease, each once, in any
\* order of claims, heartbeats, expiries, releases, acknowledgements and crashes.
THEOREM QueueIsExact == Spec => []QueueExact
<1>1. IInv => QueueExact
    BY DEF IInv
<1>. QED BY Invariance, <1>1, PTL

\* No record is activated more than max_delivery_attempts times, and a queued
\* one has an attempt left.
THEOREM DeliveryIsBounded == Spec => []DeliveryBudget
<1>1. IInv => DeliveryBudget
    BY DEF IInv, AttemptInv
<1>. QED BY Invariance, <1>1, PTL

\* Repeating activate() for a lease spends no second attempt.
THEOREM ActivationIsIdempotent == Spec => []OneAttemptPerGeneration
<1>1. IInv => OneAttemptPerGeneration
    BY DEF IInv, AttemptInv
<1>. QED BY Invariance, <1>1, PTL

\* Delivery attempts count exactly what workers were allowed to execute.
THEOREM AttemptsAreExact == Spec => []AttemptsExact
<1>1. DeliveryBudget /\ OneAttemptPerGeneration => AttemptsExact
    BY DEF AttemptsExact
<1>. QED BY DeliveryIsBounded, ActivationIsIdempotent, <1>1, PTL

-----------------------------------------------------------------------------
(* What a step can do to the records.                                      *)

Writes == {"payload", "sidecar"}
Quiet == UNCHANGED phase

\* Nothing, whatever becomes of an upload that has no record yet.
NoRecordStep ==
    /\ UNCHANGED recordVars
    /\ \A w \in Work : \/ fate'[w] = fate[w]
                       \/ fate[w] \in {"unseen", "admitting"} /\ fate'[w] \in {"admitting", "rejected"}

\* The last spool write of an upload has returned.
CommitStep(w) == Quiet /\ Commit(w) /\ \E st \in Writes : At(w, st)

\* Leases are taken back, by the sweep of a pool or by the holder of one.
RequeueStep(p, D) ==
    /\ Quiet /\ D # {} /\ D \subseteq LeasesOf(p) /\ op[p] = Free
    /\ RequeueOrExhaust(p, D)

ClaimStep(c) == Quiet /\ (ClaimWait(c) \/ \E w \in Work : ClaimGrant(c, w))

\* A lease comes due or is revived.
TermStep(w) ==
    /\ Quiet /\ w \in records /\ lease[w] # "none"
    /\ \E l \in {"held", "due"} : lease' = [lease EXCEPT ![w] = l]
    /\ UNCHANGED <<records, queue, generation, activated, attempts, fate, spoolBytes>>

ActivateStep(w) ==
    /\ Quiet /\ w \in records
    /\ UNCHANGED <<records, queue, lease, generation, fate, spoolBytes>>

AckStep(w) ==
    /\ Quiet /\ w \in records /\ lease[w] # "none" /\ op[PoolOf[w]] = Free
    /\ records' = records \ {w} /\ lease' = [lease EXCEPT ![w] = "none"]
    /\ fate' = [fate EXCEPT ![w] = "acknowledged"]
    /\ UNCHANGED <<queue, generation, activated, attempts>>

ForgetStep == \E W \in SUBSET Work :
    /\ W \subseteq records \cup {w \in Work : fate[w] = "admitting"}
    /\ Forget(W)

RecordStep ==
    \/ NoRecordStep
    \/ \E w \in Work : CommitStep(w) \/ TermStep(w) \/ ActivateStep(w) \/ AckStep(w)
    \/ \E p \in Pools, D \in SUBSET Work : RequeueStep(p, D)
    \/ \E c \in Claimers : ClaimStep(c)
    \/ ForgetStep

LEMMA RecordSteps == TypeOK /\ LifeInv /\ [Next]_vars => RecordStep
<1>. SUFFICES ASSUME TypeOK, LifeInv, [Next]_vars PROVE RecordStep
    OBVIOUS
<1>0. ASSUME UNCHANGED recordVars, UNCHANGED fate PROVE RecordStep
    BY <1>0 DEF RecordStep, NoRecordStep
<1>1. ASSUME NEW w \in Work, Admission(w) PROVE RecordStep
    <2>1. \A st \in {"admission", "payload", "sidecar", "undo"} : At(w, st) => fate[w] = "admitting"
        BY DEF LifeInv, InFlight
    <2>2. CASE EnqueueStart(w)
        BY <2>2 DEF EnqueueStart, RecordStep, NoRecordStep, TypeOK
    <2>3. CASE EnqueueReject(w) \/ EnqueueUndo(w)
        BY <2>1, <2>3 DEF EnqueueReject, EnqueueUndo, RecordStep, NoRecordStep, TypeOK
    <2>4. CASE EnqueueAdmit(w) \/ SpoolFails(w)
        BY <1>0, <2>4 DEF EnqueueAdmit, SpoolFails
    <2>5. CASE SpoolPayload(w)
        <3>1. CASE Commit(w)
            BY <2>5, <3>1 DEF SpoolPayload, RecordStep, CommitStep, Quiet, phaseVars, Writes
        <3>2. CASE ~Commit(w)
            <4>1. UNCHANGED recordVars /\ UNCHANGED fate
                BY <2>5, <3>2, Zenon DEF SpoolPayload
            <4>. QED BY <1>0, <4>1
        <3>. QED BY <3>1, <3>2
    <2>6. CASE SpoolSidecar(w)
        BY <2>6 DEF SpoolSidecar, RecordStep, CommitStep, Quiet, phaseVars, Writes
    <2>. QED BY <1>1, <2>2, <2>3, <2>4, <2>5, <2>6 DEF Admission
<1>2. ASSUME NEW w \in Work, LeaseDue(w) \/ AckDone(w) PROVE RecordStep
    BY <1>0, <1>2 DEF LeaseDue, AckDone, RecordStep, TermStep, Quiet, phaseVars, spoolVars
<1>3. ASSUME NEW w \in Work, NEW g \in Generations, LeaseCall(w, g) PROVE RecordStep
    <2>1. CASE Heartbeat(w, g)
        BY <2>1 DEF Heartbeat, Current, RecordStep, TermStep, Quiet, phaseVars, spoolVars
    <2>2. CASE Activate(w, g)
        BY <2>2 DEF Activate, Current, RecordStep, ActivateStep, Quiet, phaseVars, spoolVars
    <2>3. CASE Release(w, g)
        <3>1. RequeueStep(PoolOf[w], {w})
            BY <2>3 DEF Release, Current, RequeueStep, LeasesOf, Quiet, phaseVars
        <3>. QED BY <3>1, WorkBrokerAssumption DEF RecordStep
    <2>4. CASE PayloadMissing(w, g)
        BY <2>3, <2>4 DEF PayloadMissing
    <2>5. CASE Acknowledge(w, g)
        BY <2>5 DEF Acknowledge, Current, RecordStep, AckStep, Quiet, phaseVars
    <2>. QED BY <1>3, <2>1, <2>2, <2>3, <2>4, <2>5 DEF LeaseCall
<1>4. ASSUME NEW c \in Claimers, Claim(c) PROVE RecordStep
    <2>1. CASE ClaimCall(c) \/ ClaimTimeout(c) \/ ClaimStopped(c)
        BY <1>0, <2>1 DEF ClaimCall, ClaimTimeout, ClaimStopped
    <2>2. CASE ClaimWait(c)
        BY <2>2 DEF ClaimWait, RecordStep, ClaimStep, Quiet, phaseVars
    <2>3. ASSUME NEW w \in Work, ClaimGrant(c, w) PROVE RecordStep
        BY <2>3 DEF ClaimGrant, RecordStep, ClaimStep, Quiet, phaseVars
    <2>. QED BY <1>4, <2>1, <2>2, <2>3 DEF Claim
<1>5. ASSUME NEW p \in Pools, Sweep(p) PROVE RecordStep
    <2>1. RequeueStep(p, Due(p)) /\ Due(p) \in SUBSET Work
        BY <1>5, DueTyped DEF Sweep, RequeueStep, Due, LeasesOf, Quiet, phaseVars
    <2>. QED BY <2>1 DEF RecordStep
<1>6. ASSUME NEW f \in Files, Unlink(f) \/ LoseFile(f) PROVE RecordStep
    BY <1>0, <1>6 DEF Unlink, LoseFile
<1>7. CASE Shutdown
    <2>1. CASE ShutdownClear
        BY <2>1 DEF ShutdownClear, RecordStep, ForgetStep, TypeOK
    <2>. QED BY <1>0, <1>7, <2>1 DEF Shutdown, ShutdownBegin, ShutdownNotify, ShutdownDrain, ShutdownDiscard
<1>8. CASE Crash
    <2>1. records \cup {w \in Work : fate[w] = "admitting"} \in SUBSET Work
        BY DEF TypeOK
    <2>. QED BY <1>8, <2>1 DEF Crash, RecordStep, ForgetStep
<1>9. CASE Start \/ UNCHANGED vars
    BY <1>0, <1>9 DEF Start, vars
<1>. QED BY <1>1, <1>2, <1>3, <1>4, <1>5, <1>6, <1>7, <1>8, <1>9 DEF Next

-----------------------------------------------------------------------------
(* A work ends once.                                                       *)

\* The records are the works that are admitted and have not ended; a lease has
\* been claimed.
FateInv == \A w \in records : fate[w] = "admitted"
ClaimedInv == \A w \in records : lease[w] # "none" => generation[w] > 0
EndInv == FateInv /\ ClaimedInv

\* What the end of deliveries D does to the works.
Retired(D) ==
    /\ records' = records \ Spent(D)
    /\ fate' = [w \in Work |-> IF w \in Spent(D) THEN "exhausted" ELSE fate[w]]

\* What a claim grants is of its pool.
LEMMA GrantPool ==
    ASSUME TypeOK, QueueExact, NEW c \in Claimers, NEW w \in Work, ClaimGrant(c, w)
    PROVE  PoolOf[w] = ClaimsFrom[c]
<1>. DEFINE p == ClaimsFrom[c]
            D == Due(p)
            S == (D \ Spent(D)) \cup Queued(p)
<1>1. p \in Pools /\ D \in SUBSET LeasesOf(p)
    BY WorkBrokerAssumption DEF Due, LeasesOf
<1>2. PICK s \in Orders(D \ Spent(D)) :
        \E rest \in Rests(Front(s, queue[p]), w, D) : queue' = [queue EXCEPT ![p] = rest]
    BY DEF ClaimGrant
<1>3. Lists(Front(s, queue[p]), S) /\ \A v \in S : PoolOf[v] = p
    BY <1>1, SweptQueue
<1>. HIDE DEF S
<1>4. w \in S
    BY <1>2, <1>3 DEF Rests, Lists
<1>. QED BY <1>3, <1>4

\* Whatever a claim meets, it sweeps first; what it grants was ready.
LEMMA ClaimParts ==
    ASSUME TypeOK, QueueExact, NEW c \in Claimers, ClaimStep(c)
    PROVE  \E D \in SUBSET LeasesOf(ClaimsFrom[c]) :
             /\ D = Due(ClaimsFrom[c]) /\ Retired(D) /\ UNCHANGED attempts
             /\ \/ /\ lease' = [w \in Work |-> IF w \in D THEN "none" ELSE lease[w]]
                   /\ UNCHANGED <<generation, activated>>
                \/ \E w \in records \ Spent(D) :
                     /\ lease' = [v \in Work |-> IF v = w THEN "held"
                                                ELSE IF v \in D THEN "none" ELSE lease[v]]
                     /\ generation' = [generation EXCEPT ![w] = @ + 1]
                     /\ PoolOf[w] = ClaimsFrom[c]
                     /\ SlotFree(ClaimsFrom[c], D)
<1>. DEFINE p == ClaimsFrom[c]
            D == Due(p)
<1>1. p \in Pools /\ D \in SUBSET LeasesOf(p)
    BY WorkBrokerAssumption DEF Due, LeasesOf
<1>2. CASE ClaimWait(c)
    BY <1>1, <1>2 DEF ClaimWait, Retire, Retired
<1>3. ASSUME NEW w \in Work, ClaimGrant(c, w) PROVE w \in records \ Spent(D) /\ PoolOf[w] = p
    <2>1. PICK s \in Orders(D \ Spent(D)) :
            \E rest \in Rests(Front(s, queue[p]), w, D) : queue' = [queue EXCEPT ![p] = rest]
        BY <1>3 DEF ClaimGrant
    <2>2. Ready(w, D)
        BY <2>1 DEF Rests
    <2>. QED BY <1>3, <2>2, GrantPool DEF Ready
<1>4. ASSUME NEW w \in Work, ClaimGrant(c, w)
      PROVE  /\ Retired(D) /\ UNCHANGED attempts /\ SlotFree(p, D)
             /\ lease' = [v \in Work |-> IF v = w THEN "held" ELSE IF v \in D THEN "none" ELSE lease[v]]
             /\ generation' = [generation EXCEPT ![w] = @ + 1]
    BY <1>4 DEF ClaimGrant, Retire, Retired
<1>. HIDE DEF D
<1>5. CASE \E w \in Work : ClaimGrant(c, w)
    <2>1. PICK w \in Work : ClaimGrant(c, w)
        BY <1>5
    <2>. QED BY <1>1, <1>3, <1>4, <2>1 DEF D
<1>. QED BY <1>1, <1>2, <1>5 DEF ClaimStep, D

LEMMA EndStep == IInv /\ EndInv /\ [Next]_vars => EndInv'
<1>. SUFFICES ASSUME IInv, EndInv, [Next]_vars PROVE EndInv'
    OBVIOUS
<1>. USE DEF EndInv, FateInv, ClaimedInv
<1>0. TypeOK /\ LifeInv /\ QueueExact /\ RecordStep
    BY RecordSteps DEF IInv
<1>1. CASE NoRecordStep
    BY <1>0, <1>1 DEF NoRecordStep, recordVars, LifeInv, Untouched, TypeOK
<1>2. ASSUME NEW w \in Work, CommitStep(w) PROVE EndInv'
    <2>1. fate[w] = "admitting"
        BY <1>0, <1>2 DEF CommitStep, Writes, LifeInv, InFlight
    <2>2. w \notin records /\ lease[w] = "none"
        BY <1>0, <2>1 DEF LifeInv, Untouched, OnlyRecordsLeased
    <2>. QED BY <1>0, <1>2, <2>2 DEF CommitStep, Commit, TypeOK
<1>3. ASSUME NEW w \in Work, TermStep(w) \/ ActivateStep(w) \/ AckStep(w) PROVE EndInv'
    BY <1>0, <1>3 DEF TermStep, ActivateStep, AckStep, TypeOK
<1>4. ASSUME NEW p \in Pools, NEW D \in SUBSET Work, RequeueStep(p, D) PROVE EndInv'
    BY <1>0, <1>4 DEF RequeueStep, RequeueOrExhaust, Retire, TypeOK
<1>5. ASSUME NEW c \in Claimers, ClaimStep(c) PROVE EndInv'
    <2>1. PICK D \in SUBSET LeasesOf(ClaimsFrom[c]) :
             /\ Retired(D)
             /\ \/ /\ lease' = [w \in Work |-> IF w \in D THEN "none" ELSE lease[w]]
                   /\ UNCHANGED <<generation, activated>>
                \/ \E w \in records \ Spent(D) :
                     /\ lease' = [v \in Work |-> IF v = w THEN "held"
                                                ELSE IF v \in D THEN "none" ELSE lease[v]]
                     /\ generation' = [generation EXCEPT ![w] = @ + 1]
        BY <1>0, <1>5, ClaimParts
    <2>2. FateInv'
        BY <1>0, <2>1 DEF Retired, TypeOK
    <2>3. CASE UNCHANGED generation /\ lease' = [w \in Work |-> IF w \in D THEN "none" ELSE lease[w]]
        BY <1>0, <2>1, <2>2, <2>3 DEF Retired, TypeOK
    <2>4. ASSUME NEW w \in records \ Spent(D),
                 lease' = [v \in Work |-> IF v = w THEN "held" ELSE IF v \in D THEN "none" ELSE lease[v]],
                 generation' = [generation EXCEPT ![w] = @ + 1]
          PROVE  ClaimedInv'
        <3>1. generation[w] \in Nat /\ w \in Work
            BY <1>0 DEF TypeOK
        <3>2. \A v \in records' : v \in records /\ v \in Work
            BY <1>0, <2>1 DEF Retired, TypeOK
        <3>3. generation'[w] > 0
            BY <1>0, <2>4, <3>1 DEF TypeOK
        <3>4. \A v \in records : v # w => generation'[v] = generation[v]
            BY <1>0, <2>4 DEF TypeOK
        <3>. QED BY <2>4, <3>2, <3>3, <3>4
    <2>. QED BY <2>1, <2>2, <2>3, <2>4
<1>6. CASE ForgetStep
    BY <1>6 DEF ForgetStep, Forget
<1>. QED BY <1>0, <1>1, <1>2, <1>3, <1>4, <1>5, <1>6 DEF RecordStep

\* What has ended stays as it is, and only spent attempts exhaust a work.
Final(w) == fate[w] \in Ended => fate'[w] = fate[w] /\ w \notin records'
Deserved(w) ==
    fate[w] # "exhausted" /\ fate'[w] = "exhausted"
        => attempts[w] = MaxDeliveryAttempts /\ activated[w] = generation[w]

LEMMA RetiredEnds ==
    ASSUME IInv, EndInv, NEW p, NEW D \in SUBSET LeasesOf(p), Retired(D), NEW w \in Work
    PROVE  Final(w) /\ Deserved(w)
<1>1. ASSUME w \in Spent(D)
      PROVE  attempts[w] = MaxDeliveryAttempts /\ activated[w] = generation[w]
    <2>1. w \in records /\ lease[w] # "none" /\ attempts[w] >= MaxDeliveryAttempts
        BY <1>1 DEF Spent, LeasesOf
    <2>2. attempts[w] <= MaxDeliveryAttempts
        BY <2>1 DEF IInv, AttemptInv, DeliveryBudget
    <2>3. attempts[w] \in Nat /\ MaxDeliveryAttempts \in Nat
        BY WorkBrokerAssumption DEF IInv, TypeOK
    <2>4. attempts[w] = MaxDeliveryAttempts
        BY <2>1, <2>2, <2>3
    <2>. QED BY <2>1, <2>3, <2>4 DEF IInv, AttemptInv
<1>2. w \in Spent(D) => w \in records
    BY DEF Spent, LeasesOf
<1>. QED BY <1>1, <1>2 DEF Retired, Final, Deserved, Ended, EndInv, FateInv

LEMMA EndsStep ==
    ASSUME IInv, EndInv, [Next]_vars, NEW w \in Work
    PROVE  Final(w) /\ Deserved(w)
<1>0. TypeOK /\ LifeInv /\ QueueExact /\ RecordStep
    BY RecordSteps DEF IInv
<1>. USE DEF EndInv, FateInv
<1>1. CASE NoRecordStep
    BY <1>1 DEF NoRecordStep, recordVars, Final, Deserved, Ended
<1>2. ASSUME NEW v \in Work, CommitStep(v) PROVE Final(w) /\ Deserved(w)
    <2>1. fate[v] = "admitting"
        BY <1>0, <1>2 DEF CommitStep, Writes, LifeInv, InFlight
    <2>. QED BY <1>0, <1>2, <2>1 DEF CommitStep, Commit, Final, Deserved, Ended, TypeOK
<1>3. ASSUME NEW v \in Work, TermStep(v) \/ ActivateStep(v) \/ AckStep(v) PROVE Final(w) /\ Deserved(w)
    BY <1>0, <1>3 DEF TermStep, ActivateStep, AckStep, Final, Deserved, Ended, TypeOK
<1>4. ASSUME NEW p \in Pools, NEW D \in SUBSET Work, RequeueStep(p, D) PROVE Final(w) /\ Deserved(w)
    <2>1. Retired(D) /\ D \in SUBSET LeasesOf(p)
        BY <1>4 DEF RequeueStep, RequeueOrExhaust, Retire, Retired
    <2>. QED BY <2>1, RetiredEnds
<1>5. ASSUME NEW c \in Claimers, ClaimStep(c) PROVE Final(w) /\ Deserved(w)
    <2>1. \E D \in SUBSET LeasesOf(ClaimsFrom[c]) : Retired(D)
        BY <1>0, <1>5, ClaimParts
    <2>. QED BY <2>1, RetiredEnds
<1>6. CASE ForgetStep
    BY <1>0, <1>6 DEF ForgetStep, Forget, Final, Deserved, Ended
<1>. QED BY <1>0, <1>1, <1>2, <1>3, <1>4, <1>5, <1>6 DEF RecordStep

LEMMA EndInvariance == Spec => [](IInv /\ EndInv)
<1>1. Init => EndInv
    BY DEF Init, EndInv, FateInv, ClaimedInv
<1>2. EndInv /\ IInv /\ [Next]_vars => EndInv'
    BY EndStep
<1>. QED BY <1>1, <1>2, Invariance, PTL DEF Spec

\* A work ends once and for good, and is given up as exhausted only when the
\* last of max_delivery_attempts executions was really activated.
THEOREM WorksEndOnce == Spec => EndsOnce
<1>1. IInv /\ EndInv /\ [Next]_vars =>
        [\A w \in Work :
         /\ fate[w] \in Ended => fate'[w] = fate[w] /\ w \notin records'
         /\ fate[w] # "exhausted" /\ fate'[w] = "exhausted"
              => attempts[w] = MaxDeliveryAttempts /\ activated[w] = generation[w]]_vars
    BY EndsStep DEF Final, Deserved
<1>. QED BY EndInvariance, <1>1, PTL DEF EndsOnce, Spec

-----------------------------------------------------------------------------
(* A stopped broker is empty.  shutdown() takes each condition in turn: once *)
(* it has had one, no admission of that pool can still be writing.         *)

StopInv ==
    /\ phase \in {"running", "down"} => notified = {}
    /\ phase \in {"draining", "discarding", "stopped"} => notified = Pools
    /\ \A p \in notified : op[p].step \notin {"payload", "sidecar", "undo"}
    /\ phase = "down" => \A p \in Pools : op[p] = Free
    /\ StoppedIsEmpty

Halted == phase \in {"stopped", "down"}

\* A broker that has stopped, or is none, makes no step but NoRecordStep and ForgetStep.
LEMMA HaltedSteps ==
    ASSUME TypeOK, StopInv, Halted, RecordStep
    PROVE  NoRecordStep \/ ForgetStep
<1>1. \A w \in Work : ~CommitStep(w)
    BY WorkBrokerAssumption DEF CommitStep, Writes, At, StopInv, Halted, Free
<1>2. records = {}
    BY DEF StopInv, StoppedIsEmpty, Halted
<1>3. \A p \in Pools, D \in SUBSET Work : ~RequeueStep(p, D)
    BY <1>2 DEF RequeueStep, LeasesOf
<1>4. \A c \in Claimers : ~ClaimStep(c)
    BY DEF ClaimStep, ClaimWait, ClaimGrant, Running, Halted
<1>. QED BY <1>1, <1>2, <1>3, <1>4 DEF RecordStep, TermStep, ActivateStep, AckStep

\* How the phase and the locks move.
LockStep ==
    \/ /\ UNCHANGED <<phase, notified>>
       /\ \A p \in Pools : op'[p].step \in {"payload", "sidecar", "undo"} =>
              op[p].step \in {"payload", "sidecar", "undo"} \/ (op[p].step = "admission" /\ Running)
       /\ phase = "down" => UNCHANGED op
    \/ /\ UNCHANGED op
       /\ \/ ShutdownBegin \/ (\E p \in Pools : ShutdownNotify(p)) \/ ShutdownDrain
          \/ ShutdownDiscard \/ ShutdownClear \/ Start
    \/ Crash

LEMMA LockSteps == TypeOK /\ StopInv /\ [Next]_vars => LockStep
<1>. SUFFICES ASSUME TypeOK, StopInv, [Next]_vars PROVE LockStep
    OBVIOUS
<1>. USE DEF LockStep
<1>0. ASSUME UNCHANGED <<phase, notified, op>> PROVE LockStep
    BY <1>0
<1>a. phase = "down" => records = {} /\ \A p \in Pools : op[p] = Free
    BY DEF StopInv, StoppedIsEmpty
<1>1. ASSUME NEW w \in Work, Admission(w) PROVE LockStep
    <2>1. UNCHANGED <<phase, notified>> /\ phase # "down"
        <3>1. phase # "down"
            BY <1>1, <1>a, WorkBrokerAssumption
            DEF Admission, EnqueueStart, EnqueueReject, EnqueueAdmit, SpoolPayload, SpoolSidecar,
                SpoolFails, EnqueueUndo, At, Free
        <3>. QED BY <1>1, <3>1
            DEF Admission, EnqueueStart, EnqueueReject, EnqueueAdmit, SpoolPayload, SpoolSidecar,
                SpoolFails, EnqueueUndo, phaseVars
    <2>2. \/ op'[PoolOf[w]].step \notin {"payload", "sidecar", "undo"}
          \/ op[PoolOf[w]].step \in {"payload", "sidecar", "undo"}
          \/ op[PoolOf[w]].step = "admission" /\ Running
        BY <1>1, WorkBrokerAssumption
        DEF Admission, EnqueueStart, EnqueueReject, EnqueueAdmit, Admissible, SpoolPayload, SpoolSidecar,
            SpoolFails, EnqueueUndo, Commit, At, Free, TypeOK
    <2>3. \A p \in Pools : p # PoolOf[w] => op'[p] = op[p]
        BY <1>1, WorkBrokerAssumption
        DEF Admission, EnqueueStart, EnqueueReject, EnqueueAdmit, SpoolPayload, SpoolSidecar,
            SpoolFails, EnqueueUndo, Commit, At, Free, TypeOK
    <2>. QED BY <2>1, <2>2, <2>3
<1>2. ASSUME NEW w \in Work, LeaseDue(w) PROVE LockStep
    BY <1>0, <1>2 DEF LeaseDue, lockVars, phaseVars
<1>3. ASSUME NEW w \in Work, AckDone(w) PROVE LockStep
    BY <1>3, <1>a, WorkBrokerAssumption DEF AckDone, At, Free, phaseVars, TypeOK
<1>4. ASSUME NEW w \in Work, NEW g \in Generations, LeaseCall(w, g) PROVE LockStep
    <2>1. CASE Acknowledge(w, g)
        BY <2>1, <1>a, WorkBrokerAssumption DEF Acknowledge, Current, phaseVars, TypeOK
    <2>. QED BY <1>0, <1>4, <2>1
             DEF LeaseCall, Heartbeat, Activate, Release, PayloadMissing, lockVars, phaseVars
<1>5. ASSUME NEW c \in Claimers, Claim(c) PROVE LockStep
    BY <1>0, <1>5 DEF Claim, ClaimCall, ClaimWait, ClaimTimeout, ClaimStopped, ClaimGrant, lockVars, phaseVars
<1>6. ASSUME NEW p \in Pools, Sweep(p) PROVE LockStep
    BY <1>0, <1>6 DEF Sweep, lockVars, phaseVars
<1>7. ASSUME NEW f \in Files, Unlink(f) \/ LoseFile(f) PROVE LockStep
    BY <1>0, <1>7 DEF Unlink, LoseFile, lockVars, phaseVars
<1>8. ASSUME Shutdown \/ Start PROVE LockStep
    <2>1. UNCHANGED op
        BY <1>8 DEF Shutdown, Start, ShutdownBegin, ShutdownNotify, ShutdownDrain, ShutdownDiscard,
                    ShutdownClear, lockVars
    <2>. QED BY <1>8, <2>1 DEF Shutdown
<1>9. CASE UNCHANGED vars
    BY <1>0, <1>9 DEF vars, phaseVars, lockVars
<1>. QED BY <1>1, <1>2, <1>3, <1>4, <1>5, <1>6, <1>7, <1>8, <1>9 DEF Next

\* What steps without records leave of the byte count of an empty broker.
LEMMA HaltedBytes ==
    ASSUME TypeOK, StopInv, Halted, [Next]_vars
    PROVE  spoolBytes' = 0
<1>0. records = {} /\ spoolBytes = 0
    BY DEF StopInv, StoppedIsEmpty, Halted
<1>1. ASSUME NEW w \in Work PROVE ~At(w, "payload") /\ ~At(w, "sidecar") /\ ~At(w, "undo")
    BY WorkBrokerAssumption DEF At, StopInv, Halted, Free
<1>2. ASSUME NEW w \in Work, Admission(w) PROVE spoolBytes' = 0
    BY <1>0, <1>1, <1>2
    DEF Admission, EnqueueStart, EnqueueReject, EnqueueAdmit, SpoolPayload, SpoolSidecar,
        SpoolFails, EnqueueUndo, spoolVars
<1>3. ASSUME NEW w \in Work, LeaseDue(w) \/ AckDone(w) PROVE spoolBytes' = 0
    BY <1>0, <1>3 DEF LeaseDue, AckDone
<1>4. ASSUME NEW w \in Work, NEW g \in Generations PROVE ~LeaseCall(w, g)
    BY <1>0 DEF LeaseCall, Heartbeat, Activate, Release, PayloadMissing, Acknowledge, Current
<1>5. ASSUME NEW c \in Claimers, Claim(c) PROVE spoolBytes' = 0
    BY <1>0, <1>5 DEF Claim, ClaimCall, ClaimWait, ClaimTimeout, ClaimStopped, ClaimGrant, spoolVars,
                      Running, Halted
<1>6. ASSUME NEW p \in Pools PROVE ~Sweep(p)
    BY DEF Sweep, Halted
<1>7. ASSUME NEW f \in Files, Unlink(f) \/ LoseFile(f) PROVE spoolBytes' = 0
    BY <1>0, <1>7 DEF Unlink, LoseFile
<1>8. ASSUME Shutdown \/ Crash \/ Start PROVE spoolBytes' = 0
    BY <1>0, <1>8 DEF Shutdown, Start, Crash, ShutdownBegin, ShutdownNotify, ShutdownDrain, ShutdownDiscard,
                    ShutdownClear, Forget, spoolVars
<1>9. UNCHANGED vars => spoolBytes' = 0
    BY <1>0 DEF vars, spoolVars
<1>. QED BY <1>2, <1>3, <1>4, <1>5, <1>6, <1>7, <1>8, <1>9 DEF Next

LEMMA StopStep == IInv /\ StopInv /\ [Next]_vars => StopInv'
<1>. SUFFICES ASSUME IInv, StopInv, [Next]_vars PROVE StopInv'
    OBVIOUS
<1>0. TypeOK /\ RecordStep /\ LockStep
    BY RecordSteps, LockSteps DEF IInv
<1>1. ASSUME Halted PROVE records' = {} /\ spoolBytes' = 0 /\ \A p \in Pools : queue'[p] = <<>>
    <2>1. NoRecordStep \/ ForgetStep
        BY <1>0, <1>1, HaltedSteps
    <2>2. CASE NoRecordStep
        BY <1>0, <1>1, <2>2, HaltedBytes DEF NoRecordStep, recordVars, StopInv, StoppedIsEmpty, Halted
    <2>3. CASE ForgetStep
        BY <2>3 DEF ForgetStep, Forget
    <2>. QED BY <2>1, <2>2, <2>3
<1>2. CASE /\ UNCHANGED <<phase, notified>>
           /\ \A p \in Pools : op'[p].step \in {"payload", "sidecar", "undo"} =>
                  op[p].step \in {"payload", "sidecar", "undo"} \/ (op[p].step = "admission" /\ Running)
           /\ phase = "down" => UNCHANGED op
    <2>1. \A p \in notified : p \in Pools /\ ~Running
        BY <1>0 DEF StopInv, Running, TypeOK
    <2>. QED BY <1>1, <1>2, <2>1 DEF StopInv, StoppedIsEmpty, Halted
<1>3. CASE ShutdownBegin \/ ShutdownDrain \/ ShutdownDiscard
    BY <1>3 DEF ShutdownBegin, ShutdownDrain, ShutdownDiscard, Running, lockVars, StopInv, StoppedIsEmpty
<1>4. ASSUME NEW p \in Pools, ShutdownNotify(p) PROVE StopInv'
    BY <1>4 DEF ShutdownNotify, Free, lockVars, StopInv, StoppedIsEmpty
<1>5. CASE ShutdownClear
    BY <1>5 DEF ShutdownClear, Forget, lockVars, StopInv, StoppedIsEmpty
<1>6. CASE Crash
    BY <1>6 DEF Crash, Forget, StopInv, StoppedIsEmpty
<1>7. CASE Start
    BY <1>0, <1>7 DEF Start, lockVars, StopInv, StoppedIsEmpty, TypeOK, Free
<1>. QED BY <1>0, <1>2, <1>3, <1>4, <1>5, <1>6, <1>7 DEF LockStep

LEMMA StopInvariance == Spec => [](IInv /\ EndInv /\ StopInv)
<1>1. Init => StopInv
    BY DEF Init, StopInv, StoppedIsEmpty
<1>2. StopInv /\ IInv /\ [Next]_vars => StopInv'
    BY StopStep
<1>. QED BY <1>1, <1>2, EndInvariance, PTL DEF Spec

\* After shutdown nothing is left and nothing comes back, although handlers that
\* were under way when it began may still finish.
THEOREM StoppedStaysEmpty == Spec => []StoppedIsEmpty
<1>1. StopInv => StoppedIsEmpty
    BY DEF StopInv
<1>. QED BY StopInvariance, <1>1, PTL

-----------------------------------------------------------------------------
(* The length of a queue.                                                  *)

\* A queue that lists a set is as long as the set is large.
LEMMA ListsCount ==
    ASSUME NEW q \in Seq(Work), NEW S \in SUBSET Work, Lists(q, S)
    PROVE  IsFiniteSet(S) /\ Cardinality(S) = Len(q)
<1>1. Len(q) \in Nat /\ IsFiniteSet(1..Len(q)) /\ Cardinality(1..Len(q)) = Len(q)
    <2>1. Len(q) \in Nat /\ 1 \in Int /\ Len(q) \in Int
        BY LenProperties
    <2>2. /\ IsFiniteSet(1..Len(q))
          /\ Cardinality(1..Len(q)) = IF 1 > Len(q) THEN 0 ELSE Len(q) - 1 + 1
        BY <2>1, FS_Interval
    <2>. QED BY <2>1, <2>2
<1>2. q \in [1..Len(q) -> S]
    <2>1. \A i \in 1..Len(q) : q[i] \in S
        BY ElementOfSeq DEF Lists
    <2>. QED BY <2>1, LenProperties
<1>3. q \in Bijection(1..Len(q), S)
    BY <1>2 DEF Lists, Bijection, Injection, Surjection, IsInjective
<1>4. ExistsBijection(1..Len(q), S)
    BY <1>3 DEF ExistsBijection
<1>. QED BY <1>1, <1>4, FS_Bijection

-----------------------------------------------------------------------------
(* The order of a queue: the first k works were delivered before, and the  *)
(* others, which never were, follow in the order of their admission.       *)

\* By the generations g, the first k works of the queue q are the delivered ones.
Divides(k, q, g) == k \in 0..Len(q) /\ \A i \in 1..Len(q) : g[q[i]] > 0 <=> i <= k

\* The works of q after the first k.
After(q, k) == SubSeq(q, k + 1, Len(q))

LEMMA AfterParts ==
    ASSUME NEW q \in Seq(Work), NEW k \in 0..Len(q)
    PROVE  /\ After(q, k) \in Seq(Work) /\ Len(After(q, k)) = Len(q) - k
           /\ \A i \in 1..(Len(q) - k) : After(q, k)[i] = q[k + i]
<1>1. Len(q) \in Nat /\ \A i \in 1..Len(q) : q[i] \in Work
    BY LenProperties, ElementOfSeq
<1>2. \A i \in (k + 1)..Len(q) : q[i] \in Work
    BY <1>1
<1>3. /\ SubSeq(q, k + 1, Len(q)) \in Seq(Work)
      /\ Len(SubSeq(q, k + 1, Len(q))) = IF k + 1 <= Len(q) THEN Len(q) - (k + 1) + 1 ELSE 0
      /\ \A i \in 1..(Len(q) - (k + 1) + 1) : SubSeq(q, k + 1, Len(q))[i] = q[k + 1 + i - 1]
    <2>1. k + 1 \in Int /\ Len(q) \in Int
        BY <1>1
    <2>. QED BY <1>2, <2>1, SubSeqProperties
<1>. QED BY <1>1, <1>3 DEF After

\* Their number says where the works that were never delivered begin.
LEMMA Undelivered ==
    ASSUME NEW q \in Seq(Work), NEW g, NEW k, Divides(k, q, g)
    PROVE  Cardinality({i \in 1..Len(q) : g[q[i]] > 0}) = k
<1>1. Len(q) \in Nat /\ k \in Nat
    BY LenProperties DEF Divides
<1>2. {i \in 1..Len(q) : g[q[i]] > 0} = 1..k
    BY <1>1 DEF Divides
<1>3. Cardinality(1..k) = k
    BY <1>1, FS_Interval
<1>. QED BY <1>2, <1>3

\* A new work goes behind all.
LEMMA AppendDivides ==
    ASSUME NEW q \in Seq(Work), NEW g, NEW k, Divides(k, q, g), NEW w \in Work, ~(g[w] > 0)
    PROVE  /\ Divides(k, Enqueued(q, w), g)
           /\ After(Enqueued(q, w), k) = Append(After(q, k), w)
<1>. DEFINE r == Append(q, w)
            a == Append(After(q, k), w)
<1>1. /\ r \in Seq(Work) /\ Len(r) = Len(q) + 1 /\ r[Len(q) + 1] = w /\ Len(q) \in Nat
      /\ \A i \in 1..Len(q) : r[i] = q[i]
    BY LenProperties, AppendProperties
<1>2. /\ After(q, k) \in Seq(Work) /\ Len(After(q, k)) = Len(q) - k
      /\ \A i \in 1..(Len(q) - k) : After(q, k)[i] = q[k + i]
    BY AfterParts DEF Divides
<1>3. /\ a \in Seq(Work) /\ Len(a) = Len(q) - k + 1 /\ a[Len(q) - k + 1] = w
      /\ \A i \in 1..(Len(q) - k) : a[i] = q[k + i]
    BY <1>2, AppendProperties
<1>. HIDE DEF r, a
<1>4. k \in 0..Len(q) /\ k \in 0..Len(r)
    BY <1>1 DEF Divides
<1>5. /\ After(r, k) \in Seq(Work) /\ Len(After(r, k)) = Len(q) + 1 - k
      /\ \A i \in 1..(Len(q) + 1 - k) : After(r, k)[i] = r[k + i]
    <2>1. /\ After(r, k) \in Seq(Work) /\ Len(After(r, k)) = Len(r) - k
          /\ \A i \in 1..(Len(r) - k) : After(r, k)[i] = r[k + i]
        BY <1>1, <1>4, AfterParts
    <2>2. Len(r) - k = Len(q) + 1 - k
        BY <1>1, <1>4
    <2>. QED BY <2>1, <2>2
<1>6. After(r, k) = a
    <2>1. Len(After(r, k)) = Len(a)
        BY <1>1, <1>3, <1>4, <1>5
    <2>2. \A i \in 1..Len(After(r, k)) : After(r, k)[i] = a[i]
        <3>1. ASSUME NEW i \in 1..(Len(q) + 1 - k) PROVE r[k + i] = a[i]
            <4>1. CASE i = Len(q) + 1 - k
                BY <1>1, <1>3, <1>4, <4>1
            <4>2. CASE i \in 1..(Len(q) - k)
                BY <1>1, <1>3, <1>4, <4>2
            <4>. QED BY <1>1, <1>4, <4>1, <4>2
        <3>. QED BY <1>5, <3>1
    <2>. QED BY <1>3, <1>5, <2>1, <2>2, SeqEqual
<1>7. Divides(k, r, g)
    <2>1. ASSUME NEW i \in 1..Len(r) PROVE g[r[i]] > 0 <=> i <= k
        <3>1. CASE i = Len(q) + 1
            BY <1>1, <1>4, <3>1
        <3>2. CASE i \in 1..Len(q)
            BY <1>1, <3>2 DEF Divides
        <3>. QED BY <1>1, <3>1, <3>2
    <2>. QED BY <1>4, <2>1 DEF Divides
<1>. QED BY <1>6, <1>7 DEF Enqueued, r, a

\* Deliveries that came back go before all.
LEMMA FrontDivides ==
    ASSUME NEW q \in Seq(Work), NEW g, NEW k, Divides(k, q, g),
           NEW s \in Seq(Work), \A i \in 1..Len(s) : g[s[i]] > 0
    PROVE  /\ Divides(Len(s) + k, Front(s, q), g)
           /\ After(Front(s, q), Len(s) + k) = After(q, k)
<1>. DEFINE r == s \o q
            n == Len(s)
<1>1. /\ r \in Seq(Work) /\ Len(r) = n + Len(q)
      /\ \A i \in 1..Len(r) : r[i] = IF i <= n THEN s[i] ELSE q[i - n]
    BY ConcatProperties
<1>2. n \in Nat /\ Len(q) \in Nat /\ k \in 0..Len(q)
    BY LenProperties DEF Divides
<1>. HIDE DEF r, n
<1>3. n + k \in 0..Len(r)
    BY <1>1, <1>2
<1>4. Divides(n + k, r, g)
    <2>1. ASSUME NEW i \in 1..Len(r) PROVE g[r[i]] > 0 <=> i <= n + k
        <3>1. CASE i <= n
            <4>1. i \in 1..Len(s)
                BY <1>2, <3>1 DEF n
            <4>. QED BY <1>1, <1>2, <3>1, <4>1
        <3>2. CASE ~(i <= n)
            <4>1. i - n \in 1..Len(q) /\ r[i] = q[i - n]
                BY <1>1, <1>2, <3>2
            <4>2. g[q[i - n]] > 0 <=> i - n <= k
                BY <4>1 DEF Divides
            <4>. QED BY <1>2, <4>1, <4>2
        <3>. QED BY <3>1, <3>2
    <2>. QED BY <1>3, <2>1 DEF Divides
<1>5. After(r, n + k) = After(q, k)
    <2>1. /\ After(q, k) \in Seq(Work) /\ Len(After(q, k)) = Len(q) - k
          /\ \A i \in 1..(Len(q) - k) : After(q, k)[i] = q[k + i]
        BY <1>2, AfterParts
    <2>2. /\ After(r, n + k) \in Seq(Work) /\ Len(After(r, n + k)) = Len(r) - (n + k)
          /\ \A i \in 1..(Len(r) - (n + k)) : After(r, n + k)[i] = r[n + k + i]
        BY <1>1, <1>3, AfterParts
    <2>3. Len(r) - (n + k) = Len(q) - k
        BY <1>1, <1>2
    <2>4. ASSUME NEW i \in 1..(Len(q) - k) PROVE r[n + k + i] = q[k + i]
        BY <1>1, <1>2
    <2>. QED BY <2>1, <2>2, <2>3, <2>4, SeqEqual
<1>. QED BY <1>4, <1>5 DEF Front, r, n

\* A claim takes the head, which was the first of either kind.
LEMMA HeadDivides ==
    ASSUME NEW q \in Seq(Work), NEW g, NEW k, Divides(k, q, g), Len(q) >= 1,
           NEW r \in Seq(Work), Len(r) = Len(q) - 1, \A i \in 1..Len(r) : r[i] = q[i + 1],
           NEW h, \A i \in 1..Len(r) : h[r[i]] = g[r[i]]
    PROVE  \E m : /\ Divides(m, r, h)
                  /\ \/ After(r, m) = After(q, k)
                     \/ After(q, k) # <<>> /\ After(r, m) = Tail(After(q, k))
<1>1. Len(q) \in Nat /\ Len(r) \in Nat /\ k \in 0..Len(q)
    BY LenProperties DEF Divides
<1>2. /\ After(q, k) \in Seq(Work) /\ Len(After(q, k)) = Len(q) - k
      /\ \A i \in 1..(Len(q) - k) : After(q, k)[i] = q[k + i]
    BY <1>1, AfterParts
<1>3. CASE k = 0
    <2>1. Divides(0, r, h)
        <3>1. ASSUME NEW i \in 1..Len(r) PROVE ~(h[r[i]] > 0)
            <4>1. i + 1 \in 1..Len(q) /\ ~(i + 1 <= 0)
                BY <1>1
            <4>. QED BY <1>3, <4>1 DEF Divides
        <3>. QED BY <1>1, <3>1 DEF Divides
    <2>2. After(q, 0) = q /\ After(r, 0) = r
        BY SubSeqFull DEF After
    <2>3. r = Tail(q) /\ q # <<>>
        <3>1. q # <<>>
            BY <1>1, EmptySeq
        <3>2. /\ Tail(q) \in Seq(Work) /\ Len(Tail(q)) = Len(q) - 1
              /\ \A i \in 1..Len(Tail(q)) : Tail(q)[i] = q[i + 1]
            BY <3>1, HeadTailProperties
        <3>. QED BY <3>1, <3>2, SeqEqual
    <2>. QED BY <1>3, <2>1, <2>2, <2>3
<1>4. CASE k # 0
    <2>. DEFINE m == k - 1
    <2>1. m \in 0..Len(r) /\ m \in Nat /\ k = m + 1
        BY <1>1, <1>4
    <2>. HIDE DEF m
    <2>2. Divides(m, r, h)
        <3>1. ASSUME NEW i \in 1..Len(r) PROVE h[r[i]] > 0 <=> i <= m
            <4>1. i + 1 \in 1..Len(q) /\ (i + 1 <= k <=> i <= m)
                BY <1>1, <2>1
            <4>. QED BY <4>1 DEF Divides
        <3>. QED BY <2>1, <3>1 DEF Divides
    <2>3. /\ After(r, m) \in Seq(Work) /\ Len(After(r, m)) = Len(r) - m
          /\ \A i \in 1..(Len(r) - m) : After(r, m)[i] = r[m + i]
        BY <2>1, AfterParts
    <2>4. ASSUME NEW i \in 1..(Len(q) - k) PROVE r[m + i] = q[k + i]
        <3>1. m + i \in 1..Len(r) /\ m + i + 1 = k + i
            BY <1>1, <2>1
        <3>. QED BY <3>1
    <2>5. Len(r) - m = Len(q) - k
        BY <1>1, <2>1
    <2>6. After(r, m) = After(q, k)
        BY <1>2, <2>3, <2>4, <2>5, SeqEqual
    <2>. QED BY <2>2, <2>6
<1>. QED BY <1>3, <1>4

\* What a pool's queue is once the leases D are swept.
LEMMA SweptDivides ==
    ASSUME TypeOK, ClaimedInv, NEW p \in Pools, NEW k, Divides(k, queue[p], generation),
           NEW D \in SUBSET LeasesOf(p), NEW s \in Orders(D \ Spent(D))
    PROVE  /\ Divides(Len(s) + k, Front(s, queue[p]), generation)
           /\ After(Front(s, queue[p]), Len(s) + k) = After(queue[p], k)
<1>1. D \ Spent(D) \in SUBSET Work /\ queue[p] \in Seq(Work)
    BY DEF TypeOK, LeasesOf
<1>2. s \in Seq(Work) /\ Lists(s, D \ Spent(D))
    BY <1>1, OrdersList
<1>3. \A i \in 1..Len(s) : generation[s[i]] > 0
    <2>1. \A i \in 1..Len(s) : s[i] \in Work /\ s[i] \in D
        BY <1>2, ElementOfSeq DEF Lists
    <2>. QED BY <2>1 DEF LeasesOf, ClaimedInv
<1>. QED BY <1>1, <1>2, <1>3, FrontDivides

\* What a step may make of f, the works of a pool that were never delivered.
Fifo(f, r) ==
    \/ r \in {f, <<>>}
    \/ f # <<>> /\ r = Tail(f)
    \/ \E w \in Work : r = Append(f, w)

\* The queue of pool p, divided at k, is still divided, and FIFO is kept.
Kept(p, k) ==
    \E m : Divides(m, queue'[p], generation') /\ Fifo(After(queue[p], k), After(queue'[p], m))

LEMMA EmptyKept == ASSUME NEW p, NEW k, queue'[p] = <<>> PROVE Kept(p, k)
<1>1. Divides(0, <<>>, generation')
    BY DEF Divides
<1>2. After(<<>>, 0) = <<>>
    BY SubSeqEmpty DEF After
<1>. QED BY <1>1, <1>2 DEF Kept, Fifo

LEMMA SameKept ==
    ASSUME NEW p, NEW k, Divides(k, queue[p], generation), queue'[p] = queue[p],
           \A i \in 1..Len(queue[p]) : generation'[queue[p][i]] = generation[queue[p][i]]
    PROVE  Kept(p, k)
<1>1. Divides(k, queue'[p], generation')
    BY DEF Divides
<1>. QED BY <1>1 DEF Kept, Fifo

LEMMA GrantKept ==
    ASSUME TypeOK, QueueExact, ClaimedInv, NEW c \in Claimers, NEW w \in Work, ClaimGrant(c, w),
           NEW k, Divides(k, queue[ClaimsFrom[c]], generation)
    PROVE  Kept(ClaimsFrom[c], k)
<1>. DEFINE p == ClaimsFrom[c]
            D == Due(p)
            S == (D \ Spent(D)) \cup Queued(p)
<1>0. p \in Pools /\ D \in SUBSET LeasesOf(p)
    BY WorkBrokerAssumption DEF Due, LeasesOf
<1>1. PICK s \in Orders(D \ Spent(D)) :
        \E r \in Rests(Front(s, queue[p]), w, D) : queue' = [queue EXCEPT ![p] = r]
    BY DEF ClaimGrant
<1>2. PICK rest \in Rests(Front(s, queue[p]), w, D) : queue' = [queue EXCEPT ![p] = rest]
    BY <1>1
<1>. DEFINE q == Front(s, queue[p])
<1>3. /\ q \in Seq(Work) /\ Lists(q, S) /\ S \in SUBSET Work /\ \A v \in S : Ready(v, D)
    BY <1>0, SweptQueue
<1>4. Divides(Len(s) + k, q, generation) /\ After(q, Len(s) + k) = After(queue[p], k)
    BY <1>0, SweptDivides
<1>. HIDE DEF q, S
<1>5. /\ rest \in Seq(Work) /\ Len(rest) = Len(q) - 1 /\ \A j \in 1..Len(rest) : rest[j] = q[j+1]
      /\ Len(q) >= 1 /\ q[1] = w
    <2>. HIDE DEF D
    <2>1. rest \in Rests(q, w, D)
        BY <1>2 DEF q
    <2>2. Popped(q, w, rest)
        BY <1>3, <2>1, RestsPopped
    <2>. QED BY <2>2 DEF Popped
<1>6. Len(q) \in Nat /\ Len(rest) \in Nat
    BY <1>3, <1>5, LenProperties
<1>7. ASSUME NEW j \in 1..Len(rest) PROVE rest[j] # w /\ rest[j] \in Work
    <2>1. j+1 \in 1..Len(q) /\ 1 \in 1..Len(q) /\ j+1 # 1
        BY <1>5, <1>6
    <2>2. q[j+1] # q[1]
        BY <1>3, <2>1 DEF Lists
    <2>3. q[j+1] \in Work
        BY <1>3, <2>1, ElementOfSeq
    <2>. QED BY <1>5, <2>2, <2>3
<1>8. \A j \in 1..Len(rest) : generation'[rest[j]] = generation[rest[j]]
    BY <1>7 DEF ClaimGrant, TypeOK
<1>9. queue'[p] = rest
    BY <1>0, <1>2 DEF TypeOK
<1>10. \E m : /\ Divides(m, rest, generation')
              /\ \/ After(rest, m) = After(q, Len(s) + k)
                 \/ After(q, Len(s) + k) # <<>> /\ After(rest, m) = Tail(After(q, Len(s) + k))
    BY <1>3, <1>4, <1>5, <1>8, HeadDivides
<1>. QED BY <1>4, <1>9, <1>10 DEF Kept, Fifo

LEMMA KeptStep ==
    ASSUME IInv, EndInv, [Next]_vars, NEW p \in Pools, NEW k, Divides(k, queue[p], generation)
    PROVE  Kept(p, k)
<1>0. TypeOK /\ LifeInv /\ QueueExact /\ ClaimedInv /\ RecordStep /\ queue[p] \in Seq(Work)
    BY RecordSteps DEF IInv, EndInv, TypeOK
<1>a. queue'[p] = queue[p] /\ generation' = generation => Kept(p, k)
    BY SameKept
<1>1. CASE NoRecordStep
    BY <1>a, <1>1 DEF NoRecordStep, recordVars
<1>2. ASSUME NEW w \in Work, CommitStep(w) PROVE Kept(p, k)
    <2>1. ~(generation[w] > 0)
        BY <1>0, <1>2 DEF CommitStep, Writes, LifeInv, InFlight, Untouched
    <2>2. generation' = generation /\ queue' = [queue EXCEPT ![PoolOf[w]] = Enqueued(@, w)]
        BY <1>2 DEF CommitStep, Commit
    <2>3. CASE p = PoolOf[w]
        <3>1. queue'[p] = Enqueued(queue[p], w)
            BY <1>0, <2>2, <2>3 DEF TypeOK
        <3>2. Divides(k, queue'[p], generation') /\ After(queue'[p], k) = Append(After(queue[p], k), w)
            BY <1>0, <2>1, <2>2, <3>1, AppendDivides
        <3>. QED BY <3>2 DEF Kept, Fifo
    <2>4. CASE p # PoolOf[w]
        BY <1>0, <1>a, <2>2, <2>4 DEF TypeOK
    <2>. QED BY <2>3, <2>4
<1>3. ASSUME NEW w \in Work, TermStep(w) \/ ActivateStep(w) \/ AckStep(w) PROVE Kept(p, k)
    BY <1>a, <1>3 DEF TermStep, ActivateStep, AckStep
<1>4. ASSUME NEW r \in Pools, NEW D \in SUBSET Work, RequeueStep(r, D) PROVE Kept(p, k)
    <2>1. PICK s \in Orders(D \ Spent(D)) : queue' = [queue EXCEPT ![r] = Front(s, @)]
        BY <1>4 DEF RequeueStep, RequeueOrExhaust
    <2>2. generation' = generation /\ D \in SUBSET LeasesOf(r)
        BY <1>4 DEF RequeueStep, RequeueOrExhaust
    <2>3. CASE p = r
        <3>1. queue'[p] = Front(s, queue[p])
            BY <1>0, <2>1, <2>3 DEF TypeOK
        <3>2. /\ Divides(Len(s) + k, Front(s, queue[p]), generation)
              /\ After(Front(s, queue[p]), Len(s) + k) = After(queue[p], k)
            BY <1>0, <2>2, <2>3, SweptDivides
        <3>. QED BY <2>2, <3>1, <3>2 DEF Kept, Fifo
    <2>4. CASE p # r
        BY <1>0, <1>a, <2>1, <2>2, <2>4 DEF TypeOK
    <2>. QED BY <2>3, <2>4
<1>5. ASSUME NEW c \in Claimers, ClaimStep(c) PROVE Kept(p, k)
    <2>. DEFINE r == ClaimsFrom[c]
                D == Due(r)
    <2>0. r \in Pools /\ D \in SUBSET LeasesOf(r)
        BY WorkBrokerAssumption DEF Due, LeasesOf
    <2>1. CASE ClaimWait(c)
        <3>1. PICK s \in Orders(D \ Spent(D)) :
                 \/ queue' = [queue EXCEPT ![r] = Front(s, queue[r])]
                 \/ queue' = [queue EXCEPT ![r] = <<>>]
            BY <2>1 DEF ClaimWait
        <3>2. generation' = generation
            BY <2>1 DEF ClaimWait
        <3>3. CASE p = r
            <4>1. queue'[p] = Front(s, queue[p]) \/ queue'[p] = <<>>
                BY <1>0, <2>0, <3>1, <3>3 DEF TypeOK
            <4>2. CASE queue'[p] = Front(s, queue[p])
                <5>1. /\ Divides(Len(s) + k, Front(s, queue[p]), generation)
                      /\ After(Front(s, queue[p]), Len(s) + k) = After(queue[p], k)
                    BY <1>0, <2>0, <3>3, SweptDivides
                <5>. QED BY <3>2, <4>2, <5>1 DEF Kept, Fifo
            <4>. QED BY <4>1, <4>2, EmptyKept
        <3>4. CASE p # r
            BY <1>0, <1>a, <3>1, <3>2, <3>4 DEF TypeOK
        <3>. QED BY <3>3, <3>4
    <2>2. ASSUME NEW w \in Work, ClaimGrant(c, w) PROVE Kept(p, k)
        <3>1. CASE p = r
            BY <1>0, <2>2, <3>1, GrantKept
        <3>2. CASE p # r
            <4>1. PoolOf[w] = r
                BY <1>0, <2>2, GrantPool
            <4>2. queue'[p] = queue[p]
                <5>1. \E q : queue' = [queue EXCEPT ![r] = q]
                    BY <2>2 DEF ClaimGrant
                <5>. QED BY <1>0, <3>2, <5>1 DEF TypeOK
            <4>3. \A i \in 1..Len(queue[p]) : queue[p][i] \in Work /\ queue[p][i] # w
                <5>1. queue[p] \in Seq(Work) /\ Lists(queue[p], Queued(p))
                    BY <1>0 DEF TypeOK, QueueExact
                <5>2. w \notin Queued(p)
                    BY <3>2, <4>1 DEF Queued
                <5>. QED BY <5>1, <5>2, ElementOfSeq DEF Lists
            <4>4. \A i \in 1..Len(queue[p]) : generation'[queue[p][i]] = generation[queue[p][i]]
                BY <1>0, <2>2, <4>3 DEF ClaimGrant, TypeOK
            <4>. QED BY <4>2, <4>4, SameKept
        <3>. QED BY <3>1, <3>2
    <2>. QED BY <1>5, <2>1, <2>2 DEF ClaimStep
<1>6. CASE ForgetStep
    <2>1. queue'[p] = <<>>
        BY <1>6 DEF ForgetStep, Forget
    <2>. QED BY <2>1, EmptyKept
<1>. QED BY <1>0, <1>1, <1>2, <1>3, <1>4, <1>5, <1>6 DEF RecordStep

DividedInv == \A p \in Pools : \E k : Divides(k, queue[p], generation)

LEMMA DividedInvariance == Spec => [](IInv /\ EndInv /\ DividedInv)
<1>1. Init => DividedInv
    <2>1. ASSUME Init, NEW p \in Pools PROVE Divides(0, queue[p], generation)
        BY <2>1 DEF Init, Divides
    <2>. QED BY <2>1 DEF DividedInv
<1>2. IInv /\ EndInv /\ DividedInv /\ [Next]_vars => DividedInv'
    BY KeptStep DEF DividedInv, Kept
<1>. QED BY <1>1, <1>2, EndInvariance, PTL DEF Spec

\* A delivery that failed is retried before any work that was never delivered
\* (_requeue_or_exhaust_locked, claim).
THEOREM RetriesGoFirst == Spec => []RetriesFirst
<1>1. ASSUME IInv, DividedInv PROVE RetriesFirst
    <2>. SUFFICES ASSUME NEW p \in Pools, NEW i \in 1..Len(queue[p]), NEW j \in 1..Len(queue[p]),
                         i < j, generation[queue[p][j]] > 0
                  PROVE  generation[queue[p][i]] > 0
        BY DEF RetriesFirst
    <2>1. PICK k : Divides(k, queue[p], generation)
        BY <1>1 DEF DividedInv
    <2>2. Len(queue[p]) \in Nat
        BY <1>1, LenProperties DEF IInv, TypeOK
    <2>3. j <= k /\ k \in 0..Len(queue[p])
        BY <2>1 DEF Divides
    <2>4. i <= k
        BY <2>2, <2>3
    <2>. QED BY <2>1, <2>4 DEF Divides
<1>. QED BY <1>1, DividedInvariance, PTL

LEMMA FreshAfter ==
    ASSUME NEW p \in Pools, TypeOK, NEW k, Divides(k, queue[p], generation)
    PROVE  Fresh(p) = After(queue[p], k)
<1>1. queue[p] \in Seq(Work)
    BY DEF TypeOK
<1>2. Cardinality({i \in 1..Len(queue[p]) : generation[queue[p][i]] > 0}) = k
    BY <1>1, Undelivered
<1>. QED BY <1>2 DEF Fresh, After

\* Works that were never delivered leave the queue in the order of their
\* admission, one at a time or all at once at the end (claim, enqueue).
THEOREM FirstInFirstOut == Spec => FifoDelivery
<1>1. ASSUME IInv, EndInv, DividedInv, [Next]_vars, IInv', NEW p \in Pools
      PROVE  Fifo(Fresh(p), Fresh(p)')
    <2>1. PICK k : Divides(k, queue[p], generation)
        BY <1>1 DEF DividedInv
    <2>2. PICK m : Divides(m, queue'[p], generation') /\ Fifo(After(queue[p], k), After(queue'[p], m))
        BY <1>1, <2>1, KeptStep DEF Kept
    <2>3. Fresh(p) = After(queue[p], k)
        BY <1>1, <2>1, FreshAfter DEF IInv
    <2>4. Fresh(p)' = After(queue'[p], m)
        <3>1. queue'[p] \in Seq(Work)
            BY <1>1 DEF IInv, TypeOK
        <3>2. Cardinality({i \in 1..Len(queue'[p]) : generation'[queue'[p][i]] > 0}) = m
            BY <2>2, <3>1, Undelivered
        <3>. QED BY <3>2 DEF Fresh, After
    <2>. QED BY <2>2, <2>3, <2>4
<1>2. IInv /\ EndInv /\ DividedInv /\ IInv' /\ [Next]_vars =>
        [\A p \in Pools :
         \/ Fresh(p)' \in {Fresh(p), <<>>}
         \/ Fresh(p) # <<>> /\ Fresh(p)' = Tail(Fresh(p))
         \/ \E w \in Work : Fresh(p)' = Append(Fresh(p), w)]_vars
    BY <1>1 DEF Fifo
<1>. QED BY <1>2, DividedInvariance, PTL DEF Spec, FifoDelivery

-----------------------------------------------------------------------------
(* The bounds of a pool.                                                   *)

\* While an admission writes its files the room it has found remains: whoever
\* else would fill the queue waits for the pool's condition.
Room(p) == op[p].step \in Writes => Len(queue[p]) < QueueLimit[p]
RoomInv == \A p \in Pools : Room(p)

\* A pool is left as it is, or forgotten.
PoolKept(p) == op'[p] = op[p] /\ queue'[p] \in {queue[p], <<>>}
Unlocked(p) == op'[p].step \notin Writes

LEMMA RoomSteps ==
    ASSUME TypeOK, [Next]_vars, NEW p \in Pools, RoomInv
    PROVE  \/ PoolKept(p) \/ Unlocked(p)
           \/ op[p].step \in Writes /\ UNCHANGED queue
           \/ Len(queue[p]) < QueueLimit[p] /\ UNCHANGED queue
<1>. USE DEF PoolKept, Unlocked, Writes
<1>0. ASSUME UNCHANGED <<op, queue>> PROVE PoolKept(p)
    BY <1>0
<1>1. ASSUME NEW w \in Work, Admission(w)
      PROVE  \/ PoolKept(p) \/ Unlocked(p)
             \/ op[p].step \in Writes /\ UNCHANGED queue
             \/ Len(queue[p]) < QueueLimit[p] /\ UNCHANGED queue
    <2>1. CASE EnqueueStart(w) \/ EnqueueReject(w) \/ SpoolFails(w) \/ EnqueueUndo(w)
        BY <2>1, WorkBrokerAssumption
        DEF EnqueueStart, EnqueueReject, SpoolFails, EnqueueUndo, At, Free, recordVars, TypeOK
    <2>2. CASE EnqueueAdmit(w)
        BY <2>2, WorkBrokerAssumption DEF EnqueueAdmit, Admissible, At, recordVars, TypeOK
    <2>3. ASSUME Commit(w) PROVE PoolKept(p) \/ Unlocked(p)
        BY <2>3, WorkBrokerAssumption DEF Commit, Free, TypeOK
    <2>4. CASE SpoolPayload(w)
        <3>1. CASE ~Commit(w)
            <4>1. /\ At(w, "payload") /\ UNCHANGED recordVars
                  /\ op' = [op EXCEPT ![PoolOf[w]].step = "sidecar"]
                BY <2>4, <3>1, Zenon DEF SpoolPayload
            <4>. QED BY <4>1, WorkBrokerAssumption DEF At, recordVars, TypeOK
        <3>. QED BY <2>3, <3>1
    <2>5. CASE SpoolSidecar(w)
        BY <2>3, <2>5 DEF SpoolSidecar
    <2>. QED BY <1>1, <2>1, <2>2, <2>4, <2>5 DEF Admission
<1>2. ASSUME NEW w \in Work, LeaseDue(w) PROVE PoolKept(p)
    BY <1>2 DEF LeaseDue, lockVars
<1>3. ASSUME NEW w \in Work, AckDone(w) PROVE PoolKept(p) \/ Unlocked(p)
    BY <1>3, WorkBrokerAssumption DEF AckDone, Free, recordVars, TypeOK
<1>a. ASSUME NEW r \in Pools, NEW D, RequeueOrExhaust(r, D), UNCHANGED op, op[r] = Free
      PROVE  PoolKept(p) \/ Unlocked(p)
    BY <1>a DEF RequeueOrExhaust, Free, TypeOK
<1>4. ASSUME NEW w \in Work, NEW g \in Generations, LeaseCall(w, g)
      PROVE  PoolKept(p) \/ Unlocked(p)
    <2>1. CASE Release(w, g) \/ PayloadMissing(w, g)
        BY <1>a, <2>1, WorkBrokerAssumption DEF Release, PayloadMissing, lockVars
    <2>2. CASE Acknowledge(w, g)
        BY <2>2, WorkBrokerAssumption DEF Acknowledge, TypeOK
    <2>. QED BY <1>4, <2>1, <2>2 DEF LeaseCall, Heartbeat, Activate, lockVars
<1>5. ASSUME NEW c \in Claimers, Claim(c) PROVE PoolKept(p) \/ Unlocked(p)
    <2>1. CASE ClaimCall(c) \/ ClaimTimeout(c) \/ ClaimStopped(c)
        BY <2>1 DEF ClaimCall, ClaimTimeout, ClaimStopped, recordVars, lockVars
    <2>2. CASE ClaimWait(c) \/ \E w \in Work : ClaimGrant(c, w)
        <3>1. UNCHANGED op /\ op[ClaimsFrom[c]] = Free /\ \E q : queue' = [queue EXCEPT ![ClaimsFrom[c]] = q]
            BY <2>2 DEF ClaimWait, ClaimGrant, Claiming, lockVars
        <3>. QED BY <3>1 DEF Free, TypeOK
    <2>. QED BY <1>5, <2>1, <2>2 DEF Claim
<1>6. ASSUME NEW r \in Pools, Sweep(r) PROVE PoolKept(p) \/ Unlocked(p)
    BY <1>6, <1>a DEF Sweep, lockVars
<1>7. ASSUME NEW f \in Files, Unlink(f) \/ LoseFile(f) PROVE PoolKept(p)
    BY <1>7 DEF Unlink, LoseFile, recordVars, lockVars
<1>8. ASSUME Shutdown \/ Start PROVE PoolKept(p)
    BY <1>8 DEF Shutdown, Start, ShutdownBegin, ShutdownNotify, ShutdownDrain, ShutdownDiscard,
                ShutdownClear, Forget, recordVars, lockVars
<1>9. ASSUME Crash PROVE Unlocked(p)
    BY <1>9 DEF Crash, Free
<1>10. ASSUME UNCHANGED vars PROVE PoolKept(p)
    BY <1>10 DEF vars, recordVars, lockVars
<1>. QED BY <1>1, <1>2, <1>3, <1>4, <1>5, <1>6, <1>7, <1>8, <1>9, <1>10 DEF Next

LEMMA RoomStep == TypeOK /\ RoomInv /\ [Next]_vars => RoomInv'
<1>. SUFFICES ASSUME TypeOK, RoomInv, [Next]_vars, NEW p \in Pools PROVE Room(p)'
    BY DEF RoomInv
<1>1. \/ PoolKept(p) \/ Unlocked(p)
      \/ op[p].step \in Writes /\ UNCHANGED queue
      \/ Len(queue[p]) < QueueLimit[p] /\ UNCHANGED queue
    BY RoomSteps
<1>2. CASE PoolKept(p)
    <2>1. Len(queue[p]) \in Nat /\ QueueLimit[p] \in Nat /\ Len(<<>>) = 0
        BY WorkBrokerAssumption, LenProperties DEF TypeOK
    <2>2. op[p].step \in Writes => QueueLimit[p] > 0
        BY <2>1 DEF RoomInv, Room
    <2>. QED BY <1>2, <2>1, <2>2 DEF PoolKept, RoomInv, Room
<1>. QED BY <1>1, <1>2 DEF Unlocked, RoomInv, Room

Of(p) == {w \in records : PoolOf[w] = p}
Delivered(p) == {w \in Of(p) : generation[w] > 0}
NeverClaimed(p) == {w \in Of(p) : generation[w] = 0}

LEMMA Finite ==
    ASSUME TypeOK, NEW p \in Pools
    PROVE  /\ IsFiniteSet(Delivered(p)) /\ IsFiniteSet(NeverClaimed(p)) /\ IsFiniteSet(Leased(p))
           /\ Cardinality(Delivered(p)) \in Nat /\ Cardinality(NeverClaimed(p)) \in Nat
<1>1. Delivered(p) \in SUBSET Work /\ NeverClaimed(p) \in SUBSET Work /\ Leased(p) \in SUBSET Work
    BY DEF TypeOK, Of, Leased, Delivered, NeverClaimed
<1>. QED BY <1>1, WorkBrokerAssumption, FS_Subset, FS_CardinalityType

\* What a step does that admits nothing and hands out nothing new for pool p.
Shrinks(p) == Delivered(p)' \subseteq Delivered(p) /\ NeverClaimed(p)' \subseteq NeverClaimed(p)

Bounds(p) ==
    /\ Cardinality(Delivered(p)) <= LeaseCap[p]
    /\ Cardinality(NeverClaimed(p)) <= QueueLimit[p]

LEMMA ShrinksBounded ==
    ASSUME TypeOK, NEW p \in Pools, Bounds(p), Shrinks(p)
    PROVE  Bounds(p)'
<1>1. LeaseCap[p] \in Nat /\ QueueLimit[p] \in Nat
    BY WorkBrokerAssumption
<1>2. /\ IsFiniteSet(Delivered(p)') /\ Cardinality(Delivered(p)') <= Cardinality(Delivered(p))
      /\ IsFiniteSet(NeverClaimed(p)') /\ Cardinality(NeverClaimed(p)') <= Cardinality(NeverClaimed(p))
    BY Finite, FS_Subset DEF Shrinks
<1>3. Cardinality(Delivered(p)') \in Nat /\ Cardinality(NeverClaimed(p)') \in Nat
    BY <1>2, FS_CardinalityType
<1>. QED BY <1>1, <1>2, <1>3, Finite DEF Bounds

\* A commit finds the room that the admission has seen.
LEMMA CommitBounded ==
    ASSUME IInv, EndInv, RoomInv, NEW w \in Work, CommitStep(w), NEW p \in Pools, Bounds(p)
    PROVE  Bounds(p)'
<1>0. TypeOK /\ LifeInv /\ QueueExact
    BY DEF IInv
<1>1. /\ w \notin records /\ generation[w] = 0
      /\ records' = records \cup {w} /\ UNCHANGED generation
    BY <1>0 DEF CommitStep, Commit, Writes, LifeInv, InFlight, Untouched, OnlyRecordsLeased
<1>2. Delivered(p)' = Delivered(p)
    BY <1>1 DEF Delivered, Of
<1>3. CASE PoolOf[w] # p
    BY <1>0, <1>1, <1>2, <1>3, ShrinksBounded DEF Shrinks, Of, NeverClaimed
<1>4. CASE PoolOf[w] = p
    <2>1. NeverClaimed(p)' = NeverClaimed(p) \cup {w} /\ w \notin NeverClaimed(p)
        BY <1>1, <1>4 DEF Of, NeverClaimed
    <2>2. IsFiniteSet(Queued(p)) /\ Cardinality(Queued(p)) = Len(queue[p]) /\ Len(queue[p]) \in Nat
        <3>1. queue[p] \in Seq(Work) /\ Queued(p) \in SUBSET Work /\ Lists(queue[p], Queued(p))
            BY <1>0 DEF TypeOK, QueueExact, Queued
        <3>. QED BY <3>1, ListsCount, LenProperties
    <2>3. Len(queue[p]) < QueueLimit[p]
        BY <1>4 DEF CommitStep, At, RoomInv, Room
    <2>4. NeverClaimed(p) \subseteq Queued(p)
        BY <1>0 DEF NeverClaimed, Queued, Of, EndInv, ClaimedInv, TypeOK
    <2>5. Cardinality(NeverClaimed(p)) <= Len(queue[p])
        BY <2>2, <2>4, FS_Subset
    <2>6. Cardinality(NeverClaimed(p)') = Cardinality(NeverClaimed(p)) + 1
        BY <1>0, <2>1, Finite, FS_AddElement
    <2>7. QueueLimit[p] \in Nat /\ Cardinality(NeverClaimed(p)) \in Nat
        BY <1>0, WorkBrokerAssumption, Finite
    <2>8. Cardinality(NeverClaimed(p)') <= QueueLimit[p]
        BY <2>2, <2>3, <2>5, <2>6, <2>7
    <2>. QED BY <1>2, <2>8 DEF Bounds
<1>. QED BY <1>3, <1>4

\* What a claim hands out for the first time is the only delivered work that is
\* neither under a lease nor waiting: had another come back, it would be first.
LEMMA GrantDelivered ==
    ASSUME TypeOK, QueueExact, ClaimedInv, DividedInv, NEW c \in Claimers, NEW w \in Work,
           ClaimGrant(c, w)
    PROVE  LET p == ClaimsFrom[c] IN
           \/ Delivered(p)' \subseteq Delivered(p)
           \/ Delivered(p)' \subseteq (Leased(p) \ Due(p)) \cup {w}
<1>. DEFINE p == ClaimsFrom[c]
            D == Due(p)
            S == (D \ Spent(D)) \cup Queued(p)
<1>0. p \in Pools /\ D \in SUBSET LeasesOf(p)
    BY WorkBrokerAssumption DEF Due, LeasesOf
<1>1. PICK s \in Orders(D \ Spent(D)) :
        \E r \in Rests(Front(s, queue[p]), w, D) : queue' = [queue EXCEPT ![p] = r]
    BY DEF ClaimGrant
<1>2. PICK rest \in Rests(Front(s, queue[p]), w, D) : queue' = [queue EXCEPT ![p] = rest]
    BY <1>1
<1>3. PICK k : Divides(k, queue[p], generation)
    BY <1>0 DEF DividedInv
<1>. DEFINE q == Front(s, queue[p])
            m == Len(s) + k
<1>4. /\ q \in Seq(Work) /\ Lists(q, S) /\ S \in SUBSET Work /\ \A v \in S : Ready(v, D)
    BY <1>0, SweptQueue
<1>5. Divides(m, q, generation)
    BY <1>0, <1>3, SweptDivides
<1>. HIDE DEF q, S, m
<1>10. rest \in Rests(q, w, D)
    BY <1>2 DEF q
<1>6. /\ rest \in Seq(Work) /\ Len(rest) = Len(q) - 1 /\ \A j \in 1..Len(rest) : rest[j] = q[j+1]
      /\ Len(q) >= 1 /\ q[1] = w
    <2>. HIDE DEF D
    <2>1. Popped(q, w, rest)
        BY <1>10, <1>4, RestsPopped
    <2>. QED BY <2>1 DEF Popped
<1>7. records' = records \ Spent(D) /\ \A v \in records : v # w => generation'[v] = generation[v]
    BY DEF ClaimGrant, Retire, TypeOK
<1>8. CASE generation[w] > 0
    BY <1>7, <1>8 DEF Delivered, Of
<1>9. CASE ~(generation[w] > 0)
    <2>1. Len(q) \in Nat /\ m \in 0..Len(q) /\ 1 \in 1..Len(q)
        BY <1>4, <1>5, <1>6, LenProperties DEF Divides
    <2>2. ~(1 <= m)
        BY <1>5, <1>6, <1>9, <2>1 DEF Divides
    <2>3. \A v \in S : ~(generation[v] > 0)
        <3>1. \A i \in 1..Len(q) : ~(i <= m)
            BY <2>1, <2>2
        <3>2. \A i \in 1..Len(q) : ~(generation[q[i]] > 0)
            BY <1>5, <3>1 DEF Divides
        <3>. QED BY <1>4, <3>2 DEF Lists
    <2>4. ASSUME NEW v \in Delivered(p)', v # w PROVE v \in Leased(p) \ D
        <3>1. v \in records /\ v \notin Spent(D) /\ PoolOf[v] = p /\ generation[v] > 0
            BY <1>7, <2>4 DEF Delivered, Of
        <3>2. v \notin S
            BY <2>3, <3>1
        <3>. QED BY <3>1, <3>2 DEF S, Queued, Leased
    <2>. QED BY <2>4
<1>. QED BY <1>8, <1>9

\* A claim takes the slot that is free once the due leases are swept.
LEMMA GrantBounded ==
    ASSUME TypeOK, QueueExact, ClaimedInv, DividedInv, NEW c \in Claimers, NEW w \in Work,
           ClaimGrant(c, w), Bounds(ClaimsFrom[c])
    PROVE  Bounds(ClaimsFrom[c])'
<1>. DEFINE p == ClaimsFrom[c]
            L == Leased(p) \ Due(p)
<1>0. p \in Pools /\ LeaseCap[p] \in Nat /\ QueueLimit[p] \in Nat
    BY WorkBrokerAssumption
<1>1. NeverClaimed(p)' \subseteq NeverClaimed(p)
    <2>1. records' \subseteq records
        BY DEF ClaimGrant, Retire
    <2>2. \A v \in records : generation[v] \in Nat /\ (v # w => generation'[v] = generation[v])
        BY DEF ClaimGrant, TypeOK
    <2>3. generation'[w] = generation[w] + 1 /\ generation[w] \in Nat
        BY DEF ClaimGrant, TypeOK
    <2>. QED BY <2>1, <2>2, <2>3 DEF NeverClaimed, Of
<1>2. CASE Delivered(p)' \subseteq Delivered(p)
    BY <1>0, <1>1, <1>2, ShrinksBounded DEF Shrinks
<1>3. CASE Delivered(p)' \subseteq L \cup {w}
    <2>1. IsFiniteSet(L) /\ Cardinality(L) \in Nat
        BY <1>0, Finite, FS_Subset, FS_CardinalityType
    <2>2. Cardinality(L) < LeaseCap[p]
        BY DEF ClaimGrant, SlotFree
    <2>. HIDE DEF L
    <2>3. IsFiniteSet(L \cup {w}) /\ Cardinality(L \cup {w}) <= Cardinality(L) + 1
        <3>1. /\ IsFiniteSet(L \cup {w})
              /\ Cardinality(L \cup {w}) = IF w \in L THEN Cardinality(L) ELSE Cardinality(L) + 1
            BY <2>1, FS_AddElement
        <3>. QED BY <2>1, <3>1
    <2>4. IsFiniteSet(Delivered(p)') /\ Cardinality(Delivered(p)') <= Cardinality(L \cup {w})
        BY <1>3, <2>3, FS_Subset
    <2>5. Cardinality(L \cup {w}) \in Nat /\ Cardinality(Delivered(p)') \in Nat
        BY <2>3, <2>4, FS_CardinalityType
    <2>6. Cardinality(Delivered(p)') <= LeaseCap[p]
        BY <1>0, <2>1, <2>2, <2>3, <2>4, <2>5
    <2>7. IsFiniteSet(NeverClaimed(p)') /\ Cardinality(NeverClaimed(p)') <= Cardinality(NeverClaimed(p))
        BY <1>0, <1>1, Finite, FS_Subset
    <2>8. Cardinality(NeverClaimed(p)') \in Nat /\ Cardinality(NeverClaimed(p)) \in Nat
        BY <1>0, <2>7, Finite, FS_CardinalityType
    <2>. QED BY <1>0, <2>6, <2>7, <2>8 DEF Bounds
<1>. QED BY <1>2, <1>3, GrantDelivered

LEMMA BoundsStep ==
    ASSUME IInv, EndInv, RoomInv, DividedInv, [Next]_vars, NEW p \in Pools, Bounds(p)
    PROVE  Bounds(p)'
<1>0. TypeOK /\ LifeInv /\ QueueExact /\ ClaimedInv /\ RecordStep
    BY RecordSteps DEF IInv, EndInv
<1>a. Shrinks(p) => Bounds(p)'
    BY <1>0, ShrinksBounded
<1>b. records' \subseteq records /\ UNCHANGED generation => Bounds(p)'
    BY <1>a DEF Shrinks, Delivered, Of, NeverClaimed
<1>1. CASE NoRecordStep
    BY <1>1, <1>b DEF NoRecordStep, recordVars
<1>2. ASSUME NEW w \in Work, CommitStep(w) PROVE Bounds(p)'
    BY <1>2, CommitBounded
<1>3. ASSUME NEW w \in Work, TermStep(w) \/ ActivateStep(w) \/ AckStep(w) PROVE Bounds(p)'
    BY <1>3, <1>b DEF TermStep, ActivateStep, AckStep
<1>4. ASSUME NEW r \in Pools, NEW D \in SUBSET Work, RequeueStep(r, D) PROVE Bounds(p)'
    BY <1>4, <1>b DEF RequeueStep, RequeueOrExhaust, Retire
<1>5. ASSUME NEW c \in Claimers, ClaimStep(c) PROVE Bounds(p)'
    <2>1. CASE ClaimWait(c)
        BY <1>b, <2>1 DEF ClaimWait, Retire
    <2>2. ASSUME NEW w \in Work, ClaimGrant(c, w) PROVE Bounds(p)'
        <3>1. CASE p = ClaimsFrom[c]
            BY <1>0, <2>2, <3>1, GrantBounded
        <3>2. CASE p # ClaimsFrom[c]
            <4>1. PoolOf[w] # p
                BY <1>0, <2>2, <3>2, GrantPool
            <4>2. \A v \in records : PoolOf[v] = p => generation'[v] = generation[v]
                BY <1>0, <2>2, <4>1 DEF ClaimGrant, TypeOK
            <4>3. records' \subseteq records
                BY <2>2 DEF ClaimGrant, Retire
            <4>. QED BY <1>a, <4>2, <4>3 DEF Shrinks, Delivered, Of, NeverClaimed
        <3>. QED BY <3>1, <3>2
    <2>. QED BY <1>5, <2>1, <2>2 DEF ClaimStep
<1>6. CASE ForgetStep
    BY <1>6, <1>b DEF ForgetStep, Forget
<1>. QED BY <1>0, <1>1, <1>2, <1>3, <1>4, <1>5, <1>6 DEF RecordStep

BoundsInv == \A p \in Pools : Bounds(p)

LEMMA BoundsInit == Init => RoomInv /\ BoundsInv
<1>. SUFFICES ASSUME Init, NEW p \in Pools PROVE Room(p) /\ Bounds(p)
    BY DEF RoomInv, BoundsInv
<1>1. Delivered(p) = {} /\ NeverClaimed(p) = {}
    BY DEF Init, Of, Delivered, NeverClaimed
<1>2. QueueLimit[p] \in Nat /\ LeaseCap[p] \in Nat
    BY WorkBrokerAssumption
<1>3. Bounds(p)
    BY <1>1, <1>2, FS_EmptySet DEF Bounds
<1>. QED BY <1>3 DEF Init, Room, Writes, Free

LEMMA BoundsInvariance == Spec => [](RoomInv /\ BoundsInv)
<1>1. IInv /\ EndInv /\ DividedInv /\ RoomInv /\ BoundsInv /\ [Next]_vars => RoomInv' /\ BoundsInv'
    <2>1. IInv => TypeOK
        BY DEF IInv
    <2>. QED BY <2>1, RoomStep, BoundsStep DEF BoundsInv
<1>. QED BY BoundsInit, <1>1, DividedInvariance, PTL DEF Spec

\* A pool never has more works handed out, waiting again or not, than its lease
\* budget; uploads alone never push its queue past the limit (enqueue, claim,
\* _requeue_or_exhaust_locked).
THEOREM PoolsAreBounded == Spec => []PoolBounds
<1>1. BoundsInv => PoolBounds
    BY DEF BoundsInv, Bounds, PoolBounds, Of, Delivered, NeverClaimed
<1>. QED BY BoundsInvariance, <1>1, PTL

-----------------------------------------------------------------------------
(* Spool files.  Those of a work belong to its record, to the handler that *)
(* writes or deletes them, or to a scheduled deletion.                     *)

Kinds == {"payload", "sidecar"}
Ours(w, k) == k = "payload" \/ w \in HasSidecar

LEMMA FilesMembers ==
    /\ \A v, w \in Work, k \in Kinds : <<v, k>> \in FilesOf(w) <=> v = w /\ Ours(w, k)
    /\ \A W \in SUBSET Work, v \in Work, k \in Kinds : <<v, k>> \in FilesOfAll(W) <=> v \in W /\ Ours(v, k)
<1>1. \A v, w \in Work, k \in Kinds : <<v, k>> \in FilesOf(w) <=> v = w /\ Ours(w, k)
    <2>1. ASSUME NEW v \in Work, NEW w \in Work, NEW k \in Kinds
          PROVE  <<v, k>> \in FilesOf(w) <=> v = w /\ Ours(w, k)
        <3>1. CASE w \in HasSidecar
            BY <3>1 DEF FilesOf, Ours, Kinds
        <3>2. CASE w \notin HasSidecar
            BY <3>2 DEF FilesOf, Ours, Kinds
        <3>. QED BY <3>1, <3>2
    <2>. QED BY <2>1
<1>. QED BY <1>1 DEF FilesOfAll

\* Only an upload's own files are there, and while there is a broker each has
\* an owner.
OwnedInv ==
    \A w \in Work, k \in Kinds : <<w, k>> \in files =>
        Ours(w, k) /\ (phase # "down" => w \in records \/ Handles(w) \/ <<w, k>> \in unlinking)

Spooling == phase \in {"running", "stopping", "draining"}
PresentInv ==
    Spooling => \A w \in records, k \in Kinds :
        Ours(w, k) => <<w, k>> \in files \cup Losable

\* The payload is written first; what is being deleted belongs to works that
\* have ended; and what shutdown discards is deleted before it is forgotten.
WritingInv == \A w \in Work : At(w, "sidecar") => w \in HasSidecar /\ <<w, "payload">> \in files \cup Losable
UnlinkInv ==
    /\ \A w \in Work : At(w, "unlink") => fate[w] = "acknowledged"
    /\ \A w \in Work, k \in Kinds : <<w, k>> \in unlinking => fate[w] = "exhausted"
DiscardInv == phase = "discarding" => \A w \in records, k \in Kinds : <<w, k>> \notin files

FileInv == OwnedInv /\ PresentInv /\ WritingInv /\ UnlinkInv /\ DiscardInv

\* Steps that touch neither files nor the handlers that hold them.
LEMMA FilesKept ==
    ASSUME TypeOK, FileInv, UNCHANGED <<files, op, phase, unlinking, records>>,
           \A w \in Work : fate[w] \in Ended => fate'[w] = fate[w]
    PROVE  FileInv'
BY DEF FileInv, OwnedInv, PresentInv, Spooling, WritingInv, UnlinkInv, DiscardInv, Handles, At, Ended

\* Records that are retired leave their files to scheduled deletions.
LEMMA RetireFiles ==
    ASSUME TypeOK, FileInv, NEW X \in SUBSET records, Retire(X), UNCHANGED <<files, op, phase>>,
           \A w \in Work : fate[w] \in Ended => fate'[w] = fate[w]
    PROVE  FileInv'
<1>1. X \in SUBSET Work /\ records' = records \ X
    BY DEF TypeOK, Retire
<1>2. \A w \in Work, k \in Kinds : <<w, k>> \in unlinking' <=> <<w, k>> \in unlinking \/ (w \in X /\ Ours(w, k))
    BY <1>1, FilesMembers DEF Retire, Doomed
<1>3. \A w \in X : fate'[w] = "exhausted"
    BY <1>1 DEF Retire
<1>4. OwnedInv' /\ PresentInv' /\ WritingInv' /\ DiscardInv'
    BY <1>1, <1>2 DEF FileInv, OwnedInv, PresentInv, Spooling, WritingInv, DiscardInv, Handles, At
<1>5. UnlinkInv'
    BY <1>2, <1>3 DEF FileInv, UnlinkInv, At, Ended
<1>. QED BY <1>4, <1>5 DEF FileInv

LEMMA AdmissionFiles ==
    ASSUME IInv, EndInv, StopInv, FileInv, NEW w \in Work, Admission(w),
           \A v \in Work : fate[v] \in Ended => fate'[v] = fate[v]
    PROVE  FileInv'
<1>. USE DEF FileInv
<1>0. /\ TypeOK /\ LifeInv /\ PoolOf[w] \in Pools
      /\ \A st \in {"admission", "payload", "sidecar", "undo"} : At(w, st) => w \notin records
    BY WorkBrokerAssumption DEF IInv, LifeInv, InFlight, Untouched
<1>1. /\ UNCHANGED <<phase, unlinking>>
      /\ \A p \in Pools : p # PoolOf[w] => op'[p] = op[p]
      /\ op'[PoolOf[w]].work \in {w, NoWork}
      /\ op'[PoolOf[w]].step # "unlink"
    <2>1. UNCHANGED <<phase, unlinking>>
        BY DEF Admission, EnqueueStart, EnqueueReject, EnqueueAdmit, SpoolPayload, SpoolSidecar,
               SpoolFails, EnqueueUndo, phaseVars, spoolVars
    <2>2. \/ op' = [op EXCEPT ![PoolOf[w]] = [step |-> "admission", work |-> w]]
          \/ op' = [op EXCEPT ![PoolOf[w]] = Free]
          \/ /\ op[PoolOf[w]].work = w
             /\ \E st \in {"payload", "sidecar", "undo"} : op' = [op EXCEPT ![PoolOf[w]].step = st]
        BY DEF Admission, EnqueueStart, EnqueueReject, EnqueueAdmit, SpoolPayload, SpoolSidecar,
               SpoolFails, EnqueueUndo, Commit, At
    <2>3. \A p \in Pools : p # PoolOf[w] => op'[p] = op[p]
        BY <1>0, <2>2 DEF TypeOK
    <2>4. op'[PoolOf[w]].work \in {w, NoWork} /\ op'[PoolOf[w]].step # "unlink"
        <3>1. CASE \/ op' = [op EXCEPT ![PoolOf[w]] = [step |-> "admission", work |-> w]]
                   \/ op' = [op EXCEPT ![PoolOf[w]] = Free]
            BY <1>0, <3>1 DEF TypeOK, Free
        <3>2. ASSUME NEW st \in {"payload", "sidecar", "undo"}, op[PoolOf[w]].work = w,
                     op' = [op EXCEPT ![PoolOf[w]].step = st]
              PROVE  op'[PoolOf[w]].work = w /\ op'[PoolOf[w]].step = st
            BY <1>0, <3>2 DEF TypeOK
        <3>. QED BY <2>2, <3>1, <3>2
    <2>. QED BY <2>1, <2>3, <2>4
<1>2. \A v \in Work : v # w => (Handles(v) => Handles(v)') \/ PoolOf[v] = PoolOf[w]
    BY <1>1, WorkBrokerAssumption DEF Handles
<1>3. op[PoolOf[w]].work \in {w, NoWork} /\ op[PoolOf[w]].step # "unlink"
    BY <1>0
    DEF Admission, EnqueueStart, EnqueueReject, EnqueueAdmit, SpoolPayload, SpoolSidecar,
        SpoolFails, EnqueueUndo, At, Free, TypeOK
<1>4. \A v \in Work : v # w => /\ Handles(v)' = Handles(v)
                              /\ \A st \in Steps : At(v, st)' = At(v, st)
    BY <1>1, <1>3, WorkBrokerAssumption DEF Handles, At
<1>5. \A v \in Work : At(v, "unlink")' => v # w /\ At(v, "unlink")
    <2>1. ~At(w, "unlink")'
        BY <1>1 DEF At
    <2>. QED BY <1>4, <2>1 DEF Steps
<1>6. UnlinkInv'
    BY <1>1, <1>5 DEF UnlinkInv, Ended
<1>7. CASE EnqueueStart(w) \/ EnqueueReject(w) \/ EnqueueAdmit(w)
    <2>1. UNCHANGED <<files, records>> /\ ~At(w, "sidecar")'
        BY <1>0, <1>7 DEF EnqueueStart, EnqueueReject, EnqueueAdmit, At, Free, recordVars, spoolVars, TypeOK
    <2>2. Handles(w) => Handles(w)'
        BY <1>0, <1>7 DEF EnqueueStart, EnqueueReject, EnqueueAdmit, At, Free, Handles, TypeOK
    <2>. QED BY <1>1, <1>4, <1>6, <2>1, <2>2
             DEF OwnedInv, PresentInv, Spooling, WritingInv, DiscardInv, Steps
<1>8. ASSUME NEW k \in Kinds, At(w, k), files' = files \cup {<<w, k>>}, Ours(w, k), Commit(w),
             \A j \in Kinds : Ours(w, j) => <<w, j>> \in files' \cup Losable
      PROVE  FileInv'
    <2>1. records' = records \cup {w} /\ ~At(w, "sidecar")'
        BY <1>0, <1>8, WorkBrokerAssumption DEF Commit, At, Free, TypeOK
    <2>2. phase # "discarding"
        BY <1>0, <1>8 DEF Kinds, At, StopInv
    <2>3. OwnedInv'
        BY <1>1, <1>4, <1>8, <2>1 DEF OwnedInv
    <2>4. PresentInv'
        BY <1>1, <1>8, <2>1 DEF PresentInv, Spooling
    <2>. QED BY <1>1, <1>4, <1>6, <1>8, <2>1, <2>2, <2>3, <2>4 DEF WritingInv, DiscardInv, Steps
<1>9. CASE SpoolPayload(w)
    <2>1. At(w, "payload") /\ files' = files \cup {<<w, "payload">>}
        BY <1>9 DEF SpoolPayload
    <2>2. CASE Commit(w)
        <3>1. w \notin HasSidecar
            <4>1. Commit(w) => op'[PoolOf[w]] = Free
                BY <1>0 DEF Commit, TypeOK
            <4>2. op' = [op EXCEPT ![PoolOf[w]].step = "sidecar"] => op'[PoolOf[w]].step = "sidecar"
                BY <1>0 DEF TypeOK
            <4>. QED BY <1>9, <2>2, <4>1, <4>2 DEF SpoolPayload, PayloadSuffices, Free
        <3>. QED BY <1>8, <2>1, <2>2, <3>1 DEF Kinds, Ours
    <2>3. CASE ~Commit(w)
        <3>1. /\ w \in HasSidecar /\ op' = [op EXCEPT ![PoolOf[w]].step = "sidecar"]
              /\ UNCHANGED records
            <4>1. /\ ~PayloadSuffices(w) /\ op' = [op EXCEPT ![PoolOf[w]].step = "sidecar"]
                  /\ UNCHANGED recordVars
                BY <1>9, <2>3, Zenon DEF SpoolPayload
            <4>. QED BY <4>1 DEF PayloadSuffices, recordVars
        <3>2. Handles(w)'
            BY <1>0, <2>1, <3>1 DEF At, Handles, TypeOK
        <3>3. OwnedInv'
            BY <1>1, <1>4, <2>1, <3>1, <3>2 DEF OwnedInv, Ours
        <3>4. WritingInv'
            BY <1>4, <2>1, <3>1 DEF WritingInv, Steps
        <3>5. PresentInv' /\ DiscardInv'
            BY <1>0, <1>1, <2>1, <3>1 DEF PresentInv, DiscardInv, Spooling
        <3>. QED BY <1>6, <3>3, <3>4, <3>5
    <2>. QED BY <2>2, <2>3
<1>10. CASE SpoolSidecar(w)
    <2>1. At(w, "sidecar") /\ files' = files \cup {<<w, "sidecar">>} /\ Commit(w)
        BY <1>10 DEF SpoolSidecar
    <2>. QED BY <1>8, <2>1 DEF WritingInv, Kinds, Ours
<1>11. CASE SpoolFails(w)
    <2>1. PICK k \in Kinds : At(w, k) /\ files' \in {files, files \cup {<<w, k>>}}
        BY <1>11 DEF SpoolFails, Kinds
    <2>2. Handles(w)' /\ ~At(w, "sidecar")' /\ UNCHANGED records
        BY <1>0, <1>11, <2>1 DEF SpoolFails, At, Handles, recordVars, TypeOK
    <2>3. Ours(w, k)
        BY <2>1 DEF Ours, Kinds, WritingInv
    <2>4. OwnedInv'
        BY <1>1, <1>4, <2>1, <2>2, <2>3 DEF OwnedInv
    <2>5. WritingInv'
        BY <1>4, <2>1, <2>2 DEF WritingInv, Steps
    <2>6. PresentInv' /\ DiscardInv'
        BY <1>0, <1>1, <2>1, <2>2 DEF PresentInv, DiscardInv, Spooling, Kinds
    <2>. QED BY <1>6, <2>4, <2>5, <2>6
<1>12. CASE EnqueueUndo(w)
    <2>1. /\ At(w, "undo") /\ UNCHANGED records /\ ~At(w, "sidecar")'
          /\ \A v \in Work, k \in Kinds : <<v, k>> \in files' <=> <<v, k>> \in files /\ ~(v = w /\ Ours(w, k))
        <3>1. At(w, "undo") /\ UNCHANGED records /\ files' = files \ FilesOf(w)
            BY <1>12 DEF EnqueueUndo, recordVars
        <3>2. op'[PoolOf[w]] = Free
            BY <1>0, <1>12 DEF EnqueueUndo, TypeOK
        <3>. QED BY <3>1, <3>2, FilesMembers DEF At, Free
    <2>2. OwnedInv'
        BY <1>1, <1>4, <2>1 DEF OwnedInv
    <2>3. WritingInv'
        BY <1>4, <2>1 DEF WritingInv, Steps, Kinds
    <2>4. PresentInv' /\ DiscardInv'
        BY <1>0, <1>1, <2>1 DEF PresentInv, DiscardInv, Spooling, TypeOK
    <2>. QED BY <1>6, <2>2, <2>3, <2>4
<1>. QED BY <1>7, <1>9, <1>10, <1>11, <1>12 DEF Admission

LEMMA LeaseFiles ==
    ASSUME IInv, EndInv, StopInv, FileInv, NEW w \in Work, NEW g, LeaseCall(w, g) \/ AckDone(w),
           \A v \in Work : fate[v] \in Ended => fate'[v] = fate[v]
    PROVE  FileInv'
<1>0. TypeOK /\ PoolOf[w] \in Pools
    BY WorkBrokerAssumption DEF IInv
<1>1. CASE Heartbeat(w, g) \/ Activate(w, g)
    BY <1>0, <1>1, FilesKept DEF Heartbeat, Activate, spoolVars, lockVars, phaseVars
<1>2. CASE Release(w, g) \/ PayloadMissing(w, g)
    <2>1. Retire(Spent({w})) /\ Spent({w}) \in SUBSET records /\ UNCHANGED <<files, op, phase>>
        BY <1>2 DEF Release, PayloadMissing, RequeueOrExhaust, Spent, Current, lockVars, phaseVars
    <2>. QED BY <1>0, <2>1, RetireFiles
<1>3. CASE Acknowledge(w, g)
    <2>1. /\ op[PoolOf[w]] = Free /\ op'[PoolOf[w]] = [step |-> "unlink", work |-> w]
          /\ \A p \in Pools : p # PoolOf[w] => op'[p] = op[p]
          /\ UNCHANGED <<files, unlinking, phase>> /\ records' = records \ {w}
          /\ fate'[w] = "acknowledged"
        BY <1>0, <1>3 DEF Acknowledge, phaseVars, TypeOK
    <2>2. \A v \in Work : v # w => /\ Handles(v)' = Handles(v)
                                  /\ \A st \in Steps : At(v, st)' = At(v, st)
        BY <2>1, WorkBrokerAssumption DEF Handles, At, Free
    <2>3. Handles(w)' /\ ~At(w, "sidecar")'
        BY <2>1 DEF Handles, At
    <2>4. OwnedInv' /\ WritingInv' /\ UnlinkInv'
        BY <2>1, <2>2, <2>3 DEF FileInv, OwnedInv, WritingInv, UnlinkInv, Ended, Steps
    <2>. QED BY <2>1, <2>4 DEF FileInv, PresentInv, DiscardInv, Spooling
<1>4. CASE AckDone(w)
    <2>1. /\ op[PoolOf[w]] = [step |-> "unlink", work |-> w] /\ op'[PoolOf[w]] = Free
          /\ \A p \in Pools : p # PoolOf[w] => op'[p] = op[p]
          /\ UNCHANGED <<unlinking, phase, records, fate>> /\ files' = files \ FilesOf(w)
        BY <1>0, <1>4 DEF AckDone, At, phaseVars, recordVars, TypeOK
    <2>2. \A v \in Work : v # w => /\ Handles(v)' = Handles(v)
                                  /\ \A st \in Steps : At(v, st)' = At(v, st)
        BY <2>1, WorkBrokerAssumption DEF Handles, At, Free
    <2>3. \A st \in {"sidecar", "unlink"} : ~At(w, st)'
        BY <2>1 DEF At, Free
    <2>4. w \notin records
        BY <2>1 DEF FileInv, UnlinkInv, At, EndInv, FateInv
    <2>5. \A v \in Work, k \in Kinds : <<v, k>> \in files' <=> <<v, k>> \in files /\ ~(v = w /\ Ours(w, k))
        BY <2>1, FilesMembers
    <2>6. OwnedInv'
        BY <2>1, <2>2, <2>5 DEF FileInv, OwnedInv
    <2>7. WritingInv'
        BY <2>1, <2>2, <2>3, <2>5 DEF FileInv, WritingInv, Steps, Kinds
    <2>8. PresentInv' /\ DiscardInv'
        BY <1>0, <2>1, <2>4, <2>5 DEF FileInv, PresentInv, DiscardInv, Spooling, TypeOK
    <2>9. UnlinkInv'
        BY <2>1, <2>2, <2>3 DEF FileInv, UnlinkInv, Steps
    <2>. QED BY <2>6, <2>7, <2>8, <2>9 DEF FileInv
<1>. QED BY <1>1, <1>2, <1>3, <1>4 DEF LeaseCall

\* A single deletion, or a loss, takes the file of nobody who still needs it.
LEMMA UnlinkFiles ==
    ASSUME IInv, EndInv, FileInv, NEW f \in Files, Unlink(f) \/ LoseFile(f)
    PROVE  FileInv'
<1>1. /\ UNCHANGED <<op, phase, records, fate>> /\ files' = files \ {f}
      /\ unlinking' \subseteq unlinking
      /\ \A x \in unlinking : x \in files' => x \in unlinking'
    BY DEF Unlink, LoseFile, lockVars, phaseVars, recordVars
<1>2. f \in unlinking \/ f \in Losable
    BY DEF Unlink, LoseFile
<1>3. \A w \in Work, k \in Kinds : <<w, k>> \in unlinking =>
          w \notin records /\ fate[w] = "exhausted"
    BY DEF FileInv, UnlinkInv, EndInv, FateInv
<1>4. \A w \in Work : At(w, "sidecar") => fate[w] = "admitting"
    BY DEF IInv, LifeInv, InFlight
<1>5. OwnedInv' /\ UnlinkInv' /\ DiscardInv'
    BY <1>1 DEF FileInv, OwnedInv, UnlinkInv, DiscardInv, Handles, At
<1>6. PresentInv'
    <2>1. ASSUME NEW w \in records, NEW k \in Kinds, <<w, k>> \in files \cup Losable
          PROVE  <<w, k>> \in files' \cup Losable
        <3>1. w \in Work
            BY DEF IInv, TypeOK
        <3>2. <<w, k>> \notin unlinking
            BY <1>3, <3>1
        <3>. QED BY <1>1, <1>2, <2>1, <3>2
    <2>. QED BY <1>1, <2>1 DEF FileInv, PresentInv, Spooling
<1>7. WritingInv'
    BY <1>1, <1>2, <1>3, <1>4 DEF FileInv, WritingInv, At, Kinds
<1>. QED BY <1>5, <1>6, <1>7 DEF FileInv

LEMMA PhaseFiles ==
    ASSUME IInv, EndInv, StopInv, FileInv, Shutdown \/ Crash \/ Start,
           \A v \in Work : fate[v] \in Ended => fate'[v] = fate[v]
    PROVE  FileInv'
<1>0. TypeOK
    BY DEF IInv
<1>a. phase = "draining" => \A w \in Work : ~At(w, "sidecar")
    BY WorkBrokerAssumption DEF StopInv, At
<1>. USE DEF FileInv, OwnedInv, PresentInv, Spooling, WritingInv, UnlinkInv, DiscardInv
<1>1. CASE ShutdownBegin \/ ShutdownDrain \/ \E p \in Pools : ShutdownNotify(p)
    <2>1. /\ UNCHANGED <<files, op, unlinking, records, fate>>
          /\ phase \in {"running", "stopping"} /\ phase' \in {"stopping", "draining"}
        BY <1>1 DEF ShutdownBegin, ShutdownDrain, ShutdownNotify, Running, recordVars, spoolVars, lockVars
    <2>. QED BY <2>1 DEF Handles, At
<1>2. CASE ShutdownDiscard
    <2>2. \A w \in Work : ~At(w, "sidecar")
        BY <1>2, <1>a DEF ShutdownDiscard
    <2>3. /\ UNCHANGED <<op, records, fate, unlinking>> /\ phase' = "discarding" /\ phase = "draining"
          /\ files' = files \ FilesOfAll(records)
        BY <1>2 DEF ShutdownDiscard, recordVars, lockVars
    <2>4. \A v \in Work, k \in Kinds : <<v, k>> \in files' <=> <<v, k>> \in files /\ ~(v \in records /\ Ours(v, k))
        BY <1>0, <2>3, FilesMembers DEF TypeOK
    <2>5. OwnedInv' /\ PresentInv' /\ WritingInv' /\ UnlinkInv'
        BY <2>2, <2>3, <2>4 DEF Handles, At
    <2>6. DiscardInv'
        BY <1>0, <2>3, <2>4 DEF TypeOK
    <2>. QED BY <2>5, <2>6
<1>3. CASE ShutdownClear
    <2>1. /\ UNCHANGED <<op, files, unlinking>> /\ phase' = "stopped" /\ phase = "discarding" /\ records' = {}
        BY <1>3 DEF ShutdownClear, Forget, lockVars
    <2>2. \A w \in Work, k \in Kinds : w \in records => <<w, k>> \notin files
        BY <2>1
    <2>3. OwnedInv' /\ PresentInv' /\ WritingInv' /\ DiscardInv'
        BY <2>1, <2>2 DEF Handles, At
    <2>4. UnlinkInv'
        BY <2>1 DEF At, Ended
    <2>. QED BY <2>3, <2>4
<1>4. CASE Crash
    <2>1. /\ phase' = "down" /\ records' = {} /\ unlinking' = {} /\ files' = files
          /\ \A p \in Pools : op'[p] = Free
        BY <1>4 DEF Crash, Forget
    <2>2. \A w \in Work, st \in {"sidecar", "unlink"} : ~At(w, st)'
        BY <2>1, WorkBrokerAssumption DEF At, Free
    <2>. QED BY <2>1, <2>2
<1>5. CASE Start
    <2>1. /\ phase = "down" /\ records = {} /\ files' = {}
          /\ UNCHANGED <<op, records, unlinking, fate>> /\ phase' = "running"
          /\ \A p \in Pools : op[p] = Free
        BY <1>5 DEF Start, StopInv, StoppedIsEmpty, recordVars, lockVars
    <2>2. \A w \in Work, st \in {"sidecar", "unlink"} : ~At(w, st)'
        BY <2>1, WorkBrokerAssumption DEF At, Free
    <2>. QED BY <2>1, <2>2
<1>. QED BY <1>1, <1>2, <1>3, <1>4, <1>5 DEF Shutdown

LEMMA FileStep == IInv /\ EndInv /\ StopInv /\ FileInv /\ [Next]_vars => FileInv'
<1>. SUFFICES ASSUME IInv, EndInv, StopInv, FileInv, [Next]_vars PROVE FileInv'
    OBVIOUS
<1>0. TypeOK /\ \A v \in Work : fate[v] \in Ended => fate'[v] = fate[v]
    BY EndsStep DEF IInv, Final
<1>1. ASSUME NEW w \in Work, Admission(w) PROVE FileInv'
    BY <1>0, <1>1, AdmissionFiles
<1>2. ASSUME NEW w \in Work, LeaseDue(w) PROVE FileInv'
    BY <1>0, <1>2, FilesKept DEF LeaseDue, spoolVars, lockVars, phaseVars
<1>3. ASSUME NEW w \in Work, AckDone(w) PROVE FileInv'
    BY <1>0, <1>3, LeaseFiles
<1>4. ASSUME NEW w \in Work, NEW g \in Generations, LeaseCall(w, g) PROVE FileInv'
    BY <1>0, <1>4, LeaseFiles
<1>5. ASSUME NEW c \in Claimers, Claim(c) PROVE FileInv'
    <2>. DEFINE X == Spent(Due(ClaimsFrom[c]))
    <2>1. CASE ClaimCall(c) \/ ClaimTimeout(c) \/ ClaimStopped(c)
        BY <1>0, <2>1, FilesKept
        DEF ClaimCall, ClaimTimeout, ClaimStopped, recordVars, spoolVars, lockVars, phaseVars
    <2>2. X \in SUBSET records
        BY DEF Spent, Due
    <2>3. CASE ClaimWait(c) \/ \E w \in Work : ClaimGrant(c, w)
        <3>1. Retire(X) /\ UNCHANGED <<files, op, phase>>
            BY <2>3 DEF ClaimWait, ClaimGrant, lockVars, phaseVars
        <3>. QED BY <1>0, <2>2, <3>1, RetireFiles
    <2>. QED BY <1>5, <2>1, <2>3 DEF Claim
<1>6. ASSUME NEW p \in Pools, Sweep(p) PROVE FileInv'
    <2>1. Retire(Spent(Due(p))) /\ Spent(Due(p)) \in SUBSET records /\ UNCHANGED <<files, op, phase>>
        BY <1>6 DEF Sweep, RequeueOrExhaust, Spent, Due, lockVars, phaseVars
    <2>. QED BY <1>0, <2>1, RetireFiles
<1>7. ASSUME NEW f \in Files, Unlink(f) \/ LoseFile(f) PROVE FileInv'
    BY <1>7, UnlinkFiles
<1>8. CASE Shutdown \/ Crash \/ Start
    BY <1>0, <1>8, PhaseFiles
<1>9. CASE UNCHANGED vars
    BY <1>0, <1>9, FilesKept DEF vars, recordVars, spoolVars, lockVars, phaseVars
<1>. QED BY <1>1, <1>2, <1>3, <1>4, <1>5, <1>6, <1>7, <1>8, <1>9 DEF Next

\* No spool file outlives its reason, through failing writes, late deletions,
\* shutdown and crashes; and until shutdown discards the spool, nobody but the
\* environment takes a file from an admitted record.
THEOREM SpoolFilesExact == Spec => [](NoFileLeak /\ PayloadPresent)
<1>1. Init => FileInv
    BY WorkBrokerAssumption
    DEF Init, FileInv, OwnedInv, PresentInv, Spooling, WritingInv, UnlinkInv, DiscardInv, At, Free
<1>2. IInv /\ EndInv /\ StopInv /\ FileInv /\ [Next]_vars => FileInv'
    BY FileStep
<1>3. ASSUME IInv, FileInv PROVE NoFileLeak
    <2>1. \A f \in files : \E w \in Work, k \in Kinds : f = <<w, k>>
        BY <1>3 DEF IInv, TypeOK, Files, Kinds
    <2>. QED BY <1>3, <2>1 DEF FileInv, OwnedInv, NoFileLeak
<1>4. ASSUME IInv, FileInv PROVE PayloadPresent
    <2>1. FilesOfAll(records) \subseteq Files /\ records \in SUBSET Work
        BY <1>3, <1>4, FilesTyped DEF IInv, TypeOK
    <2>2. \A f \in FilesOfAll(records) : \E w \in Work, k \in Kinds : f = <<w, k>>
        BY <2>1 DEF Files, Kinds
    <2>. QED BY <1>4, <2>1, <2>2, FilesMembers DEF FileInv, PresentInv, Spooling, PayloadPresent
<1>5. IInv /\ FileInv => NoFileLeak /\ PayloadPresent
    BY <1>3, <1>4
<1>. QED BY <1>1, <1>2, <1>5, StopInvariance, PTL DEF Spec

-----------------------------------------------------------------------------
(* The byte count.                                                         *)

LEMMA BytesFinite ==
    ASSUME NEW W \in SUBSET Work
    PROVE  IsFiniteSet(Bytes(W)) /\ BytesOf(W) \in Nat
<1>. DEFINE Of1(w) == {w} \X (1..RecordBytes(w))
            f == [w \in W |-> Of1(w)]
            S == {Of1(w) : w \in W}
<1>1. \A w \in W : RecordBytes(w) \in Nat
    BY WorkBrokerAssumption DEF RecordBytes
<1>2. ASSUME NEW w \in W PROVE IsFiniteSet(Of1(w))
    <2>1. IsFiniteSet({w})
        BY FS_Singleton
    <2>2. IsFiniteSet(1..RecordBytes(w))
        BY <1>1, FS_Interval
    <2>. QED BY <2>1, <2>2, FS_Product
<1>3. IsFiniteSet(W)
    BY WorkBrokerAssumption, FS_Subset
<1>4. f \in Surjection(W, S)
    BY DEF Surjection
<1>5. IsFiniteSet(S)
    <2>. HIDE DEF f, S
    <2>. QED BY <1>3, <1>4, FS_Surjection
<1>6. IsFiniteSet(UNION S)
    <2>1. \A T \in S : IsFiniteSet(T)
        BY <1>2
    <2>. HIDE DEF S
    <2>. QED BY <1>5, <2>1, FS_UNION
<1>. QED BY <1>6, FS_CardinalityType DEF Bytes, BytesOf

LEMMA RecordBytesCount ==
    ASSUME NEW w \in Work
    PROVE  RecordBytes(w) \in Nat /\ BytesOf({w}) = RecordBytes(w)
<1>1. RecordBytes(w) \in Nat
    BY WorkBrokerAssumption DEF RecordBytes
<1>2. IsFiniteSet(1..RecordBytes(w)) /\ Cardinality(1..RecordBytes(w)) = RecordBytes(w)
    BY <1>1, FS_Interval
<1>3. Cardinality({w} \X (1..RecordBytes(w))) = RecordBytes(w)
    <2>1. IsFiniteSet({w}) /\ Cardinality({w}) = 1
        BY FS_Singleton
    <2>2. Cardinality({w} \X (1..RecordBytes(w))) = Cardinality({w}) * Cardinality(1..RecordBytes(w))
        BY <1>2, <2>1, FS_Product
    <2>. QED BY <1>1, <1>2, <2>1, <2>2
<1>4. Bytes({w}) = {w} \X (1..RecordBytes(w))
    BY DEF Bytes
<1>. QED BY <1>1, <1>3, <1>4 DEF BytesOf

\* No two records share a byte, so the count of two disjoint sets is the sum.
LEMMA BytesAdd ==
    ASSUME NEW W \in SUBSET Work, NEW X \in SUBSET Work, W \cap X = {}
    PROVE  BytesOf(W \cup X) = BytesOf(W) + BytesOf(X)
<1>. DEFINE B == Bytes(W)
            C == Bytes(X)
<1>1. Bytes(W \cup X) = B \cup C /\ B \cap C = {}
    BY DEF Bytes
<1>2. IsFiniteSet(B) /\ IsFiniteSet(C) /\ Cardinality(B) \in Nat /\ Cardinality(C) \in Nat
    BY BytesFinite DEF BytesOf
<1>. HIDE DEF B, C
<1>3. Cardinality(B \cup C) = Cardinality(B) + Cardinality(C) - Cardinality(B \cap C)
    BY <1>2, FS_Union
<1>4. Cardinality(B \cap C) = 0
    BY <1>1, FS_EmptySet
<1>5. Cardinality(B \cup C) = Cardinality(B) + Cardinality(C)
    BY <1>2, <1>3, <1>4
<1>. QED BY <1>1, <1>5 DEF BytesOf, B, C

LEMMA BytesRemove ==
    ASSUME NEW W \in SUBSET Work, NEW X \in SUBSET W
    PROVE  BytesOf(W \ X) = BytesOf(W) - BytesOf(X)
<1>. DEFINE Y == W \ X
<1>1. Y \in SUBSET Work /\ X \in SUBSET Work /\ Y \cap X = {} /\ Y \cup X = W
    OBVIOUS
<1>. HIDE DEF Y
<1>2. BytesOf(Y \cup X) = BytesOf(Y) + BytesOf(X)
    BY <1>1, BytesAdd
<1>3. BytesOf(Y) \in Nat /\ BytesOf(X) \in Nat
    BY <1>1, BytesFinite
<1>4. BytesOf(W) = BytesOf(Y) + BytesOf(X)
    BY <1>1, <1>2
<1>. QED BY <1>3, <1>4 DEF Y

\* How the records and the count of their bytes move together.
Adds(w) ==
    /\ At(w, "payload") \/ At(w, "sidecar")
    /\ w \notin records /\ records' = records \cup {w}
    /\ spoolBytes' = spoolBytes + RecordBytes(w)
    /\ op' = [op EXCEPT ![PoolOf[w]] = Free]
Removes(X) == records' = records \ X /\ spoolBytes' = spoolBytes - BytesOf(X)
LedgerStep ==
    \/ UNCHANGED <<records, spoolBytes>>
    \/ \E w \in Work : Adds(w)
    \/ \E X \in SUBSET records : Removes(X)
    \/ records' = {} /\ spoolBytes' = 0

LEMMA LedgerSteps == TypeOK /\ LifeInv /\ [Next]_vars => LedgerStep
<1>. SUFFICES ASSUME TypeOK, LifeInv, [Next]_vars PROVE LedgerStep
    OBVIOUS
<1>0. ASSUME UNCHANGED <<records, spoolBytes>> PROVE LedgerStep
    BY <1>0 DEF LedgerStep
<1>a. ASSUME NEW D, Retire(Spent(D)), D \subseteq records PROVE LedgerStep
    <2>1. Spent(D) \in SUBSET records
        BY <1>a DEF Spent
    <2>. QED BY <1>a, <2>1 DEF Retire, LedgerStep, Removes
<1>1. ASSUME NEW w \in Work, Admission(w) PROVE LedgerStep
    <2>1. ASSUME Commit(w), At(w, "payload") \/ At(w, "sidecar") PROVE LedgerStep
        <3>1. w \notin records
            BY <2>1 DEF LifeInv, InFlight, Untouched
        <3>. QED BY <2>1, <3>1 DEF Commit, LedgerStep, Adds
    <2>2. CASE SpoolPayload(w)
        <3>1. CASE Commit(w)
            BY <2>1, <2>2, <3>1 DEF SpoolPayload
        <3>2. CASE ~Commit(w)
            <4>1. UNCHANGED <<recordVars, spoolBytes>>
                BY <2>2, <3>2, Zenon DEF SpoolPayload
            <4>. QED BY <1>0, <4>1 DEF recordVars
        <3>. QED BY <3>1, <3>2
    <2>3. CASE SpoolSidecar(w)
        BY <2>1, <2>3 DEF SpoolSidecar
    <2>4. CASE EnqueueStart(w) \/ EnqueueReject(w) \/ EnqueueAdmit(w) \/ SpoolFails(w) \/ EnqueueUndo(w)
        BY <1>0, <2>4 DEF EnqueueStart, EnqueueReject, EnqueueAdmit, SpoolFails, EnqueueUndo,
                          recordVars, spoolVars
    <2>. QED BY <1>1, <2>2, <2>3, <2>4 DEF Admission
<1>2. ASSUME NEW w \in Work, LeaseDue(w) \/ AckDone(w) PROVE LedgerStep
    BY <1>0, <1>2 DEF LeaseDue, AckDone, recordVars, spoolVars
<1>3. ASSUME NEW w \in Work, NEW g \in Generations, LeaseCall(w, g) PROVE LedgerStep
    <2>1. CASE Heartbeat(w, g) \/ Activate(w, g)
        BY <1>0, <2>1 DEF Heartbeat, Activate, spoolVars
    <2>2. CASE Release(w, g) \/ PayloadMissing(w, g)
        <3>1. Retire(Spent({w})) /\ {w} \subseteq records
            BY <2>2 DEF Release, PayloadMissing, Current, RequeueOrExhaust
        <3>. QED BY <1>a, <3>1
    <2>3. CASE Acknowledge(w, g)
        <3>1. {w} \in SUBSET records /\ Removes({w})
            BY <2>3, RecordBytesCount DEF Acknowledge, Current, Removes
        <3>. QED BY <3>1 DEF LedgerStep
    <2>. QED BY <1>3, <2>1, <2>2, <2>3 DEF LeaseCall
<1>4. ASSUME NEW c \in Claimers, Claim(c) PROVE LedgerStep
    <2>1. CASE ClaimCall(c) \/ ClaimTimeout(c) \/ ClaimStopped(c)
        BY <1>0, <2>1 DEF ClaimCall, ClaimTimeout, ClaimStopped, recordVars, spoolVars
    <2>2. Due(ClaimsFrom[c]) \subseteq records
        BY DueTyped
    <2>3. CASE ClaimWait(c) \/ \E w \in Work : ClaimGrant(c, w)
        BY <1>a, <2>2, <2>3 DEF ClaimWait, ClaimGrant
    <2>. QED BY <1>4, <2>1, <2>3 DEF Claim
<1>5. ASSUME NEW p \in Pools, Sweep(p) PROVE LedgerStep
    BY <1>5, <1>a, DueTyped DEF Sweep, RequeueOrExhaust
<1>6. ASSUME NEW f \in Files, Unlink(f) \/ LoseFile(f) PROVE LedgerStep
    BY <1>0, <1>6 DEF Unlink, LoseFile, recordVars
<1>7. ASSUME Shutdown \/ Crash \/ Start PROVE LedgerStep
    <2>1. CASE ShutdownClear \/ Crash
        BY <2>1 DEF ShutdownClear, Crash, Forget, LedgerStep
    <2>. QED BY <1>0, <1>7, <2>1 DEF Shutdown, Start, ShutdownBegin, ShutdownNotify, ShutdownDrain,
                    ShutdownDiscard, recordVars, spoolVars
<1>8. CASE UNCHANGED vars
    BY <1>0, <1>8 DEF vars, recordVars, spoolVars
<1>. QED BY <1>1, <1>2, <1>3, <1>4, <1>5, <1>6, <1>7, <1>8 DEF Next

\* From its admission to the end of its last spool write, or of its rollback, a
\* handler has the admission lock, and the bytes it was admitted for are free.
LockInv == \A p \in Pools : op[p].step \in {"payload", "sidecar", "undo"} => admission = p
Fits(w) == spoolBytes + RecordBytes(w) <= SpoolLimit
FitInv == \A w \in Work : At(w, "payload") \/ At(w, "sidecar") => Fits(w)
ByteInv == SpoolAccounting /\ LockInv /\ FitInv

LEMMA LockKept == TypeOK /\ LockInv /\ [Next]_vars => LockInv'
<1>. SUFFICES ASSUME TypeOK, LockInv, [Next]_vars PROVE LockInv'
    OBVIOUS
<1>0. ASSUME UNCHANGED lockVars PROVE LockInv'
    BY <1>0 DEF LockInv, lockVars
<1>1. ASSUME NEW w \in Work, Admission(w) PROVE LockInv'
    <2>. DEFINE p == PoolOf[w]
                holding == {"payload", "sidecar", "undo"}
    <2>0. p \in Pools /\ NoPool \notin Pools
        BY WorkBrokerAssumption
    <2>1. ASSUME op'[p].step \notin holding, \A r \in Pools : r # p => op'[r] = op[r],
                 admission' = admission \/ op[p].step \in holding
          PROVE  LockInv'
        BY <2>0, <2>1 DEF LockInv
    <2>2. CASE EnqueueStart(w)
        BY <2>0, <2>1, <2>2 DEF EnqueueStart, TypeOK
    <2>3. CASE EnqueueReject(w)
        BY <2>0, <2>1, <2>3 DEF EnqueueReject, TypeOK, Free
    <2>4. CASE EnqueueAdmit(w)
        <3>1. /\ \A r \in Pools : op[r].step \notin holding
              /\ admission' = p /\ \A r \in Pools : r # p => op'[r] = op[r]
            BY <2>0, <2>4 DEF EnqueueAdmit, AdmissionFree, LockInv, TypeOK
        <3>. QED BY <3>1 DEF LockInv
    <2>5. ASSUME Commit(w), At(w, "payload") \/ At(w, "sidecar") PROVE LockInv'
        BY <2>0, <2>1, <2>5 DEF Commit, At, TypeOK, Free
    <2>6. ASSUME UNCHANGED admission, op[p].step \in holding, \A r \in Pools : r # p => op'[r] = op[r]
          PROVE  LockInv'
        BY <2>6 DEF LockInv
    <2>7. CASE SpoolPayload(w)
        <3>1. CASE Commit(w)
            BY <2>5, <2>7, <3>1 DEF SpoolPayload
        <3>2. CASE ~Commit(w)
            <4>1. op' = [op EXCEPT ![p].step = "sidecar"] /\ UNCHANGED admission /\ At(w, "payload")
                BY <2>7, <3>2, Zenon DEF SpoolPayload
            <4>. QED BY <2>0, <2>6, <4>1 DEF At, TypeOK
        <3>. QED BY <3>1, <3>2
    <2>8. CASE SpoolSidecar(w)
        BY <2>5, <2>8 DEF SpoolSidecar
    <2>9. CASE SpoolFails(w)
        BY <2>0, <2>6, <2>9 DEF SpoolFails, At, TypeOK
    <2>10. CASE EnqueueUndo(w)
        BY <2>0, <2>1, <2>10 DEF EnqueueUndo, At, TypeOK, Free
    <2>. QED BY <1>1, <2>2, <2>3, <2>4, <2>7, <2>8, <2>9, <2>10 DEF Admission
<1>2. ASSUME NEW w \in Work, LeaseDue(w) PROVE LockInv'
    BY <1>0, <1>2 DEF LeaseDue
<1>3. ASSUME NEW w \in Work, AckDone(w) PROVE LockInv'
    BY <1>3, WorkBrokerAssumption DEF AckDone, LockInv, TypeOK, Free
<1>4. ASSUME NEW w \in Work, NEW g \in Generations, LeaseCall(w, g) PROVE LockInv'
    <2>1. CASE Acknowledge(w, g)
        BY <2>1, WorkBrokerAssumption DEF Acknowledge, LockInv, TypeOK
    <2>. QED BY <1>0, <1>4, <2>1 DEF LeaseCall, Heartbeat, Activate, Release, PayloadMissing
<1>5. ASSUME NEW c \in Claimers, Claim(c) PROVE LockInv'
    BY <1>0, <1>5 DEF Claim, ClaimCall, ClaimWait, ClaimTimeout, ClaimStopped, ClaimGrant
<1>6. ASSUME NEW p \in Pools, Sweep(p) PROVE LockInv'
    BY <1>0, <1>6 DEF Sweep
<1>7. ASSUME NEW f \in Files, Unlink(f) \/ LoseFile(f) PROVE LockInv'
    BY <1>0, <1>7 DEF Unlink, LoseFile
<1>8. ASSUME Shutdown \/ Start PROVE LockInv'
    BY <1>0, <1>8 DEF Shutdown, Start, ShutdownBegin, ShutdownNotify, ShutdownDrain, ShutdownDiscard,
                      ShutdownClear
<1>9. CASE Crash
    BY <1>9 DEF Crash, LockInv, Free
<1>10. CASE UNCHANGED vars
    BY <1>0, <1>10 DEF vars
<1>. QED BY <1>1, <1>2, <1>3, <1>4, <1>5, <1>6, <1>7, <1>8, <1>9, <1>10 DEF Next

\* Only an admission that fits begins to write.
Writing(w) == At(w, "payload") \/ At(w, "sidecar")

LEMMA WritingSteps ==
    ASSUME TypeOK, [Next]_vars, NEW w \in Work, Writing(w)'
    PROVE  Writing(w) \/ (Fits(w) /\ UNCHANGED spoolBytes)
<1>0. PoolOf[w] \in Pools /\ \A v \in Work : PoolOf[v] \in Pools
    BY WorkBrokerAssumption
<1>a. SUFFICES ASSUME op'[PoolOf[w]] # op[PoolOf[w]]
               PROVE  Writing(w) \/ (Fits(w) /\ UNCHANGED spoolBytes)
    BY DEF Writing, At
<1>b. UNCHANGED lockVars => FALSE
    BY <1>a DEF lockVars
<1>1. ASSUME NEW v \in Work, Admission(v) PROVE Writing(w) \/ (Fits(w) /\ UNCHANGED spoolBytes)
    <2>1. PoolOf[v] = PoolOf[w]
        BY <1>0, <1>1, <1>a
        DEF Admission, EnqueueStart, EnqueueReject, EnqueueAdmit, SpoolPayload, SpoolSidecar,
            SpoolFails, EnqueueUndo, Commit, TypeOK
    <2>2. CASE EnqueueAdmit(v)
        <3>1. v = w
            BY <1>0, <2>1, <2>2 DEF EnqueueAdmit, Writing, At, TypeOK
        <3>. QED BY <2>2, <3>1 DEF EnqueueAdmit, Admissible, Fits, spoolVars
    <2>3. CASE SpoolPayload(v)
        <3>1. Writing(v)
            BY <2>3 DEF SpoolPayload, Writing
        <3>2. op'[PoolOf[w]].work = v \/ op'[PoolOf[w]] = Free
            BY <1>0, <2>1, <2>3 DEF SpoolPayload, Commit, At, TypeOK
        <3>. QED BY <3>1, <3>2, WorkBrokerAssumption DEF Writing, At, Free
    <2>4. CASE EnqueueStart(v) \/ EnqueueReject(v) \/ SpoolSidecar(v) \/ SpoolFails(v) \/ EnqueueUndo(v)
        <3>1. op'[PoolOf[w]].step \notin {"payload", "sidecar"}
            BY <1>0, <2>1, <2>4 DEF EnqueueStart, EnqueueReject, SpoolSidecar, SpoolFails, EnqueueUndo,
                                    Commit, TypeOK, Free
        <3>. QED BY <3>1 DEF Writing, At
    <2>. QED BY <1>1, <2>2, <2>3, <2>4 DEF Admission
<1>2. ASSUME NEW v \in Work PROVE ~LeaseDue(v)
    BY <1>b DEF LeaseDue
<1>3. ASSUME NEW v \in Work PROVE ~AckDone(v)
    BY <1>0, <1>a DEF AckDone, Writing, At, TypeOK, Free
<1>4. ASSUME NEW v \in Work, NEW g \in Generations PROVE ~LeaseCall(v, g)
    <2>1. ~Acknowledge(v, g)
        BY <1>0, <1>a DEF Acknowledge, Writing, At, TypeOK
    <2>. QED BY <1>b, <2>1 DEF LeaseCall, Heartbeat, Activate, Release, PayloadMissing
<1>5. ASSUME NEW c \in Claimers PROVE ~Claim(c)
    BY <1>b DEF Claim, ClaimCall, ClaimWait, ClaimTimeout, ClaimStopped, ClaimGrant
<1>6. ASSUME NEW p \in Pools PROVE ~Sweep(p)
    BY <1>b DEF Sweep
<1>7. ASSUME NEW f \in Files PROVE ~Unlink(f) /\ ~LoseFile(f)
    BY <1>b DEF Unlink, LoseFile
<1>8. ~Shutdown /\ ~Start
    BY <1>b DEF Shutdown, Start, ShutdownBegin, ShutdownNotify, ShutdownDrain, ShutdownDiscard,
                ShutdownClear
<1>9. ~Crash
    BY <1>0 DEF Crash, Writing, At, Free
<1>10. ~UNCHANGED vars
    BY <1>b DEF vars
<1>. QED BY <1>1, <1>2, <1>3, <1>4, <1>5, <1>6, <1>7, <1>8, <1>9, <1>10 DEF Next

LEMMA ByteStep == TypeOK /\ LifeInv /\ ByteInv /\ [Next]_vars => ByteInv'
<1>. SUFFICES ASSUME TypeOK, LifeInv, ByteInv, [Next]_vars PROVE ByteInv'
    OBVIOUS
<1>1. LedgerStep /\ LockInv'
    BY LedgerSteps, LockKept DEF ByteInv
<1>2. /\ records \in SUBSET Work /\ spoolBytes \in Nat /\ SpoolLimit \in Nat
      /\ spoolBytes = BytesOf(records) /\ spoolBytes <= SpoolLimit
    BY BytesFinite, WorkBrokerAssumption DEF ByteInv, SpoolAccounting, TypeOK
<1>3. \A w \in Work : RecordBytes(w) \in Nat
    BY RecordBytesCount
<1>4. ASSUME NEW w \in Work, Adds(w) PROVE ByteInv'
    <2>1. BytesOf(records \cup {w}) = BytesOf(records) + RecordBytes(w)
        <3>1. records \cap {w} = {} /\ {w} \in SUBSET Work
            BY <1>4 DEF Adds
        <3>. QED BY <1>2, <3>1, BytesAdd, RecordBytesCount
    <2>2. spoolBytes + RecordBytes(w) <= SpoolLimit
        BY <1>4 DEF Adds, ByteInv, FitInv, Fits
    <2>3. SpoolAccounting'
        BY <1>2, <1>4, <2>1, <2>2 DEF Adds, SpoolAccounting
    <2>4. ASSUME NEW v \in Work, Writing(v)' PROVE FALSE
        <3>1. PoolOf[v] \in Pools /\ PoolOf[w] \in Pools
            BY WorkBrokerAssumption
        <3>2. op'[PoolOf[w]] = Free
            BY <1>4, <3>1 DEF Adds, TypeOK
        <3>3. PoolOf[v] # PoolOf[w]
            BY <2>4, <3>2 DEF Writing, At, Free
        <3>4. Writing(v) /\ Writing(w)
            BY <1>4, <2>4, <3>1, <3>3 DEF Adds, Writing, At, TypeOK
        <3>5. admission = PoolOf[v] /\ admission = PoolOf[w]
            BY <3>1, <3>4 DEF ByteInv, LockInv, Writing, At
        <3>. QED BY <3>3, <3>5
    <2>. QED BY <1>1, <2>3, <2>4 DEF ByteInv, FitInv, Writing
<1>5. ASSUME spoolBytes' <= spoolBytes, spoolBytes' \in Int PROVE FitInv'
    <2>1. ASSUME NEW w \in Work, Writing(w)' PROVE Fits(w)'
        <3>1. Fits(w)
            BY <2>1, WritingSteps DEF ByteInv, FitInv, Writing
        <3>. QED BY <1>2, <1>3, <1>5, <3>1 DEF Fits, RecordBytes
    <2>. QED BY <2>1 DEF FitInv, Writing
<1>6. ASSUME NEW X \in SUBSET records, Removes(X) PROVE ByteInv'
    <2>1. BytesOf(X) \in Nat /\ BytesOf(records \ X) = BytesOf(records) - BytesOf(X)
        BY <1>2, BytesFinite, BytesRemove
    <2>2. spoolBytes' = spoolBytes - BytesOf(X) /\ records' = records \ X
        BY <1>6 DEF Removes
    <2>3. spoolBytes' <= spoolBytes /\ spoolBytes' \in Int
        BY <1>2, <2>1, <2>2
    <2>4. SpoolAccounting'
        BY <1>2, <2>1, <2>2, <2>3 DEF SpoolAccounting
    <2>. QED BY <1>1, <1>5, <2>3, <2>4 DEF ByteInv
<1>7. CASE records' = {} /\ spoolBytes' = 0
    <2>1. BytesOf({}) = 0
        BY FS_EmptySet DEF BytesOf, Bytes
    <2>2. SpoolAccounting'
        BY <1>2, <1>7, <2>1 DEF SpoolAccounting
    <2>. QED BY <1>1, <1>2, <1>5, <1>7, <2>2 DEF ByteInv
<1>8. CASE UNCHANGED <<records, spoolBytes>>
    BY <1>1, <1>2, <1>5, <1>8 DEF ByteInv, SpoolAccounting
<1>. QED BY <1>1, <1>4, <1>6, <1>7, <1>8 DEF LedgerStep

\* The byte count is the size of the records and never passes the limit, and the
\* spool directory agrees with the records, whatever admissions, rollbacks,
\* acknowledgements, expiries and late deletions run beside each other.
THEOREM SpoolIsExact == Spec => []SpoolExact
<1>1. Init => ByteInv
    <2>1. BytesOf({}) = 0
        BY FS_EmptySet DEF BytesOf, Bytes
    <2>. QED BY <2>1, WorkBrokerAssumption
             DEF Init, ByteInv, SpoolAccounting, LockInv, FitInv, At, Free
<1>2. IInv /\ ByteInv /\ [Next]_vars => ByteInv'
    BY ByteStep DEF IInv
<1>3. ByteInv /\ NoFileLeak /\ PayloadPresent => SpoolExact
    BY DEF ByteInv, SpoolExact
<1>. QED BY <1>1, <1>2, <1>3, Invariance, SpoolFilesExact, PTL DEF Spec
=============================================================================
