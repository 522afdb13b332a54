------------------------- MODULE IngestClientProofs -------------------------
(***************************************************************************)
(* First the service: StreamIsExact for any jobs, documents, streams and   *)
(* queue limits.  A reader that is subscribed gets every end of its job,   *)
(* each once, from the snapshot and then from its queue.                   *)
(*                                                                         *)
(* Then one client call, for any files, any number of attempts and any     *)
(* queue limit.  Every step of the call is a step of the service or leaves *)
(* it alone, so the stream stays exact; uploaded documents are accounted   *)
(* for (Accounted), and a call that is done has reported all of them       *)
(* (DoneMeansReported).                                                    *)
(***************************************************************************)
EXTENDS IngestClient, SequenceTheorems, TLAPS

-----------------------------------------------------------------------------
(* A queue of events: the documents in it, and that none is there twice.   *)

DocsIn(q) == {q[i] : i \in 1..Len(q)} \cap Docs
Distinct(q) == \A i, k \in 1..Len(q) : q[i] = q[k] => i = k \/ q[i] = Lifecycle

\* What another event makes of a queue.
LEMMA AppendEvent ==
    ASSUME NEW q \in Seq(Events), NEW e \in Events
    PROVE  /\ Append(q, e) \in Seq(Events) /\ Len(Append(q, e)) = Len(q) + 1
           /\ DocsIn(Append(q, e)) = DocsIn(q) \cup ({e} \cap Docs)
           /\ Distinct(q) /\ e \notin DocsIn(q) => Distinct(Append(q, e))
<1>. DEFINE r == Append(q, e)
<1>1. /\ r \in Seq(Events) /\ Len(r) = Len(q) + 1 /\ Len(q) \in Nat /\ r[Len(q) + 1] = e
      /\ \A i \in 1..Len(q) : r[i] = q[i] /\ q[i] \in Events
    OBVIOUS
<1>. HIDE DEF r
<1>2. \A i : i \in 1..Len(r) <=> i \in 1..Len(q) \/ i = Len(q) + 1
    BY <1>1
<1>3. DocsIn(r) = DocsIn(q) \cup ({e} \cap Docs)
    BY <1>1, <1>2 DEF DocsIn
<1>4. ASSUME Distinct(q), e \notin DocsIn(q) PROVE Distinct(r)
    <2>. SUFFICES ASSUME NEW i \in 1..Len(r), NEW k \in 1..Len(r), r[i] = r[k], i # k
                  PROVE  r[i] = Lifecycle
        BY DEF Distinct
    <2>1. CASE i \in 1..Len(q) /\ k \in 1..Len(q)
        BY <1>1, <1>4, <2>1 DEF Distinct
    <2>2. CASE i \in 1..Len(q) /\ k = Len(q) + 1
        BY <1>1, <1>4, <2>2 DEF DocsIn, Events
    <2>3. CASE k \in 1..Len(q) /\ i = Len(q) + 1
        BY <1>1, <1>4, <2>3 DEF DocsIn, Events
    <2>. QED BY <1>2, <2>1, <2>2, <2>3
<1>. QED BY <1>1, <1>3, <1>4 DEF r

\* What reading its head makes of a queue.
LEMMA ReadHead ==
    ASSUME NEW q \in Seq(Events), q # <<>>, Distinct(q)
    PROVE  /\ Tail(q) \in Seq(Events) /\ Len(Tail(q)) < Len(q) /\ Head(q) \in Events
           /\ DocsIn(q) = DocsIn(Tail(q)) \cup ({Head(q)} \cap Docs)
           /\ Head(q) \in Docs /\ Head(q) # Lifecycle => Head(q) \notin DocsIn(Tail(q))
           /\ Distinct(Tail(q))
<1>. DEFINE r == Tail(q)
<1>1. /\ r \in Seq(Events) /\ Len(r) = Len(q) - 1 /\ Len(q) \in Nat /\ Len(q) > 0 /\ Head(q) = q[1]
      /\ \A i \in 1..Len(r) : r[i] = q[i + 1] /\ i + 1 \in 1..Len(q) /\ i + 1 # 1
    OBVIOUS
<1>. HIDE DEF r
<1>2. \A i \in 1..Len(q) : i = 1 \/ (i - 1 \in 1..Len(r) /\ r[i - 1] = q[i])
    BY <1>1
<1>3. DocsIn(q) = DocsIn(r) \cup ({Head(q)} \cap Docs)
    <2>1. \A x : x \in DocsIn(q) => x \in DocsIn(r) \cup ({Head(q)} \cap Docs)
        BY <1>1, <1>2 DEF DocsIn
    <2>2. \A x : x \in DocsIn(r) \cup ({Head(q)} \cap Docs) => x \in DocsIn(q)
        BY <1>1 DEF DocsIn
    <2>. QED BY <2>1, <2>2
<1>4. ASSUME Head(q) \in DocsIn(r) PROVE Head(q) = Lifecycle
    <2>1. PICK i \in 1..Len(r) : r[i] = Head(q)
        BY <1>4 DEF DocsIn
    <2>. QED BY <1>1, <2>1 DEF Distinct
<1>5. Distinct(r)
    <2>. SUFFICES ASSUME NEW i \in 1..Len(r), NEW k \in 1..Len(r), r[i] = r[k], i # k
                  PROVE  r[i] = Lifecycle
        BY DEF Distinct
    <2>. QED BY <1>1 DEF Distinct
<1>6. Head(q) \in Events
    BY <1>1
<1>. QED BY <1>1, <1>3, <1>4, <1>5, <1>6 DEF r

-----------------------------------------------------------------------------
(* The inductive invariant.  A stream that nobody has opened yet must be   *)
(* empty, and only open streams are subscribed.                            *)

TypeInv ==
    /\ known \subseteq Jobs
    /\ status \in [Docs -> {"absent", "pending", "processing", "ended"}]
    /\ phase \in [Streams -> {"none", "open", "closed"}]
    /\ subscribers \subseteq Streams
    /\ catchup \in [Streams -> SUBSET Docs] /\ read \in [Streams -> SUBSET Docs]
    /\ queue \in [Streams -> Seq(Events)]

SubscriberInv ==
    \A s \in Streams :
        /\ phase[s] = "none" => queue[s] = <<>> /\ catchup[s] = {} /\ read[s] = {}
        /\ s \in subscribers => phase[s] = "open"

\* StreamIsExact of one stream.
Exact(s) ==
    /\ Len(queue[s]) <= QueueLimit
    /\ read[s] \cup catchup[s] \cup DocsIn(queue[s]) \subseteq Ended(FilterOf[s])
    /\ s \in subscribers => Ended(FilterOf[s]) \subseteq read[s] \cup catchup[s] \cup DocsIn(queue[s])
    /\ read[s] \cap (catchup[s] \cup DocsIn(queue[s])) = {}
    /\ catchup[s] \cap DocsIn(queue[s]) = {}
    /\ Distinct(queue[s])

ServiceInv == TypeInv /\ SubscriberInv /\ \A s \in Streams : phase[s] = "open" => Exact(s)

LEMMA ExactStreams == ServiceInv => StreamIsExact
BY DEF ServiceInv, StreamIsExact, Exact, Queued, DocsIn, Distinct

LEMMA ServiceInitInv == ServiceInit => ServiceInv
BY DEF ServiceInit, ServiceInv, TypeInv, SubscriberInv, Events

-----------------------------------------------------------------------------
(* Publications.                                                           *)

\* What a publication of events, the end of the documents D among them, may do
\* to the queue of a stream s of job j.
Delivered(s, q, D) ==
    /\ q \in Seq(Events) /\ Len(q) <= QueueLimit /\ Distinct(q)
    /\ DocsIn(queue[s]) \subseteq DocsIn(q) /\ DocsIn(q) \subseteq DocsIn(queue[s]) \cup D
    /\ s \in subscribers' => DocsIn(q) = DocsIn(queue[s]) \cup D

LEMMA OneEvent ==
    ASSUME ServiceInv, NEW j \in Jobs, NEW e \in Events, Publish(j, <<e>>),
           NEW s \in Listening(j), phase[s] = "open", e \notin DocsIn(queue[s])
    PROVE  Delivered(s, queue'[s], {e} \cap Docs)
<1>1. /\ queue[s] \in Seq(Events) /\ Exact(s) /\ s \in Streams /\ s \in subscribers
      /\ Len(queue[s]) \in Nat /\ QueueLimit \in Nat
    BY EventStreamAssumption DEF ServiceInv, TypeInv, Listening
<1>2. Len(<<e>>) = 1 /\ queue[s] \o <<e>> = Append(queue[s], e)
    BY <1>1
<1>3. CASE s \in Overrun(j, <<e>>)
    <2>1. Room(s) = 0 /\ SubSeq(<<e>>, 1, 0) = <<>> /\ queue[s] \o <<>> = queue[s]
        BY <1>1, <1>2, <1>3 DEF Overrun, Room, Exact
    <2>2. queue'[s] = queue[s] /\ s \notin subscribers'
        BY <1>1, <1>3, <2>1 DEF Publish
    <2>. QED BY <1>1, <2>2 DEF Delivered, Exact
<1>4. CASE s \notin Overrun(j, <<e>>)
    <2>1. queue'[s] = Append(queue[s], e) /\ Len(queue[s]) + 1 <= QueueLimit
        <3>1. Len(queue[s]) + 1 <= QueueLimit
            BY <1>1, <1>2, <1>4 DEF Overrun, Room
        <3>2. queue'[s] = queue[s] \o <<e>>
            BY <1>1, <1>4 DEF Publish
        <3>. QED BY <1>2, <3>1, <3>2
    <2>. QED BY <1>1, <2>1, AppendEvent DEF Delivered, Exact
<1>. QED BY <1>3, <1>4

LEMMA TwoEvents ==
    ASSUME ServiceInv, NEW j \in Jobs, NEW d \in Docs, Publish(j, <<d, Lifecycle>>),
           NEW s \in Listening(j), phase[s] = "open", d \notin DocsIn(queue[s])
    PROVE  Delivered(s, queue'[s], {d})
<1>. DEFINE ev == <<d, Lifecycle>>
            q == queue[s]
<1>1. /\ q \in Seq(Events) /\ Exact(s) /\ s \in Streams /\ s \in subscribers
      /\ Len(q) \in Nat /\ QueueLimit \in Nat /\ d \in Events /\ Lifecycle \in Events
      /\ Lifecycle \notin Docs
    BY EventStreamAssumption DEF ServiceInv, TypeInv, Listening, Events
<1>2. Len(ev) = 2 /\ q \o ev = Append(Append(q, d), Lifecycle)
    BY <1>1
<1>3. /\ Append(q, d) \in Seq(Events) /\ Len(Append(q, d)) = Len(q) + 1
      /\ DocsIn(Append(q, d)) = DocsIn(q) \cup {d} /\ Distinct(Append(q, d))
    BY <1>1, AppendEvent DEF Exact
<1>4. CASE s \in Overrun(j, ev) /\ Room(s) = 0
    <2>1. SubSeq(ev, 1, 0) = <<>> /\ q \o <<>> = q
        BY <1>1
    <2>2. queue'[s] = q /\ s \notin subscribers'
        BY <1>1, <1>4, <2>1 DEF Publish
    <2>. QED BY <1>1, <2>2 DEF Delivered, Exact
<1>5. CASE s \in Overrun(j, ev) /\ Room(s) # 0
    <2>1. Room(s) = 1 /\ Len(q) + 1 <= QueueLimit
        BY <1>1, <1>2, <1>5 DEF Overrun, Room, Exact
    <2>2. SubSeq(ev, 1, 1) = <<d>> /\ q \o <<d>> = Append(q, d)
        <3>1. Len(SubSeq(ev, 1, 1)) = 1 /\ SubSeq(ev, 1, 1)[1] = d /\ SubSeq(ev, 1, 1) \in Seq(Events)
            BY <1>1
        <3>2. \A t \in Seq(Events) : Len(t) = 1 /\ t[1] = d => t = <<d>>
            BY <1>1
        <3>3. SubSeq(ev, 1, 1) = <<d>>
            BY <3>1, <3>2
        <3>4. q \o <<d>> = Append(q, d)
            BY <1>1
        <3>. QED BY <3>3, <3>4
    <2>3. queue'[s] = Append(q, d) /\ s \notin subscribers'
        BY <1>1, <1>5, <2>1, <2>2 DEF Publish
    <2>. QED BY <1>3, <2>1, <2>3 DEF Delivered
<1>6. CASE s \notin Overrun(j, ev)
    <2>1. queue'[s] = Append(Append(q, d), Lifecycle) /\ Len(q) + 2 <= QueueLimit
        <3>1. Len(q) + 2 <= QueueLimit
            BY <1>1, <1>2, <1>6 DEF Overrun, Room
        <3>2. queue'[s] = q \o ev
            BY <1>1, <1>6 DEF Publish
        <3>. QED BY <1>2, <3>1, <3>2
    <2>2. {Lifecycle} \cap Docs = {} /\ Lifecycle \notin DocsIn(Append(q, d))
        BY <1>1 DEF DocsIn
    <2>3. /\ queue'[s] \in Seq(Events) /\ Len(queue'[s]) = Len(q) + 2
          /\ DocsIn(queue'[s]) = DocsIn(q) \cup {d} /\ Distinct(queue'[s])
        <3>. DEFINE r == Append(q, d)
        <3>1. /\ r \in Seq(Events) /\ Len(r) = Len(q) + 1 /\ DocsIn(r) = DocsIn(q) \cup {d} /\ Distinct(r)
              /\ queue'[s] = Append(r, Lifecycle) /\ Lifecycle \notin DocsIn(r)
            BY <1>3, <2>1, <2>2
        <3>. HIDE DEF r
        <3>2. /\ Append(r, Lifecycle) \in Seq(Events) /\ Len(Append(r, Lifecycle)) = Len(r) + 1
              /\ DocsIn(Append(r, Lifecycle)) = DocsIn(r) \cup ({Lifecycle} \cap Docs)
              /\ Distinct(Append(r, Lifecycle))
            BY <1>1, <3>1, AppendEvent
        <3>. QED BY <1>1, <2>2, <3>1, <3>2
    <2>. QED BY <1>1, <2>1, <2>3 DEF Delivered
<1>. QED BY <1>4, <1>5, <1>6

\* A publication leaves the streams of other jobs alone.
LEMMA NotListening ==
    ASSUME ServiceInv, NEW j, NEW events, Publish(j, events), NEW s \in Streams, s \notin Listening(j)
    PROVE  queue'[s] = queue[s] /\ (s \in subscribers' <=> s \in subscribers)
BY DEF Publish, Overrun

\* The streams after a transition that ends the documents D (one or none) of
\* job j and publishes events.
LEMMA PublishKeeps ==
    ASSUME ServiceInv, NEW j \in Jobs, NEW events, Publish(j, events), NEW D \in SUBSET Docs,
           status' \in [Docs -> {"absent", "pending", "processing", "ended"}], UNCHANGED known,
           \A i \in Jobs : Ended(i)' = IF i = j THEN Ended(j) \cup D ELSE Ended(i),
           D \cap Ended(j) = {},
           \A s \in Listening(j) : phase[s] = "open" => Delivered(s, queue'[s], D)
    PROVE  ServiceInv'
<1>1. TypeInv /\ SubscriberInv /\ \A s \in Streams : phase[s] = "open" => Exact(s)
    BY DEF ServiceInv
<1>2. UNCHANGED <<phase, catchup, read>> /\ subscribers' \subseteq subscribers
    BY DEF Publish
<1>3. \A s \in Listening(j) : s \in Streams /\ s \in subscribers /\ phase[s] = "open" /\ FilterOf[s] = j
    BY <1>1 DEF Listening, TypeInv, SubscriberInv
<1>4. \A s \in Streams \ Listening(j) : queue'[s] = queue[s] /\ (s \in subscribers' <=> s \in subscribers)
    BY NotListening
<1>5. TypeInv'
    <2>1. queue' \in [Streams -> Seq(Events)]
        <3>1. \A s \in Streams : queue'[s] \in Seq(Events)
            BY <1>1, <1>3, <1>4 DEF Delivered, TypeInv
        <3>2. DOMAIN queue' = Streams /\ queue' = [s \in Streams |-> queue'[s]]
            BY DEF Publish
        <3>. QED BY <3>1, <3>2
    <2>. QED BY <1>1, <1>2, <2>1 DEF TypeInv
<1>6. SubscriberInv'
    BY <1>1, <1>2, <1>3, <1>4 DEF SubscriberInv
<1>7. ASSUME NEW s \in Streams, phase'[s] = "open" PROVE Exact(s)'
    <2>1. Exact(s) /\ FilterOf[s] \in Jobs
        BY <1>1, <1>2, <1>7, EventStreamAssumption
    <2>2. CASE s \in Listening(j)
        <3>1. Delivered(s, queue'[s], D) /\ FilterOf[s] = j /\ s \in subscribers
            BY <1>2, <1>3, <1>7, <2>2
        <3>2. Ended(FilterOf[s])' = Ended(FilterOf[s]) \cup D
            BY <2>1, <3>1
        <3>. QED BY <1>2, <2>1, <3>1, <3>2 DEF Exact, Delivered
    <2>3. CASE s \notin Listening(j)
        <3>1. queue'[s] = queue[s] /\ (s \in subscribers' <=> s \in subscribers)
            BY <1>4, <2>3
        <3>2. s \in subscribers => FilterOf[s] # j
            BY <2>3 DEF Listening
        <3>3. Ended(FilterOf[s]) \subseteq Ended(FilterOf[s])'
              /\ (s \in subscribers => Ended(FilterOf[s])' = Ended(FilterOf[s]))
            BY <2>1, <3>2
        <3>. QED BY <1>2, <2>1, <3>1, <3>3 DEF Exact
    <2>. QED BY <2>2, <2>3
<1>. QED BY <1>5, <1>6, <1>7 DEF ServiceInv

-----------------------------------------------------------------------------
(* The steps.                                                              *)

\* Nothing that the streams depend on changes.
LEMMA StatusKeeps ==
    ASSUME ServiceInv, UNCHANGED <<known, busVars>>,
           status' \in [Docs -> {"absent", "pending", "processing", "ended"}],
           \A d \in Docs : status'[d] = "ended" <=> status[d] = "ended"
    PROVE  ServiceInv'
<1>1. \A j : Ended(j)' = Ended(j)
    BY DEF Ended
<1>. QED BY <1>1 DEF ServiceInv, TypeInv, SubscriberInv, Exact, busVars

LEMMA BeginKeeps ==
    ASSUME ServiceInv, NEW d \in Docs, Begin(d) PROVE ServiceInv'
<1>. DEFINE j == JobOf[d]
<1>1. /\ status' \in [Docs -> {"absent", "pending", "processing", "ended"}] /\ UNCHANGED known
      /\ \A c \in Docs : status'[c] = "ended" <=> status[c] = "ended"
      /\ j \in Jobs
    BY EventStreamAssumption DEF Begin, ServiceInv, TypeInv
<1>2. CASE UNCHANGED busVars
    BY <1>1, <1>2, StatusKeeps
<1>3. CASE Publish(j, <<Lifecycle>>)
    <2>1. Lifecycle \in Events /\ Lifecycle \notin Docs /\ {Lifecycle} \cap Docs = {}
        BY EventStreamAssumption DEF Events
    <2>2. \A s \in Listening(j) : phase[s] = "open" => Delivered(s, queue'[s], {})
        BY <1>1, <1>3, <2>1, OneEvent DEF DocsIn
    <2>3. \A i : Ended(i)' = Ended(i)
        BY <1>1 DEF Ended
    <2>. QED BY <1>1, <1>3, <2>2, <2>3, PublishKeeps
<1>. QED BY <1>2, <1>3 DEF Begin

\* What the streams see of the end of a document; the job's progress or end may
\* be announced with it.
Ends(d) ==
    /\ JobOf[d] \in known /\ status[d] \in {"pending", "processing"}
    /\ status' = [status EXCEPT ![d] = "ended"] /\ UNCHANGED known
    /\ Publish(JobOf[d], <<d>>) \/ Publish(JobOf[d], <<d, Lifecycle>>)

LEMMA EndsKeep ==
    ASSUME ServiceInv, NEW d \in Docs, Ends(d) PROVE ServiceInv'
<1>. DEFINE j == JobOf[d]
<1>1. /\ status' = [status EXCEPT ![d] = "ended"] /\ UNCHANGED known
      /\ status' \in [Docs -> {"absent", "pending", "processing", "ended"}]
      /\ j \in Jobs /\ status[d] # "ended" /\ d \in Events
    BY EventStreamAssumption DEF Ends, ServiceInv, TypeInv, Events
<1>2. \A i \in Jobs : Ended(i)' = IF i = j THEN Ended(j) \cup {d} ELSE Ended(i)
    BY <1>1 DEF Ended, ServiceInv, TypeInv
<1>3. {d} \cap Ended(j) = {}
    BY <1>1 DEF Ended
<1>4. \A s \in Listening(j) : phase[s] = "open" => d \notin DocsIn(queue[s])
    BY <1>3 DEF ServiceInv, Exact, Listening, TypeInv
<1>5. CASE Publish(j, <<d>>)
    <2>1. \A s \in Listening(j) : phase[s] = "open" => Delivered(s, queue'[s], {d})
        <3>1. {d} \cap Docs = {d}
            OBVIOUS
        <3>. QED BY <1>1, <1>4, <1>5, <3>1, OneEvent
    <2>. QED BY <1>1, <1>2, <1>3, <1>5, <2>1, PublishKeeps
<1>6. CASE Publish(j, <<d, Lifecycle>>)
    <2>1. \A s \in Listening(j) : phase[s] = "open" => Delivered(s, queue'[s], {d})
        BY <1>1, <1>4, <1>6, TwoEvents
    <2>. QED BY <1>1, <1>2, <1>3, <1>6, <2>1, PublishKeeps
<1>. QED BY <1>5, <1>6 DEF Ends

\* A step that changes one stream.
LEMMA StreamKeeps ==
    ASSUME ServiceInv, NEW s \in Streams, TypeInv', UNCHANGED status,
           \A r \in Streams \ {s} :
               /\ phase'[r] = phase[r] /\ queue'[r] = queue[r] /\ catchup'[r] = catchup[r]
               /\ read'[r] = read[r] /\ (r \in subscribers' <=> r \in subscribers),
           phase'[s] # "none", s \in subscribers' => phase'[s] = "open",
           phase'[s] = "open" => Exact(s)'
    PROVE  ServiceInv'
<1>1. \A j : Ended(j)' = Ended(j)
    BY DEF Ended
<1>2. ASSUME NEW r \in Streams \ {s}, phase'[r] = "open" PROVE Exact(r)'
    BY <1>1, <1>2 DEF ServiceInv, Exact
<1>. QED BY <1>2 DEF ServiceInv, SubscriberInv

LEMMA ConnectKeeps ==
    ASSUME ServiceInv, NEW s \in Streams, Connect(s) PROVE ServiceInv'
<1>1. /\ queue[s] = <<>> /\ read[s] = {} /\ Ended(FilterOf[s])' = Ended(FilterOf[s])
      /\ Ended(FilterOf[s]) \in SUBSET Docs
    BY DEF Connect, ServiceInv, SubscriberInv, Ended, trackerVars
<1>2. /\ TypeInv' /\ phase'[s] = "open" /\ queue'[s] = <<>> /\ read'[s] = {}
      /\ catchup'[s] = Ended(FilterOf[s])
    BY <1>1 DEF Connect, Snapshot, trackerVars, ServiceInv, TypeInv
<1>3. Exact(s)'
    <2>1. DocsIn(<<>>) = {} /\ Distinct(<<>>) /\ Len(<<>>) = 0
        BY DEF DocsIn, Distinct
    <2>. QED BY <1>1, <1>2, <2>1, EventStreamAssumption DEF Exact
<1>. QED BY <1>2, <1>3, StreamKeeps DEF Connect, trackerVars, ServiceInv, TypeInv

LEMMA ReadKeeps ==
    ASSUME ServiceInv, NEW s \in Streams, NEW e \in Events, Read(s, e) PROVE ServiceInv'
<1>1. /\ phase[s] = "open" /\ Exact(s) /\ Lifecycle \notin Docs
      /\ queue[s] \in Seq(Events) /\ catchup[s] \in SUBSET Docs /\ read[s] \in SUBSET Docs
      /\ \A j : Ended(j)' = Ended(j)
    BY EventStreamAssumption DEF Read, ServiceInv, TypeInv, trackerVars, Ended
<1>2. CASE ReadCatchup(s, e)
    <2>1. /\ queue'[s] = queue[s] /\ catchup'[s] = catchup[s] \ {e} /\ e \in catchup[s]
          /\ read'[s] = read[s] \cup {e} /\ phase'[s] = "open" /\ TypeInv'
          /\ (s \in subscribers' <=> s \in subscribers)
        BY <1>1, <1>2 DEF Read, ReadCatchup, trackerVars, ServiceInv, TypeInv
    <2>2. Exact(s)'
        BY <1>1, <2>1 DEF Exact
    <2>. QED BY <1>2, <2>1, <2>2, StreamKeeps DEF Read, ReadCatchup, trackerVars, ServiceInv, TypeInv, SubscriberInv
<1>3. CASE ReadQueue(s, e)
    <2>1. /\ queue'[s] = Tail(queue[s]) /\ catchup'[s] = catchup[s] /\ e = Head(queue[s])
          /\ queue[s] # <<>> /\ read'[s] = read[s] \cup ({e} \cap Docs) /\ phase'[s] = "open"
          /\ (s \in subscribers' <=> s \in subscribers)
        BY <1>1, <1>3 DEF Read, ReadQueue, trackerVars, ServiceInv, TypeInv
    <2>2. /\ Tail(queue[s]) \in Seq(Events) /\ Len(Tail(queue[s])) < Len(queue[s])
          /\ DocsIn(queue[s]) = DocsIn(Tail(queue[s])) \cup ({e} \cap Docs)
          /\ e \in Docs => e \notin DocsIn(Tail(queue[s]))
          /\ Distinct(Tail(queue[s]))
        BY <1>1, <2>1, ReadHead DEF Exact
    <2>3. TypeInv'
        BY <1>3, <2>2 DEF Read, ReadQueue, trackerVars, ServiceInv, TypeInv
    <2>4. Len(Tail(queue[s])) \in Nat /\ Len(queue[s]) \in Nat /\ QueueLimit \in Nat
        BY <1>1, <2>2, EventStreamAssumption
    <2>5. Exact(s)'
        BY <1>1, <2>1, <2>2, <2>4 DEF Exact
    <2>. QED BY <1>3, <2>1, <2>3, <2>5, StreamKeeps
         DEF Read, ReadQueue, trackerVars, ServiceInv, TypeInv, SubscriberInv
<1>. QED BY <1>2, <1>3 DEF Read

LEMMA LeaveKeeps ==
    ASSUME ServiceInv, NEW s \in Streams, Leave(s) PROVE ServiceInv'
<1>1. TypeInv' /\ phase'[s] = "closed" /\ s \notin subscribers'
    BY DEF Leave, trackerVars, ServiceInv, TypeInv
<1>. QED BY <1>1, StreamKeeps DEF Leave, trackerVars, ServiceInv, TypeInv

LEMMA RestartKeeps == ASSUME ServiceInv, Restart PROVE ServiceInv'
<1>1. \A s \in Streams : phase'[s] # "open" /\ (phase'[s] = "none" => phase[s] = "none")
    BY DEF Restart, ServiceInv, TypeInv
<1>2. TypeInv'
    BY DEF Restart, ServiceInv, TypeInv
<1>. QED BY <1>1, <1>2 DEF Restart, ServiceInv, SubscriberInv

LEMMA ServiceKeeps == ASSUME ServiceInv, [ServiceNext]_esVars PROVE ServiceInv'
<1>1. CASE UNCHANGED esVars
    BY <1>1, StatusKeeps DEF esVars, trackerVars, busVars, ServiceInv, TypeInv
<1>2. ASSUME NEW d \in Docs, Register(d) \/ Rollback(d) PROVE ServiceInv'
    BY <1>2, StatusKeeps DEF Register, Rollback, ServiceInv, TypeInv
<1>3. ASSUME NEW d \in Docs, End(d) PROVE ServiceInv'
    <2>1. Ends(d)
        BY <1>3 DEF End, Ends
    <2>. QED BY <2>1, EndsKeep
<1>. QED BY <1>1, <1>2, <1>3, BeginKeeps, ConnectKeeps, ReadKeeps, LeaveKeeps, RestartKeeps DEF ServiceNext

-----------------------------------------------------------------------------

\* Without a gap or a repetition, for any number of streams, jobs and documents
\* and any queue limit: subscribing and taking the snapshot in one step
\* (ingest_job_events), and dropping a subscriber at the first event that does
\* not fit (publish_sync), are enough.
THEOREM StreamsAreExact == ServiceSpec => []StreamIsExact
<1>1. ServiceInv /\ [ServiceNext]_esVars => ServiceInv'
    BY ServiceKeeps
<1>. QED BY <1>1, ServiceInitInv, ExactStreams, PTL DEF ServiceSpec

-----------------------------------------------------------------------------
(* The invariant of the call.                                              *)

UploadStates == {"todo", "posting", "accepted", "refused", "ok", "error", "hung"}

\* A file has an attempt left before it is posted, and has had one after.
TryInv ==
    /\ upload \in [Files -> UploadStates] /\ tries \in [Files -> 0..MaxTries]
    /\ \A f \in Files : IF upload[f] = "todo" THEN tries[f] < MaxTries ELSE tries[f] >= 1

\* What the client has seen to end has ended.
SeenInv == seen \subseteq Docs /\ \A d \in seen : HasEnded(d)

\* A poll asks for documents that nobody else will report meanwhile.
AskedInv == asked \subseteq pending /\ (follower # "asking" => asked = {})

DoneInv ==
    /\ uploadsDone => \A f \in Files : upload[f] \in {"ok", "error"}
    /\ follower = "returned" /\ ~gaveUp /\ ~early => uploadsDone /\ pending = {}

IInv == ServiceInv /\ TryInv /\ SeenInv /\ Accounted /\ AskedInv /\ DoneInv

LEMMA InitInv == Init => IInv
<1>. SUFFICES ASSUME Init PROVE IInv
    OBVIOUS
<1>1. ServiceInv
    BY ServiceInitInv DEF Init
<1>2. Uploaded = {}
    BY DEF Init, Uploaded
<1>3. TryInv
    BY IngestClientAssumption DEF Init, TryInv, UploadStates
<1>. QED BY <1>1, <1>2, <1>3 DEF Init, IInv, SeenInv, Accounted, AskedInv, DoneInv

-----------------------------------------------------------------------------
(* The call and the service.                                               *)

\* A document that is posted is one of the service's.
LEMMA Documents == ASSUME TryInv, NEW f \in Files, upload[f] # "todo" PROVE DocOf(f) \in Docs
BY IngestClientAssumption DEF TryInv, DocOf

LEMMA CallIsService == TryInv /\ [Next]_vars => [ServiceNext]_esVars
<1>. SUFFICES ASSUME TryInv, [Next]_vars PROVE [ServiceNext]_esVars
    OBVIOUS
<1>. USE DEF ServiceNext
<1>1. ASSUME NEW f \in Files, UploadStep(f) PROVE [ServiceNext]_esVars
    <2>1. Accepted(f) \/ RolledBack(f) => DocOf(f) \in Docs
        BY Documents DEF Accepted, RolledBack, Goes
    <2>. QED BY <1>1, <2>1 DEF UploadStep, Post, Accepted, RolledBack, Refused, Answered,
            AnsweredInError, TryAgain, UploadHangs, Unanswered
<1>2. CASE UploadsDone \/ Opens \/ OpenFails \/ Keepalive \/ StreamBreaks \/ FollowerHangs
    BY <1>2, IngestClientAssumption DEF UploadsDone, Opens, OpenFails, Keepalive, StreamBreaks,
       FollowerHangs
<1>3. ASSUME NEW e \in Events, ReadEvent(e) PROVE [ServiceNext]_esVars
    BY <1>3, IngestClientAssumption DEF ReadEvent
<1>4. CASE Ask \/ Told \/ AskFails \/ GiveUp
    BY <1>4 DEF Ask, Told, AskFails, GiveUp
<1>5. ASSUME NEW d \in Docs, AcceptedLate(d) \/ RolledBackLate(d) PROVE [ServiceNext]_esVars
    BY <1>5 DEF AcceptedLate, RolledBackLate
<1>6. CASE ServiceStep
    BY <1>6, IngestClientAssumption DEF ServiceStep
<1>7. CASE UNCHANGED vars
    BY <1>7 DEF vars
<1>. QED BY <1>1, <1>2, <1>3, <1>4, <1>5, <1>6, <1>7 DEF Next

\* The end of a document is final.
LEMMA EndedStays ==
    ASSUME ServiceInv, [ServiceNext]_esVars, NEW d \in Docs, HasEnded(d) PROVE HasEnded(d)'
<1>1. status \in [Docs -> {"absent", "pending", "processing", "ended"}]
    BY DEF ServiceInv, TypeInv
<1>2. ASSUME NEW c \in Docs, Register(c) \/ Rollback(c) \/ Begin(c) \/ End(c)
      PROVE  status'[d] = "ended"
    BY <1>1, <1>2 DEF HasEnded, Register, Rollback, Begin, End
<1>. QED BY <1>2 DEF HasEnded, ServiceNext, esVars, Connect, Leave, Read, Restart, trackerVars

\* An event that the client reads tells the end of a document that has ended.
LEMMA ReadHasEnded ==
    ASSUME ServiceInv', NEW e, Read(TheStream, e), ServiceInv
    PROVE  \A d \in {e} \cap Docs : HasEnded(d)'
<1>1. /\ phase' = phase /\ phase[TheStream] = "open"
      /\ read' = [read EXCEPT ![TheStream] = @ \cup ({e} \cap Docs)]
    BY DEF Read
<1>2. TheStream \in Streams /\ read \in [Streams -> SUBSET Docs]
    BY IngestClientAssumption DEF ServiceInv, TypeInv
<1>3. {e} \cap Docs \subseteq read'[TheStream]
    BY <1>1, <1>2
<1>4. Exact(TheStream)'
    BY <1>1, <1>2 DEF ServiceInv
<1>. QED BY <1>3, <1>4 DEF Exact, Ended, HasEnded

-----------------------------------------------------------------------------
(* The steps of the call.                                                  *)

\* Steps that take the documents D, which have ended, from the pending ones and
\* report them.
Reports(D) ==
    /\ D \subseteq pending /\ pending' = pending \ D
    /\ \A d \in Docs : reports'[d] = IF d \in D THEN reports[d] + 1 ELSE reports[d]
    /\ \A d \in D : HasEnded(d)'

LEMMA Uploads == TryInv => Uploaded \subseteq Docs
BY Documents DEF Uploaded

LEMMA ReportsKeep ==
    ASSUME IInv, [ServiceNext]_esVars, NEW D, Reports(D), UNCHANGED <<upload, tries>>
    PROVE  Accounted'
<1>1. Uploaded' = Uploaded /\ Uploaded \subseteq Docs
    BY Uploads DEF Uploaded, DocOf, IInv
<1>2. \A d \in Docs : HasEnded(d) => HasEnded(d)'
    BY EndedStays DEF IInv
<1>3. \A d \in Docs : reports'[d] = IF d \in Uploaded \ pending' THEN 1 ELSE 0
    BY DEF IInv, Accounted, Reports
<1>. QED BY <1>1, <1>2, <1>3 DEF IInv, Accounted, Reports

LEMMA NothingReported ==
    ASSUME IInv, [ServiceNext]_esVars, UNCHANGED <<pending, reports>>, Uploaded' = Uploaded
    PROVE  Accounted'
<1>1. \A d \in Docs : HasEnded(d) => HasEnded(d)'
    BY EndedStays DEF IInv
<1>. QED BY <1>1, Uploads DEF IInv, Accounted

\* An upload of file f that moves on, but not to "ok".
LEMMA SameUploads ==
    ASSUME TryInv, NEW f \in Files, upload[f] # "ok", NEW s, s # "ok",
           upload' = [upload EXCEPT ![f] = s],
           \A g \in Files \ {f} : tries'[g] = tries[g]
    PROVE  Uploaded' = Uploaded
<1>1. \A g \in Files : upload'[g] = IF g = f THEN s ELSE upload[g]
    BY DEF TryInv
<1>2. {g \in Files : upload'[g] = "ok"} = {g \in Files : upload[g] = "ok"}
    BY <1>1
<1>3. \A g \in {h \in Files : upload[h] = "ok"} : tries'[g] = tries[g]
    OBVIOUS
<1>. QED BY <1>2, <1>3 DEF Uploaded, DocOf

ClientVars == <<upload, tries, pending, uploadsDone, follower, seen, asked, reports, gaveUp, early>>

LEMMA QuietKeeps ==
    ASSUME IInv, [ServiceNext]_esVars, UNCHANGED ClientVars PROVE IInv'
<1>1. Uploaded' = Uploaded
    BY DEF ClientVars, Uploaded, DocOf
<1>2. Accounted'
    BY <1>1, NothingReported DEF ClientVars
<1>3. SeenInv'
    BY EndedStays DEF ClientVars, IInv, SeenInv
<1>4. TryInv' /\ AskedInv' /\ DoneInv'
    BY DEF ClientVars, IInv, TryInv, AskedInv, DoneInv
<1>. QED BY <1>2, <1>3, <1>4, ServiceKeeps DEF IInv

\* What remains to be shown of a step that leaves the follower alone.
LEMMA UploadKeeps ==
    ASSUME IInv, NEW f \in Files, UploadStep(f), [ServiceNext]_esVars PROVE IInv'
<1>0. TryInv /\ SeenInv /\ Accounted /\ AskedInv /\ DoneInv /\ UNCHANGED <<followVars, uploadsDone>>
    BY DEF IInv, UploadStep, Post, Accepted, RolledBack, Refused, Answered, AnsweredInError,
       TryAgain, UploadHangs, Unanswered
<1>1. SeenInv'
    BY <1>0, EndedStays DEF IInv, SeenInv, followVars
<1>2. upload[f] \notin {"ok", "error"} /\ ~uploadsDone
    BY <1>0 DEF DoneInv, UploadStep, Post, Accepted, RolledBack, Refused, Answered, AnsweredInError,
       TryAgain, UploadHangs, Unanswered, Goes
<1>3. PICK s \in UploadStates :
        /\ upload' = [upload EXCEPT ![f] = s]
        /\ s = "ok" => Answered(f)
        /\ \/ UNCHANGED tries /\ upload[f] # "todo" /\ (s = "todo" => tries[f] # MaxTries)
           \/ s = "posting" /\ upload[f] = "todo" /\ tries' = [tries EXCEPT ![f] = tries[f] + 1]
        /\ s # "ok" => UNCHANGED pending
    BY DEF UploadStep, Post, Accepted, RolledBack, Refused, Answered, AnsweredInError,
       TryAgain, UploadHangs, Unanswered, Goes, LastTry, UploadStates
<1>4. TryInv'
    BY <1>0, <1>3, IngestClientAssumption DEF TryInv
<1>5. Accounted'
    <2>1. CASE s = "ok"
        <3>1. /\ upload[f] = "accepted" /\ pending' = pending \cup {DocOf(f)} /\ UNCHANGED tries
              /\ DocOf(f) \in Docs
            BY <1>0, <1>3, <2>1, Documents DEF Answered, Goes
        <3>2. \A g \in Files : upload'[g] = "ok" <=> g = f \/ upload[g] = "ok"
            BY <1>0, <1>3, <2>1 DEF TryInv
        <3>3. Uploaded' = Uploaded \cup {DocOf(f)}
            BY <3>1, <3>2 DEF Uploaded, DocOf
        <3>4. DocOf(f) \notin Uploaded
            BY <1>2 DEF Uploaded, DocOf
        <3>5. Uploaded' \ pending' = Uploaded \ pending
            BY <1>0, <3>1, <3>3, <3>4 DEF Accounted
        <3>6. \A d \in Uploaded \ pending : HasEnded(d)'
            BY <1>0, EndedStays, Uploads DEF IInv, Accounted
        <3>. QED BY <1>0, <3>1, <3>3, <3>5, <3>6 DEF Accounted, followVars
    <2>2. CASE s # "ok"
        <3>1. Uploaded' = Uploaded
            <4>1. \A g \in Files \ {f} : tries'[g] = tries[g]
                BY <1>0, <1>3 DEF TryInv
            <4>. QED BY <1>0, <1>2, <1>3, <2>2, <4>1, SameUploads
        <3>. QED BY <1>0, <1>3, <2>2, <3>1, NothingReported DEF followVars
    <2>. QED BY <2>1, <2>2
<1>6. AskedInv' /\ DoneInv'
    <2>1. pending \subseteq pending'
        BY <1>3 DEF Answered
    <2>. QED BY <1>0, <1>2, <2>1 DEF AskedInv, DoneInv, followVars
<1>. QED BY <1>1, <1>4, <1>5, <1>6, ServiceKeeps DEF IInv

\* What the follower does: it reports some of the pending documents, and
\* returns with none left unless it has given up or is early.
FollowStep(D, S) ==
    /\ UNCHANGED <<upload, tries, uploadsDone>> /\ Reports(D)
    /\ seen' \subseteq seen \cup S /\ S \subseteq Docs /\ \A d \in S : HasEnded(d)'
    /\ asked' \subseteq pending' /\ (follower' # "asking" => asked' = {})
    /\ follower' = "returned" /\ ~gaveUp' /\ ~early' => uploadsDone /\ pending' = {}

LEMMA FollowKeeps ==
    ASSUME IInv, [ServiceNext]_esVars, NEW D, NEW S, FollowStep(D, S) PROVE IInv'
<1>1. Accounted'
    BY ReportsKeep DEF FollowStep
<1>2. SeenInv'
    BY EndedStays DEF FollowStep, IInv, SeenInv
<1>3. TryInv' /\ AskedInv' /\ DoneInv'
    BY DEF FollowStep, IInv, TryInv, AskedInv, DoneInv
<1>. QED BY <1>1, <1>2, <1>3, ServiceKeeps DEF IInv

LEMMA OpensKeeps == ASSUME IInv, [ServiceNext]_esVars, Opens \/ OpenFails \/ FollowerHangs PROVE IInv'
<1>1. FollowStep({}, {})
    BY DEF Opens, OpenFails, FollowerHangs, AfterStream, FollowStep, Reports, IInv, AskedInv, uploadVars
<1>. QED BY <1>1, FollowKeeps

LEMMA ReadEventKeeps ==
    ASSUME IInv, [ServiceNext]_esVars, NEW e \in Events, ReadEvent(e) PROVE IInv'
<1>. DEFINE S == {e} \cap Docs
            rest == pending \ S
            late == IF uploadsDone THEN Late(rest, seen \cup S) ELSE {}
            D == (pending \cap S) \cup late
<1>1. \A d \in S \cup seen : d \in Docs /\ HasEnded(d)'
    <2>1. \A d \in S : HasEnded(d)'
        BY ServiceKeeps, ReadHasEnded DEF ReadEvent, IInv
    <2>. QED BY <2>1, EndedStays DEF IInv, SeenInv
<1>2. D \subseteq pending /\ D \subseteq S \cup seen /\ pending' = pending \ D
    BY DEF ReadEvent, Late
<1>3. Reports(D)
    BY <1>1, <1>2 DEF ReadEvent, Report, Reports
<1>4. /\ asked' = {} /\ (follower' = "returned" => uploadsDone /\ pending' = {})
      /\ UNCHANGED <<upload, tries, uploadsDone>> /\ seen' = seen \cup S
    BY DEF ReadEvent, IInv, AskedInv, AfterStream, uploadVars
<1>5. FollowStep(D, S)
    <2>1. S \subseteq Docs /\ \A d \in S : HasEnded(d)'
        BY <1>1
    <2>2. follower' = "returned" => uploadsDone /\ pending' = {}
        BY <1>4
    <2>. HIDE DEF D, S
    <2>. QED BY <1>3, <1>4, <2>1, <2>2 DEF FollowStep
<1>. QED BY <1>5, FollowKeeps

LEMMA KeepaliveKeeps == ASSUME IInv, [ServiceNext]_esVars, Keepalive \/ StreamBreaks PROVE IInv'
<1>1. CASE Keepalive
    <2>. DEFINE D == Late(pending, seen)
    <2>1. D \subseteq pending /\ \A d \in D : HasEnded(d)'
        BY EndedStays DEF Late, IInv, SeenInv
    <2>2. FollowStep(D, {})
        BY <1>1, <2>1 DEF Keepalive, KeepaliveEnds, Report, AfterStream, FollowStep, Reports, IInv, AskedInv,
           uploadVars
    <2>. QED BY <2>2, FollowKeeps
<1>2. CASE StreamBreaks
    <2>1. FollowStep({}, {})
        BY <1>2 DEF StreamBreaks, AfterStream, FollowStep, Reports, IInv, AskedInv, uploadVars
    <2>. QED BY <2>1, FollowKeeps
<1>. QED BY <1>1, <1>2

LEMMA PollKeeps == ASSUME IInv, [ServiceNext]_esVars, Ask \/ Told \/ AskFails \/ GiveUp PROVE IInv'
<1>1. CASE Told
    <2>. DEFINE D == Resolved(asked)
    <2>1. D \subseteq pending /\ UNCHANGED status /\ \A d \in D : HasEnded(d)'
        BY <1>1 DEF Told, Resolved, IInv, AskedInv, esVars, trackerVars, HasEnded
    <2>2. FollowStep(D, {})
        BY <1>1, <2>1 DEF Told, Report, FollowStep, Reports, uploadVars
    <2>. QED BY <2>2, FollowKeeps
<1>2. CASE Ask \/ AskFails \/ GiveUp
    <2>1. FollowStep({}, {})
        BY <1>2 DEF Ask, AskFails, GiveUp, FollowStep, Reports, IInv, AskedInv, uploadVars
    <2>. QED BY <2>1, FollowKeeps
<1>. QED BY <1>1, <1>2

LEMMA UploadsDoneKeeps == ASSUME IInv, [ServiceNext]_esVars, UploadsDone PROVE IInv'
<1>1. Accounted'
    <2>1. Uploaded' = Uploaded
        BY DEF UploadsDone, Uploaded, DocOf
    <2>. QED BY <2>1, NothingReported DEF UploadsDone, followVars
<1>2. SeenInv'
    BY EndedStays DEF UploadsDone, followVars, IInv, SeenInv
<1>3. TryInv' /\ AskedInv' /\ DoneInv'
    BY DEF UploadsDone, followVars, IInv, TryInv, AskedInv, DoneInv
<1>. QED BY <1>1, <1>2, <1>3, ServiceKeeps DEF IInv

LEMMA StepKeeps == IInv /\ [Next]_vars => IInv'
<1>. SUFFICES ASSUME IInv, [Next]_vars PROVE IInv'
    OBVIOUS
<1>1. [ServiceNext]_esVars
    BY CallIsService DEF IInv
<1>2. ASSUME UNCHANGED ClientVars PROVE IInv'
    BY <1>1, <1>2, QuietKeeps
<1>3. ASSUME NEW d \in Docs, AcceptedLate(d) \/ RolledBackLate(d) PROVE IInv'
    BY <1>2, <1>3 DEF AcceptedLate, RolledBackLate, ClientVars, uploadVars, followVars
<1>4. CASE ServiceStep \/ UNCHANGED vars
    BY <1>2, <1>4 DEF ServiceStep, vars, ClientVars, uploadVars, followVars
<1>. QED BY <1>1, <1>3, <1>4, UploadKeeps, UploadsDoneKeeps, OpensKeeps, KeepaliveKeeps, ReadEventKeeps,
            PollKeeps DEF Next

LEMMA Invariance == Spec => []IInv
BY InitInv, StepKeeps, PTL DEF Spec

-----------------------------------------------------------------------------

\* Whatever comes first, the answer to an upload, its event, a keepalive or a
\* poll, an uploaded document is awaited or reported, and once
\* (_upload_one, _consume_sse, _reconcile, _bulk_poll_fallback).
THEOREM EveryUploadAccounted == Spec => []Accounted
<1>1. IInv => Accounted
    BY DEF IInv
<1>. QED BY <1>1, Invariance, PTL

\* The call, whatever it does, is one of the behaviours of the service: it
\* registers no document that the service would refuse, and its one connection is
\* a stream like any other (ingest_documents).
THEOREM CallImplementsService == Spec => ServiceSpec
<1>1. Init => ServiceInit
    BY DEF Init
<1>2. IInv /\ [Next]_vars => [ServiceNext]_esVars
    BY CallIsService DEF IInv
<1>. QED BY <1>1, <1>2, Invariance, PTL DEF Spec, ServiceSpec

\* The client's stream has no gap and no repetition (ingest_job_events).
THEOREM ClientStreamIsExact == Spec => []StreamIsExact
BY CallImplementsService, StreamsAreExact, PTL

\* A call that returns in time and after its uploads has reported all of them
\* (client.py, _consume_sse).
THEOREM DoneIsReported == Spec => []DoneMeansReported
<1>1. IInv => DoneMeansReported
    BY DEF IInv, DoneInv, DoneMeansReported
<1>. QED BY <1>1, Invariance, PTL
=============================================================================
