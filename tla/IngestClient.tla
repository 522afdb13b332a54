---------------------------- MODULE IngestClient ----------------------------
(***************************************************************************)
(* One call of ingest_documents or aingest_documents_stream                *)
(* (service/client.py) against the service: the job it has created, its    *)
(* uploads with retries, and the task that follows the job's event stream  *)
(* and falls back to polling.                                              *)
(*                                                                         *)
(* The module adds the call to the service of EventStream, which here has  *)
(* one job and one stream.  Every attempt to upload a file draws a new     *)
(* document, named by the file and the number of the attempt; these calls  *)
(* send no manifest entry, so the service cannot tell a retry from another *)
(* file.                                                                   *)
(*                                                                         *)
(* Both limits on the attempts (_MAX_UPLOAD_RETRIES, and five transport    *)
(* failures) are MaxTries.                                                 *)
(***************************************************************************)
EXTENDS EventStream

CONSTANTS
    Files,             (* what the call was given                            *)
    MaxTries,          (* attempts to upload a file                          *)
    TheJob, TheStream  (* the job it has created and the stream it follows   *)

ASSUME IngestClientAssumption ==
    /\ IsFiniteSet(Files) /\ Files # {} /\ MaxTries \in Nat \ {0}
    /\ Jobs = {TheJob} /\ Streams = {TheStream} /\ Docs = Files \X (1..MaxTries)
    /\ Expected[TheJob] = Cardinality(Files)

VARIABLES
    upload,        (* [Files -> state]: the tasks of _upload_all             *)
    tries,         (* [Files -> Nat]: attempts so far                        *)
    stray,         (* documents whose request the client has given up        *)
    pending,       (* pending: the documents that the follower awaits        *)
    uploadsDone,   (* uploads_done                                           *)
    follower,      (* where _consume_sse stands: connecting, streaming,      *)
                   (* polling (at the head of the loop), asking (a poll is   *)
                   (* under way), returned, or hung on a silent connection   *)
    seen,          (* seen_terminal                                          *)
    asked,         (* the ids of the poll under way                          *)
    reports,       (* [Docs -> Nat]: entries of tracker.results              *)
    gaveUp,        (* history: the poll ended with documents left            *)
    early          (* history: the follower returned before uploadsDone      *)

uploadVars == <<upload, tries, stray, uploadsDone>>
followVars == <<follower, seen, asked, reports, gaveUp, early>>
vars == <<esVars, uploadVars, followVars, pending>>

\* The states of an upload are "todo"; "posting", the request is under way;
\* "accepted" and "refused", its answer is; "ok" and "error"; "hung", the answer
\* never comes.

DocOf(f) == <<f, tries[f]>>
HasEnded(d) == status[d] = "ended"

Init ==
    /\ ServiceInit
    /\ upload = [f \in Files |-> "todo"] /\ tries = [f \in Files |-> 0]
    /\ stray = {} /\ pending = {} /\ uploadsDone = FALSE
    /\ follower = "connecting" /\ seen = {} /\ asked = {}
    /\ reports = [d \in Docs |-> 0]
    /\ gaveUp = FALSE /\ early = FALSE

-----------------------------------------------------------------------------
(* _upload_one: the requests of each file.                                 *)

Goes(f, from, to) == upload[f] = from /\ upload' = [upload EXCEPT ![f] = to]

Post(f) ==
    /\ Goes(f, "todo", "posting")
    /\ tries' = [tries EXCEPT ![f] = @ + 1]
    /\ UNCHANGED <<esVars, stray, uploadsDone, pending, followVars>>

Accepted(f) ==
    /\ Goes(f, "posting", "accepted")
    /\ Register(DocOf(f))
    /\ UNCHANGED <<tries, stray, uploadsDone, pending, followVars>>

\* The broker refuses the document, which is rolled back; nobody has begun it.
RolledBack(f) ==
    /\ Goes(f, "accepted", "refused")
    /\ Rollback(DocOf(f))
    /\ UNCHANGED <<tries, stray, uploadsDone, pending, followVars>>

\* The request is turned away before it registers a document: the server is
\* busy (429), the job is full, ended or unknown (409, 404), or an error.
Refused(f) ==
    /\ Goes(f, "posting", "refused")
    /\ UNCHANGED <<esVars, tries, stray, uploadsDone, pending, followVars>>

Answered(f) ==
    /\ Goes(f, "accepted", "ok")
    /\ pending' = pending \cup {DocOf(f)}
    /\ UNCHANGED <<esVars, tries, stray, uploadsDone, followVars>>

\* An error status other than 429, or a malformed answer, is final.
AnsweredInError(f) ==
    /\ \E was \in {"accepted", "refused"} : Goes(f, was, "error")
    /\ UNCHANGED <<esVars, tries, stray, uploadsDone, pending, followVars>>

LastTry(f) == tries[f] = MaxTries

\* The exchange ends without its answer; the service may still take the request.
Unanswered(f, to) ==
    /\ upload[f] \in {"posting", "accepted", "refused"}
    /\ upload' = [upload EXCEPT ![f] = to]
    /\ stray' = IF upload[f] = "posting" THEN stray \cup {DocOf(f)} ELSE stray
    /\ UNCHANGED <<esVars, tries, uploadsDone, pending, followVars>>

\* A 429, or a transport failure at any point of the exchange.
TryAgain(f) == Unanswered(f, IF LastTry(f) THEN "error" ELSE "todo")

\* The client has no read timeout: a connection that falls silent is read from
\* for ever.
UploadHangs(f) == Unanswered(f, "hung")

\* The service finishes a request whose client has gone, one way or the other.
AcceptedLate(d) ==
    /\ d \in stray /\ stray' = stray \ {d}
    /\ Register(d)
    /\ UNCHANGED <<upload, tries, uploadsDone, pending, followVars>>

RolledBackLate(d) ==
    /\ \A f \in Files : d = DocOf(f) => upload[f] \in {"todo", "error", "hung"}
    /\ Rollback(d)
    /\ UNCHANGED <<uploadVars, pending, followVars>>

UploadsDone ==
    /\ ~uploadsDone /\ \A f \in Files : upload[f] \in {"ok", "error"}
    /\ uploadsDone' = TRUE
    /\ UNCHANGED <<esVars, upload, tries, stray, pending, followVars>>

-----------------------------------------------------------------------------
(* _consume_sse.                                                           *)

Report(D) == reports' = [d \in Docs |-> IF d \in D THEN reports[d] + 1 ELSE reports[d]]

\* The stream is over while the documents P are pending.
AfterStream_MutantNoPoll(P) ==
    /\ follower' = "returned"
    /\ early' = ~uploadsDone

AfterStream(P) ==
    /\ follower' = IF P = {} THEN "returned" ELSE "polling"
    /\ early' = (P = {} /\ ~uploadsDone)

\* _reconcile: the documents among P whose end was seen before their answer.
Late(P, S) == P \cap S

Opens ==
    /\ follower = "connecting"
    /\ Connect(TheStream)
    /\ follower' = "streaming"
    /\ UNCHANGED <<uploadVars, pending, seen, asked, reports, gaveUp, early>>

\* The connection fails, or answers with another status than 200.
OpenFails ==
    /\ follower = "connecting"
    /\ AfterStream(pending)
    /\ UNCHANGED <<esVars, uploadVars, pending, seen, asked, reports, gaveUp>>

\* An event: the document's end is noted, and reported if it is awaited; once
\* the uploads are done every seen end is, and the stream left when none is
\* missing.
ReadEvent(e) ==
    LET D == {e} \cap Docs
        rest == pending \ D
        late == IF uploadsDone THEN Late(rest, seen \cup D) ELSE {}
        left == rest \ late
    IN /\ follower = "streaming"
       /\ Read(TheStream, e)
       /\ seen' = seen \cup D
       /\ pending' = left
       /\ Report((pending \cap D) \cup late)
       /\ IF uploadsDone /\ left = {} THEN AfterStream(left) ELSE UNCHANGED <<follower, early>>
       /\ UNCHANGED <<uploadVars, asked, gaveUp>>

\* A keepalive: once the uploads are done it ends the stream.
KeepaliveEnds_MutantWaits == uploadsDone /\ pending \subseteq seen
KeepaliveEnds == uploadsDone

Keepalive ==
    LET late == Late(pending, seen)
    IN /\ follower = "streaming" /\ Silent(TheStream) /\ KeepaliveEnds
       /\ pending' = pending \ late
       /\ Report(late)
       /\ AfterStream(pending \ late)
       /\ Leave(TheStream)
       /\ UNCHANGED <<uploadVars, seen, asked, gaveUp>>

\* The connection breaks, from either side.
StreamBreaks ==
    /\ follower = "streaming"
    /\ Leave(TheStream) \/ (phase[TheStream] = "closed" /\ UNCHANGED esVars)
    /\ AfterStream(pending)
    /\ UNCHANGED <<uploadVars, pending, seen, asked, reports, gaveUp>>

\* The stream, or the poll below, falls silent: no read timeout here either.
FollowerHangs ==
    /\ follower \in {"connecting", "streaming", "asking"}
    /\ follower' = "hung" /\ asked' = {}
    /\ UNCHANGED <<esVars, uploadVars, pending, seen, reports, gaveUp, early>>

-----------------------------------------------------------------------------
(* _bulk_poll_fallback.                                                    *)

Ask ==
    /\ follower = "polling"
    /\ follower' = "asking" /\ asked' = pending
    /\ UNCHANGED <<esVars, uploadVars, pending, seen, reports, gaveUp, early>>

Resolved_MutantUnknown(D) == {d \in D : TheJob \in known => HasEnded(d)}
Resolved(D) == IF TheJob \in known THEN {d \in D : HasEnded(d)} ELSE {}

Told ==
    LET D == Resolved(asked)
    IN /\ follower = "asking"
       /\ pending' = pending \ D
       /\ Report(D)
       /\ follower' = IF pending' = {} THEN "returned" ELSE "polling"
       /\ early' = (pending' = {} /\ ~uploadsDone)
       /\ asked' = {}
       /\ UNCHANGED <<esVars, uploadVars, seen, gaveUp>>

AskFails ==
    /\ follower = "asking"
    /\ follower' = "polling" /\ asked' = {}
    /\ UNCHANGED <<esVars, uploadVars, pending, seen, reports, gaveUp, early>>

\* Ten errors in a row, or _BULK_POLL_TIMEOUT_S: both are looked at between two
\* polls, never while one is under way.
GiveUp ==
    /\ follower = "polling" /\ pending # {}
    /\ follower' = "returned"
    /\ gaveUp' = TRUE /\ early' = ~uploadsDone
    /\ UNCHANGED <<esVars, uploadVars, pending, seen, asked, reports>>

-----------------------------------------------------------------------------

\* Documents are processed, the service notices that its reader has left, and
\* it may restart.
ServiceStep ==
    /\ \/ \E d \in Docs : Begin(d) \/ End(d)
       \/ follower \notin {"connecting", "streaming"} /\ Leave(TheStream)
       \/ Restart
    /\ UNCHANGED <<uploadVars, followVars, pending>>

UploadStep(f) ==
    \/ Post(f) \/ Accepted(f) \/ RolledBack(f) \/ Refused(f)
    \/ Answered(f) \/ AnsweredInError(f) \/ TryAgain(f) \/ UploadHangs(f)

Next ==
    \/ \E f \in Files : UploadStep(f)
    \/ UploadsDone
    \/ Opens \/ OpenFails \/ Keepalive \/ StreamBreaks \/ FollowerHangs
    \/ \E e \in Events : ReadEvent(e)
    \/ Ask \/ Told \/ AskFails \/ GiveUp
    \/ \E d \in Docs : AcceptedLate(d) \/ RolledBackLate(d)
    \/ ServiceStep

Spec == Init /\ [][Next]_vars

\* What the follower's task does once its connection has spoken.
FollowerGoesOn ==
    \/ Opens \/ OpenFails \/ Keepalive \/ (phase[TheStream] = "closed" /\ StreamBreaks)
    \/ \E e \in Events : ReadEvent(e)
    \/ Ask \/ Told \/ AskFails

\* The event loop runs both tasks: as long as a connection does not hang, its
\* requests are answered or fail and its stream brings events and keepalives.  A
\* poll takes its time, so that a loop that is for ever back at its head is past
\* its deadline there.
Fairness ==
    /\ \A f \in Files : WF_vars(UploadStep(f))
    /\ WF_vars(UploadsDone)
    /\ WF_vars(FollowerGoesOn) /\ SF_vars(GiveUp)

FairSpec == Spec /\ Fairness

-----------------------------------------------------------------------------

Uploaded == {DocOf(f) : f \in {g \in Files : upload[g] = "ok"}}

\* Whatever comes first, the answer to an upload, the document's event, a
\* keepalive or a poll: an uploaded document is awaited or reported, never both
\* and never twice, nothing else is reported, and only what has ended is.
Accounted ==
    /\ pending \subseteq Uploaded
    /\ \A d \in Docs :
         reports[d] = IF d \in Uploaded \ pending THEN 1 ELSE 0
    /\ \A d \in Uploaded \ pending : HasEnded(d)

\* The call returns with every uploaded document reported, unless the poll ran
\* out of time or the follower had returned before the uploads were done.
DoneMeansReported ==
    follower = "returned" /\ uploadsDone /\ ~gaveUp /\ ~early => pending = {}

\* "Upload documents and wait for all to complete" (client.py:1116).
WaitsForAll == follower = "returned" /\ uploadsDone /\ ~gaveUp => pending = {}

\* A call that does not return waits for a connection that never speaks again,
\* of an upload, the stream or a poll; nothing else can hold it: not a missed
\* event, a dropped stream, a lost answer, nor a service that has forgotten the
\* job or never ends a document.
Hung == follower = "hung" \/ \E f \in Files : upload[f] = "hung"
Returns == <>(Hung \/ (follower = "returned" /\ uploadsDone))
=============================================================================
