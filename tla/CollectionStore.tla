-------------------------- MODULE CollectionStore --------------------------
(***************************************************************************)
(* One collection of the vector database                                   *)
(* (common/vdb/lancedb_collections.py, LanceDBCollectionStore): a row in   *)
(* the catalog of collections, a row per document in the catalog of        *)
(* documents, and the physical table with the chunks.  Each is durable;    *)
(* nothing spans two of them.  Calls run in threads, the reconciler in     *)
(* another, and every durable write is a step of its own, so that a call   *)
(* can fail and the process can crash between any two of them.             *)
(*                                                                         *)
(* The table's name is a hash of the collection's, so a collection that is *)
(* created again meets the table of the one before.  A version stands for  *)
(* the content of a document: its chunk ids derive from it.                *)
(***************************************************************************)
EXTENDS Naturals, FiniteSets

CONSTANTS
    Clients,        (* the threads that serve requests                         *)
    Reconciler,     (* the thread of vectordb_app's reconciliation_loop        *)
    Docs, Versions,
    NoRow, NoTable, Nobody, None, Gone,
    MaxCalls,       (* bound: requests                                         *)
    MaxFaults       (* bound: exceptions and crashes                           *)

ASSUME CollectionStoreAssumption ==
    /\ Reconciler \notin Clients /\ Nobody \notin Clients \cup {Reconciler}
    /\ None \notin Versions /\ Gone \notin Versions \cup {None}
    /\ NoRow \notin [status: {"active", "deleting"}, phase: {"", "drop_table", "delete_catalog"},
                     expired: BOOLEAN, made: Nat]
    /\ NoRow \notin [cur: Versions \cup {None}, pend: Versions \cup {None},
                     rec: {"", "appending", "replacing", "refreshing_collection_activity", "deleting_chunks"}]
    /\ NoTable \notin [Docs -> SUBSET Versions]
    /\ MaxCalls \in Nat /\ MaxFaults \in Nat

VARIABLES
    coll,     (* the row of _COLLECTIONS_TABLE                                 *)
    docs,     (* [Docs -> row of _DOCUMENTS_TABLE]                             *)
    table,    (* the physical table: [Docs -> versions of its chunks]          *)
    lock,     (* who holds _write_lock                                         *)
    pc, arg,  (* where each thread is, and the locals it carries there         *)
    calls, faults,
    may,      (* history: what each document may be, by the calls made so far  *)
    tangled,  (* history: documents whose recovery marker another call has     *)
              (* overwritten or removed while it was still needed              *)
    stale     (* history: a cleanup dropped the table of a later collection    *)

durable == <<coll, docs, table>>
history == <<may, tangled, stale>>
vars == <<durable, lock, pc, arg, calls, faults, history>>

Threads == Clients \cup {Reconciler}
Refreshing == "refreshing_collection_activity"

\* The calls between _acquire_table_user_locked and _release_table_user.
Users_MutantUntilWritten == {p \in Clients : pc[p] \in {"read", "io"}}
Users == {p \in Clients : pc[p] \in {"read", "io", "commit", "refresh", "settle"}}
Writing == {p \in Clients : pc[p] \in {"io", "commit", "refresh", "settle"}}
Open == coll # NoRow /\ coll.status = "active" /\ ~coll.expired
NoChunks == [d \in Docs |-> {}]
Chunks(d) == IF table = NoTable THEN {} ELSE table[d]

Rec(d) == IF docs[d] = NoRow THEN "" ELSE docs[d].rec

\* _is_uncommitted_initial_append
Uncommitted(row) == row # NoRow /\ row.rec = "appending" /\ row.cur = None

Init ==
    /\ coll = NoRow /\ docs = [d \in Docs |-> NoRow] /\ table = NoTable
    /\ lock = Nobody
    /\ pc = [p \in Threads |-> "idle"] /\ arg = [p \in Threads |-> None]
    /\ calls = 0 /\ faults = 0
    /\ may = [d \in Docs |-> {Gone}] /\ tangled = {} /\ stale = FALSE

-----------------------------------------------------------------------------
(* Threads and the lock.  X_Mutant... are wrong versions of X that the      *)
(* model never uses; they stand for mistakes the properties must notice.    *)

Call(p) == pc[p] = "idle" /\ p \in Clients /\ calls < MaxCalls /\ calls' = calls + 1
Free == lock = Nobody
At(p, s) == pc' = [pc EXCEPT ![p] = s]
With(p, a) == arg' = [arg EXCEPT ![p] = a]
Done(p) == At(p, "idle") /\ With(p, None) /\ lock' = Nobody

\* _wait_for_table_users_locked: a thread that must wait gives the lock up and
\* takes it again when the last user has gone.
MayMutate_MutantAtOnce == TRUE
MayMutate == Users = {}
Waiting(p) == lock' = IF MayMutate THEN p ELSE Nobody
Proceeds(p) == lock \in {Nobody, p} /\ MayMutate

PendingDeletion(d) == \E p \in Clients : pc[p] \in {"chunks", "row"} /\ arg[p].doc = d
WritersOf(d) == {w \in Writing : arg[w].doc = d}
PendingCleanup == \E p \in Clients : pc[p] \in {"drop", "dropped", "catalog", "last"}

-----------------------------------------------------------------------------
(* Collections.                                                             *)

CreateCollection(p) ==
    /\ Call(p) /\ Free
    /\ coll = NoRow
    /\ coll' = [status |-> "active", phase |-> "", expired |-> FALSE, made |-> calls]
    /\ UNCHANGED <<docs, table, lock, pc, arg, faults, history>>

\* The collection's expires_at passes.
Expire ==
    /\ coll # NoRow /\ coll.status = "active" /\ ~coll.expired
    /\ coll' = [coll EXCEPT !.expired = TRUE]
    /\ UNCHANGED <<docs, table, lock, pc, arg, calls, faults, history>>

Marked == IF coll.status = "deleting" THEN coll
          ELSE [coll EXCEPT !.status = "deleting", !.phase = "drop_table"]

\* The entry of _cleanup_collection_locked, with the row the caller has read.
Cleanup(p) ==
    /\ coll' = Marked /\ With(p, [coll |-> Marked])
    /\ IF Marked.phase = "drop_table"
       THEN At(p, "drop") /\ Waiting(p)
       ELSE At(p, "catalog") /\ lock' = p
    /\ may' = [d \in Docs |-> may[d] \cup {Gone}]
    /\ UNCHANGED <<docs, table, faults, tangled, stale>>

DeleteCollection(p) == Call(p) /\ Free /\ coll # NoRow /\ Cleanup(p)

RetireCollection ==
    /\ pc[Reconciler] = "idle" /\ Free
    /\ coll # NoRow /\ (coll.status = "deleting" \/ coll.expired)
    /\ Cleanup(Reconciler)
    /\ UNCHANGED calls

\* After the wait the row is not read again.
DropTable(p) ==
    /\ pc[p] = "drop" /\ Proceeds(p)
    /\ lock' = p /\ At(p, "dropped")
    /\ table' = NoTable
    /\ stale' = (stale \/ (coll # NoRow /\ coll.made # arg[p].coll.made))
    /\ UNCHANGED <<coll, docs, arg, calls, faults, may, tangled>>

Emptied(row) == [row EXCEPT !.phase = "delete_catalog"]

RecordDrop(p) ==
    /\ pc[p] = "dropped"
    /\ coll' = Emptied(arg[p].coll) /\ At(p, "catalog")
    /\ UNCHANGED <<docs, table, lock, arg, calls, faults, history>>

DeleteDocumentRows(p) ==
    /\ pc[p] = "catalog"
    /\ docs' = [d \in Docs |-> NoRow] /\ At(p, "last")
    /\ tangled' = {}
    /\ UNCHANGED <<coll, table, lock, arg, calls, faults, may, stale>>

DeleteCollectionRow(p) ==
    /\ pc[p] = "last"
    /\ coll' = NoRow /\ Done(p)
    /\ may' = [d \in Docs |-> {Gone}]
    /\ UNCHANGED <<docs, table, calls, faults, tangled, stale>>

Fault == faults < MaxFaults /\ faults' = faults + 1

\* An exception on the way: _schedule_collection_retry stores the row with the
\* phase reached, unless it fails as well.
CleanupFails(p) ==
    /\ \/ pc[p] = "drop" /\ Proceeds(p)
       \/ pc[p] \in {"dropped", "catalog", "last"}
    /\ Fault /\ Done(p)
    /\ coll' \in {coll, IF pc[p] = "drop" THEN arg[p].coll ELSE Emptied(arg[p].coll)}
    /\ UNCHANGED <<docs, table, calls, history>>

-----------------------------------------------------------------------------
(* Writes: a marker, the chunks, the document's row, the collection's       *)
(* activity, the end of the recovery state.                                 *)

Known(row) == {row.cur, row.pend} \ {None}

\* A replacement asks only for the row; an append may only repeat itself.
Accepts(row, op, v) ==
    IF op = "replace" THEN row # NoRow
    ELSE row # NoRow => row.rec \in {"", "appending"} /\ Known(row) = {v}

Marker(row, op, v) ==
    [cur |-> IF row = NoRow THEN None ELSE row.cur, pend |-> v,
     rec |-> IF op = "append" THEN "appending" ELSE "replacing"]

BeginWrite(p, d, op, v) ==
    /\ Call(p) /\ Free /\ Writing = {}
    /\ Open /\ Accepts(docs[d], op, v)
    /\ docs' = [docs EXCEPT ![d] = Marker(@, op, v)]
    /\ At(p, "io") /\ With(p, [doc |-> d, ver |-> v, op |-> op])
    /\ may' = [may EXCEPT ![d] = @ \cup {v}]
    /\ tangled' = IF op = "replace" /\ Rec(d) \notin {"", Refreshing}
                  THEN tangled \cup {d} ELSE tangled
    /\ UNCHANGED <<coll, table, lock, faults, stale>>

\* merge_insert on chunk_id; a replacement also deletes what it does not bring.
Merged(chunks, op, v) == IF op = "replace" THEN {v} ELSE chunks \cup {v}

WriteChunks(p) ==
    /\ pc[p] = "io" /\ At(p, "commit")
    /\ LET a == arg[p] IN
       table' = IF table = NoTable THEN [NoChunks EXCEPT ![a.doc] = {a.ver}]
                ELSE [table EXCEPT ![a.doc] = Merged(@, a.op, a.ver)]
    /\ UNCHANGED <<coll, docs, lock, arg, calls, faults, history>>

Completed(v, rec) == [cur |-> v, pend |-> None, rec |-> rec]

CommitRow(p) ==
    /\ pc[p] = "commit" /\ Free
    /\ lock' = p /\ At(p, "refresh")
    /\ LET a == arg[p] IN
       /\ docs' = [docs EXCEPT ![a.doc] = Completed(a.ver, Refreshing)]
       /\ tangled' = IF a.op = "replace" THEN tangled \ {a.doc} ELSE tangled
    /\ UNCHANGED <<coll, table, arg, calls, faults, may, stale>>

\* _refresh_collection_activity_locked: the window moves on, or has moved already.
RefreshActivity(p) ==
    /\ pc[p] = "refresh" /\ coll # NoRow
    /\ At(p, "settle")
    /\ coll' \in {coll, IF coll.status = "active" THEN [coll EXCEPT !.expired = FALSE] ELSE coll}
    /\ UNCHANGED <<docs, table, lock, arg, calls, faults, history>>

\* The call returns: from here on the document is this version, unless a
\* deletion asked for meanwhile comes after it.
Settle(p) ==
    /\ pc[p] = "settle" /\ Done(p)
    /\ LET d == arg[p].doc IN
       /\ docs' = [docs EXCEPT ![d].rec = ""]
       /\ may' = IF p = Reconciler THEN may
                 ELSE [may EXCEPT ![d] = {arg[p].ver} \cup
                         (IF PendingDeletion(d) \/ PendingCleanup \/ coll.status = "deleting"
                          THEN {Gone} ELSE {})]
    /\ UNCHANGED <<coll, table, calls, faults, tangled, stale>>

\* An exception in any of them: the finally clause gives the lease back.
WriteFails(p) ==
    /\ p \in Writing
    /\ Fault /\ At(p, "idle") /\ With(p, None)
    /\ lock' = IF lock = p THEN Nobody ELSE lock
    /\ UNCHANGED <<durable, calls, history>>

-----------------------------------------------------------------------------
(* Queries: the hidden documents are chosen under the lock, the table is    *)
(* read without it.                                                         *)

BeginQuery(p) ==
    /\ Call(p) /\ Free /\ Open /\ table # NoTable
    /\ At(p, "read") /\ With(p, [hidden |-> {d \in Docs : Uncommitted(docs[d])}])
    /\ UNCHANGED <<durable, lock, faults, history>>

EndQuery(p) ==
    /\ pc[p] = "read" /\ At(p, "idle") /\ With(p, None)
    /\ UNCHANGED <<durable, lock, calls, faults, history>>

-----------------------------------------------------------------------------
(* Deletion of a document.  It waits for the users of the table, but of a   *)
(* table that the first write is about to make it knows nothing.            *)

Deleting(row) == [row EXCEPT !.rec = "deleting_chunks"]

DeleteDocument(p, d) ==
    /\ Call(p) /\ Free /\ Open /\ docs[d] # NoRow
    /\ docs' = [docs EXCEPT ![d] = Deleting(@)]
    /\ With(p, [doc |-> d, row |-> Deleting(docs[d])])
    /\ may' = [may EXCEPT ![d] = @ \cup {Gone}]
    /\ IF table = NoTable THEN At(p, "row") /\ lock' = p ELSE At(p, "chunks") /\ Waiting(p)
    /\ tangled' = IF table = NoTable /\ WritersOf(d) # {} THEN tangled \cup {d} ELSE tangled
    /\ UNCHANGED <<coll, table, faults, stale>>

DeleteChunks(p) ==
    /\ pc[p] = "chunks" /\ Proceeds(p) /\ table # NoTable
    /\ lock' = p /\ At(p, "row")
    /\ LET d == arg[p].doc IN
       /\ table' = [table EXCEPT ![d] = {}]
       /\ tangled' = IF Rec(d) = "deleting_chunks" THEN tangled ELSE tangled \cup {d}
    /\ UNCHANGED <<coll, docs, arg, calls, faults, may, stale>>

\* The row as it was read goes back to the catalog when an exception ends the
\* call: _open_table fails if the collection was deleted during the wait.
PutBack(p) == [docs EXCEPT ![arg[p].doc] = arg[p].row]

TableHasGone(p) ==
    /\ pc[p] = "chunks" /\ Proceeds(p) /\ table = NoTable
    /\ docs' = PutBack(p) /\ Done(p)
    /\ UNCHANGED <<coll, table, calls, faults, history>>

DeletionFails(p) ==
    /\ (pc[p] = "chunks" /\ Proceeds(p)) \/ pc[p] = "row"
    /\ Fault /\ Done(p)
    /\ docs' \in {docs, PutBack(p)}
    /\ UNCHANGED <<coll, table, calls, history>>

DeleteRow(p) ==
    /\ pc[p] = "row" /\ Done(p)
    /\ LET d == arg[p].doc IN
       /\ docs' = [docs EXCEPT ![d] = NoRow]
       /\ may' = IF p = Reconciler THEN may
                 ELSE [may EXCEPT ![d] = {Gone} \cup {arg[w].ver : w \in WritersOf(d)}]
       /\ tangled' = IF WritersOf(d) = {} /\ Chunks(d) = {} THEN tangled \ {d} ELSE tangled
    /\ UNCHANGED <<coll, table, calls, faults, stale>>

-----------------------------------------------------------------------------
(* The reconciler.  Its list of candidates only selects; each row is read   *)
(* again under the lock and once more after the wait.                       *)

NeedsRecovery_MutantNoRefresh(d) == Rec(d) \notin {"", Refreshing}
NeedsRecovery(d) == Rec(d) # ""

ReconcileDocument(d) ==
    /\ pc[Reconciler] = "idle" /\ Free
    /\ NeedsRecovery(d) /\ coll # NoRow
    /\ At(Reconciler, "recover") /\ With(Reconciler, [doc |-> d]) /\ Waiting(Reconciler)
    /\ UNCHANGED <<durable, calls, faults, history>>

Recovering(d) == pc[Reconciler] = "recover" /\ arg[Reconciler] = [doc |-> d] /\ Proceeds(Reconciler)
Interrupted(d) == Rec(d) \in {"appending", "replacing"}
PendingChunks_MutantAny(d) == Chunks(d) # {}
PendingChunks(d) == docs[d].pend # None /\ docs[d].pend \in Chunks(d)

NothingToRecover(d) ==
    /\ Recovering(d) /\ ~NeedsRecovery(d)
    /\ Done(Reconciler)
    /\ UNCHANGED <<durable, calls, faults, history>>

RollForward(d) ==
    /\ Recovering(d) /\ Interrupted(d) /\ PendingChunks(d)
    /\ docs' = [docs EXCEPT ![d] = Completed(@.pend, Refreshing)]
    /\ lock' = Reconciler /\ At(Reconciler, "refresh")
    /\ UNCHANGED <<coll, table, arg, calls, faults, history>>

RollBack(d) ==
    /\ Recovering(d) /\ Interrupted(d) /\ ~PendingChunks(d)
    /\ docs' = [docs EXCEPT ![d] = IF Uncommitted(@) THEN NoRow ELSE Completed(@.cur, "")]
    /\ Done(Reconciler)
    /\ UNCHANGED <<coll, table, calls, faults, history>>

ResumeRefresh(d) ==
    /\ Recovering(d) /\ Rec(d) = Refreshing
    /\ lock' = Reconciler /\ At(Reconciler, "refresh")
    /\ UNCHANGED <<durable, arg, calls, faults, history>>

ResumeDeletion(d) ==
    /\ Recovering(d) /\ Rec(d) = "deleting_chunks"
    /\ With(Reconciler, [doc |-> d, row |-> docs[d]]) /\ lock' = Reconciler
    /\ At(Reconciler, IF table = NoTable THEN "row" ELSE "chunks")
    /\ UNCHANGED <<durable, calls, faults, history>>

\* The except branch keeps the state the document is in.
RefreshFails ==
    /\ pc[Reconciler] \in {"refresh", "settle"}
    /\ Fault /\ Done(Reconciler)
    /\ UNCHANGED <<durable, calls, history>>

-----------------------------------------------------------------------------
\* The process ends and starts again: what is durable stays.
Crash ==
    /\ Fault /\ \E p \in Threads : pc[p] # "idle"
    /\ pc' = [p \in Threads |-> "idle"] /\ arg' = [p \in Threads |-> None] /\ lock' = Nobody
    /\ UNCHANGED <<durable, calls, history>>

\* Nobody calls, and a pass of the reconciler has nothing to do.
Rest == (\A p \in Threads : pc[p] = "idle") /\ UNCHANGED vars

CollectionStep(p) ==
    \/ DropTable(p) \/ RecordDrop(p) \/ DeleteDocumentRows(p) \/ DeleteCollectionRow(p)
DocumentStep(p) ==
    \/ RefreshActivity(p) \/ Settle(p) \/ DeleteChunks(p) \/ TableHasGone(p) \/ DeleteRow(p)
ClientStep(p) == WriteChunks(p) \/ CommitRow(p) \/ EndQuery(p)

ClientCall(p) ==
    \/ CreateCollection(p) \/ DeleteCollection(p) \/ BeginQuery(p)
    \/ \E d \in Docs : DeleteDocument(p, d)
    \/ \E d \in Docs, op \in {"append", "replace"}, v \in Versions : BeginWrite(p, d, op, v)

Reconcile ==
    \/ RetireCollection
    \/ \E d \in Docs : \/ ReconcileDocument(d) \/ NothingToRecover(d) \/ RollForward(d)
                       \/ RollBack(d) \/ ResumeRefresh(d) \/ ResumeDeletion(d)

Failure == \/ \E p \in Threads : CleanupFails(p) \/ DeletionFails(p)
           \/ \E p \in Clients : WriteFails(p)
           \/ RefreshFails \/ Crash

Progress(p) == CollectionStep(p) \/ DocumentStep(p) \/ (p \in Clients /\ ClientStep(p))

Next ==
    \/ \E p \in Clients : ClientCall(p)
    \/ \E p \in Threads : Progress(p)
    \/ Reconcile \/ Failure \/ Expire \/ Rest

Spec == Init /\ [][Next]_vars

\* Threads run, and the reconciler comes back every interval.
Fairness == WF_vars(Reconcile) /\ \A p \in Threads : WF_vars(Progress(p))
FairSpec == Spec /\ Fairness

-----------------------------------------------------------------------------

\* Table-user leases: a table is not dropped while a query reads it, and the
\* chunks a write has merged stay until its call has ended
\* (_wait_for_table_users_locked before every destructive step).
InUseIsUntouched ==
    \A p \in Users :
        /\ pc[p] = "read" => table # NoTable
        /\ pc[p] \in {"commit", "refresh", "settle"} => arg[p].ver \in Chunks(arg[p].doc)

Stable(d) == (coll = NoRow \/ coll.status = "active") /\ Rec(d) = ""
Shown(d) == IF docs[d] = NoRow THEN Gone ELSE docs[d].cur

\* Through failures, crashes and recovery a document that needs no recovery is
\* what the last call that was answered left, or what a later one asked for;
\* its catalog row and its chunks say the same, so queries never mix versions.
\* Excepted are the two ways this code loses track: a recovery marker that
\* another operation overwrites, and a cleanup that outlives its collection.
SettledIsTrue ==
    \A d \in Docs :
        Stable(d) /\ d \notin tangled /\ ~stale =>
            /\ Shown(d) \in may[d]
            /\ Chunks(d) = {Shown(d)} \ {Gone}

\* What outlives its collection in the catalog of documents is never more than
\* a deletion that was interrupted (the except branch of
\* _reconcile_document_row_locked puts the row back).
OrphansAreDeletions ==
    coll = NoRow => \A d \in Docs : docs[d] # NoRow => docs[d].rec = "deleting_chunks"

\* The reconciler finishes what calls and crashes have left behind: once they
\* have ended, the collection is gone or active, and no row awaits recovery.
Recovers ==
    <>[](coll = NoRow \/ (coll.status = "active" /\ \A d \in Docs : Rec(d) = ""))

\* "inspects stored chunk versions after a crash and either finalizes the new
\* version or preserves the old one"
\* (docs/reference/collection-management-api.md:309-311): a document that was
\* committed, that nobody asked to delete and that needs no recovery has the
\* chunks its row names.
NewOrOld == \A d \in Docs : Stable(d) /\ Gone \notin may[d] => Chunks(d) = {Shown(d)}
=============================================================================
