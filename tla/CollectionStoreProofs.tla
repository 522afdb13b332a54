----------------------- MODULE CollectionStoreProofs -----------------------
(***************************************************************************)
(* The safety properties of CollectionStore for any number of threads,     *)
(* documents, versions, calls and faults: the table is left alone while it *)
(* is in use (InUseIsUntouched), what outlives a collection is never more  *)
(* than an interrupted deletion (OrphansAreDeletions), and a document that *)
(* needs no recovery is what the calls have made of it (SettledIsTrue).    *)
(*                                                                         *)
(* Every action but a crash moves one thread.  For the first two, what     *)
(* such a move may do is stated once, as Guaranteed(p, s, a); each action  *)
(* is shown to guarantee it, and each part of IInv to survive it.  The     *)
(* third adds HInv: for each document, what its row, its chunks and its    *)
(* history say of one another (DocInv), and for each thread, what it       *)
(* relies on where it is (Relies).                                         *)
(***************************************************************************)
EXTENDS CollectionStore, TLAPS

-----------------------------------------------------------------------------
(* Types.  What a thread carries depends on where it is.                   *)

CollRows == [status : {"active", "deleting"}, phase : {"", "drop_table", "delete_catalog"},
             expired : BOOLEAN, made : Nat]
Recs == {"", "appending", "replacing", Refreshing, "deleting_chunks"}
DocRows == [cur : Versions \cup {None}, pend : Versions \cup {None}, rec : Recs]
Tables == [Docs -> SUBSET Versions]

StateOK ==
    /\ coll \in CollRows \cup {NoRow}
    /\ docs \in [Docs -> DocRows \cup {NoRow}]
    /\ table \in Tables \cup {NoTable}
    /\ lock \in Threads \cup {Nobody}
    /\ calls \in Nat

\* The steps of a cleanup, and the steps that hold the lock.
Cleaning == {"drop", "dropped", "catalog", "last"}
Holding == {"dropped", "catalog", "last", "refresh", "settle", "row"}
Places == Cleaning \cup Holding \cup {"idle", "read", "io", "commit", "chunks", "recover"}

Uses(p, s) == p \in Clients /\ s \in {"read", "io", "commit", "refresh", "settle"}
Writes(p, s) == p \in Clients /\ s \in {"io", "commit", "refresh", "settle"}

IsWrite(a) == a.doc \in Docs /\ a.ver \in Versions
IsDeletion(a) == a.doc \in Docs /\ a.row \in DocRows /\ a.row.rec = "deleting_chunks"
IsCleanup(a) == a.coll \in CollRows /\ a.coll.status = "deleting"

\* Thread p may be at s with the locals a.
Fits(p, s, a) ==
    /\ s \in Places
    /\ s \in {"io", "commit"} => p \in Clients
    /\ Writes(p, s) => IsWrite(a)
    /\ s \in {"refresh", "settle", "recover"} => a.doc \in Docs
    /\ s \in {"chunks", "row"} => IsDeletion(a)
    /\ s \in Cleaning => IsCleanup(a)
    /\ s = "drop" => a.coll.phase = "drop_table"

ThreadsOK ==
    /\ DOMAIN pc = Threads /\ pc = [p \in Threads |-> pc[p]]
    /\ DOMAIN arg = Threads /\ arg = [p \in Threads |-> arg[p]]
    /\ \A p \in Threads : Fits(p, pc[p], arg[p])

-----------------------------------------------------------------------------
(* The inductive invariant.                                                *)

\* Whoever is in the middle of a durable change has the lock.
LockInv == \A p \in Threads : pc[p] \in Holding => lock = p

\* One writer at a time.
WriterInv == \A p, q \in Writing : p = q

\* A collection that is only to be forgotten has no users.
WellPhased(c) ==
    /\ c.status = "deleting" => c.phase \in {"drop_table", "delete_catalog"}
    /\ c.phase = "delete_catalog" => c.status = "deleting"
PhaseInv ==
    coll # NoRow => WellPhased(coll) /\ (coll.phase = "delete_catalog" => Users = {})
UserInv ==
    /\ \A p \in Threads : pc[p] \in {"dropped", "catalog", "last"} => Users = {}
    /\ Users # {} => coll # NoRow

\* What a thread that has the lock has found is still there.
RowsInv ==
    \A p \in Threads :
        /\ pc[p] = "last" => \A d \in Docs : docs[d] = NoRow
        /\ pc[p] \in {"refresh", "settle"} => coll # NoRow /\ docs[arg[p].doc] # NoRow

IInv == StateOK /\ ThreadsOK /\ LockInv /\ WriterInv /\ PhaseInv /\ UserInv /\ RowsInv
        /\ OrphansAreDeletions /\ InUseIsUntouched

LEMMA NoRowNoRecord == NoRow \notin CollRows /\ NoRow \notin DocRows /\ NoTable \notin Tables
BY CollectionStoreAssumption DEF CollRows, DocRows, Recs, Refreshing, Tables

LEMMA ThreadNames == Nobody \notin Threads /\ Reconciler \in Threads /\ Reconciler \notin Clients
                     /\ Clients \subseteq Threads
BY CollectionStoreAssumption DEF Threads

LEMMA InitInv == Init => IInv
<1>. SUFFICES ASSUME Init PROVE IInv
    OBVIOUS
<1>1. StateOK
    BY CollectionStoreAssumption DEF Init, StateOK
<1>2. ThreadsOK
    BY DEF Init, ThreadsOK, Fits, Places, Writes, Cleaning
<1>3. Users = {} /\ Writing = {}
    BY ThreadNames DEF Init, Users, Writing
<1>4. LockInv /\ RowsInv
    BY DEF Init, LockInv, RowsInv, Holding
<1>. QED BY <1>1, <1>2, <1>3, <1>4
         DEF Init, IInv, WriterInv, PhaseInv, UserInv, OrphansAreDeletions, InUseIsUntouched

-----------------------------------------------------------------------------
(* Guaranteed moves.                                                       *)

Moved(p, s, a) == pc' = [pc EXCEPT ![p] = s] /\ arg' = [arg EXCEPT ![p] = a]

LocksWell(p, s) ==
    /\ s \in Holding => lock' = p
    /\ lock' = lock \/ (lock \in {Nobody, p} /\ lock' \in {Nobody, p})

\* A thread comes to use the table while the collection is open and nobody is
\* about to change it; a writer, when there is no other.
UsesWell(p, s) ==
    /\ Writes(p, s) => Writes(p, pc[p]) \/ Writing = {}
    /\ Uses(p, s) => \/ p \in Users /\ coll' = coll
                     \/ coll # NoRow /\ coll' = coll /\ coll.status = "active" /\ lock = Nobody
                     \/ p \in Users /\ coll # NoRow /\ coll' # NoRow /\ coll'.phase = coll.phase
    /\ s \in {"dropped", "catalog", "last"} => Users = {}

CollWell(p, s) ==
    \/ coll' = coll
    \/ /\ coll' # NoRow /\ WellPhased(coll')
       /\ coll'.phase = "delete_catalog" => Users = {} /\ ~Uses(p, s)
    \/ coll' = NoRow /\ pc[p] = "last" /\ s = "idle"

DocsWell(p, s, a) ==
    /\ \/ docs' = docs
       \/ /\ lock \in {Nobody, p} /\ coll' = coll
          /\ \A d \in Docs : \/ docs'[d] \in {docs[d], NoRow}
                             \/ docs'[d].rec = "deleting_chunks"
                             \/ coll # NoRow
    /\ s = "last" => \A d \in Docs : docs'[d] = NoRow
    /\ s \in {"refresh", "settle"} => coll' # NoRow /\ docs'[a.doc] # NoRow

Has(t, a) == t # NoTable /\ a.ver \in t[a.doc]

TableWell(p, s, a) ==
    /\ \/ table' = table
       \/ Users = {} /\ ~Uses(p, s)
       \/ p \in Writing /\ s = "commit" /\ table' # NoTable
    /\ p \in Clients /\ s = "read" => table' # NoTable
    /\ p \in Clients /\ s \in {"commit", "refresh", "settle"} => Has(table', a)

Guaranteed(p, s, a) ==
    /\ Moved(p, s, a) /\ Fits(p, s, a) /\ StateOK'
    /\ LocksWell(p, s) /\ UsesWell(p, s) /\ CollWell(p, s)
    /\ DocsWell(p, s, a) /\ TableWell(p, s, a)

LEMMA GuaranteedKeeps ==
    ASSUME IInv, NEW p \in Threads, NEW s, NEW a, Guaranteed(p, s, a)
    PROVE  IInv'
<1>0. /\ StateOK /\ ThreadsOK /\ LockInv /\ WriterInv /\ PhaseInv /\ UserInv /\ RowsInv
      /\ OrphansAreDeletions /\ InUseIsUntouched
    BY DEF IInv
<1>1. /\ pc'[p] = s /\ arg'[p] = a
      /\ \A q \in Threads : q # p => pc'[q] = pc[q] /\ arg'[q] = arg[q]
      /\ DOMAIN pc' = Threads /\ pc' = [q \in Threads |-> pc'[q]]
      /\ DOMAIN arg' = Threads /\ arg' = [q \in Threads |-> arg'[q]]
    BY <1>0 DEF ThreadsOK, Guaranteed, Moved
<1>2. StateOK' /\ ThreadsOK'
    BY <1>0, <1>1 DEF ThreadsOK, Guaranteed
<1>3. /\ \A q \in Users' : q \in Threads /\ (q = p \/ q \in Users)
      /\ p \in Users' <=> Uses(p, s)
      /\ \A q \in Writing' : q \in Threads /\ (q = p \/ q \in Writing)
      /\ p \in Writing' <=> Writes(p, s)
      /\ p \in Writing <=> Writes(p, pc[p])
    BY <1>1, ThreadNames DEF Users, Writing, Uses, Writes
<1>4. LockInv'
    BY <1>0, <1>1, ThreadNames DEF LockInv, Guaranteed, LocksWell
<1>5. WriterInv'
    BY <1>0, <1>3 DEF WriterInv, Guaranteed, UsesWell
<1>6. \A q \in Threads : pc[q] \in Holding /\ q # p => lock = q /\ lock \notin {Nobody, p}
    BY <1>0, ThreadNames DEF LockInv
<1>7. Users' # {} => Users # {} \/ Uses(p, s)
    BY <1>3
<1>8. PhaseInv'
    BY <1>0, <1>7, NoRowNoRecord DEF PhaseInv, Guaranteed, CollWell, UsesWell, WellPhased
<1>9. UserInv'
    <2>1. ASSUME NEW q \in Threads, pc'[q] \in {"dropped", "catalog", "last"} PROVE Users' = {}
        <3>1. CASE q = p
            BY <1>1, <1>7, <2>1, <3>1 DEF Guaranteed, UsesWell, Uses
        <3>2. CASE q # p
            <4>1. Users = {} /\ lock # Nobody
                BY <1>0, <1>1, <1>6, <2>1, <3>2 DEF UserInv, Holding
            <4>. QED BY <1>7, <4>1 DEF Guaranteed, UsesWell
        <3>. QED BY <3>1, <3>2
    <2>2. ASSUME Users' # {} PROVE coll' # NoRow
        <3>1. pc[p] = "last" => Users = {}
            BY <1>0 DEF UserInv
        <3>2. CASE Uses(p, s)
            BY <1>0, <3>2 DEF Guaranteed, UsesWell, UserInv
        <3>3. CASE Users # {}
            BY <1>0, <3>1, <3>3 DEF Guaranteed, CollWell, UserInv
        <3>. QED BY <1>7, <2>2, <3>2, <3>3
    <2>. QED BY <2>1, <2>2 DEF UserInv
<1>10. RowsInv'
    <2>1. ASSUME NEW q \in Threads, q # p, pc[q] \in Holding PROVE docs' = docs /\ (coll # NoRow => coll' # NoRow)
        <3>1. pc[p] # "last"
            BY <1>0, <1>6, <2>1 DEF LockInv, Holding
        <3>. QED BY <1>6, <2>1, <3>1 DEF Guaranteed, DocsWell, CollWell
    <2>. QED BY <1>0, <1>1, <2>1 DEF RowsInv, Guaranteed, DocsWell, Holding
<1>11. OrphansAreDeletions'
    <2>1. ASSUME coll' = NoRow, coll # NoRow PROVE \A d \in Docs : docs'[d] = NoRow
        <3>1. pc[p] = "last"
            BY <2>1 DEF Guaranteed, CollWell
        <3>2. \A d \in Docs : docs[d] = NoRow
            BY <1>0, <3>1 DEF RowsInv
        <3>. QED
            BY <2>1, <3>2 DEF Guaranteed, DocsWell
    <2>. QED BY <1>0, <2>1 DEF OrphansAreDeletions, Guaranteed, DocsWell
<1>12. InUseIsUntouched'
    <2>1. ASSUME NEW q \in Users', q # p
          PROVE  /\ pc'[q] = "read" => table' # NoTable
                 /\ pc'[q] \in {"commit", "refresh", "settle"} => Has(table', arg'[q])
        <3>1. q \in Users /\ pc'[q] = pc[q] /\ arg'[q] = arg[q]
            BY <1>1, <1>3, <2>1
        <3>2. /\ pc[q] = "read" => table # NoTable
              /\ pc[q] \in {"commit", "refresh", "settle"} => Has(table, arg[q]) /\ q \in Writing
            BY <1>0, <3>1 DEF InUseIsUntouched, Chunks, Has, Users, Writing
        <3>3. CASE table' = table
            BY <3>1, <3>2, <3>3
        <3>4. CASE p \in Writing /\ table' # NoTable
            BY <1>0, <2>1, <3>1, <3>2, <3>4 DEF WriterInv
        <3>. QED BY <3>1, <3>3, <3>4 DEF Guaranteed, TableWell
    <2>2. p \in Users' => /\ pc'[p] = "read" => table' # NoTable
                          /\ pc'[p] \in {"commit", "refresh", "settle"} => Has(table', arg'[p])
        BY <1>1, <1>3 DEF Guaranteed, TableWell, Uses
    <2>3. \A q \in Users' :
             /\ pc'[q] = "read" => table' # NoTable
             /\ pc'[q] \in {"commit", "refresh", "settle"} => Has(table', arg'[q])
        BY <2>1, <2>2
    <2>. QED BY <2>3 DEF InUseIsUntouched, Chunks, Has
<1>. QED BY <1>2, <1>4, <1>5, <1>8, <1>9, <1>10, <1>11, <1>12 DEF IInv

-----------------------------------------------------------------------------
(* Every action guarantees its move.                                       *)

LEMMA Facts ==
    ASSUME IInv, NEW p \in Threads
    PROVE  /\ StateOK /\ Fits(p, pc[p], arg[p])
           /\ pc = [pc EXCEPT ![p] = pc[p]] /\ arg = [arg EXCEPT ![p] = arg[p]]
           /\ arg = [arg EXCEPT ![p] = @]
           /\ pc[p] \in Holding => lock = p
           /\ coll # NoRow => WellPhased(coll) /\ (coll.phase = "delete_catalog" => Users = {})
           /\ pc[p] \in {"dropped", "catalog", "last"} => Users = {}
           /\ Users # {} => coll # NoRow
           /\ pc[p] = "last" => \A d \in Docs : docs[d] = NoRow
           /\ pc[p] \in {"refresh", "settle"} => coll # NoRow /\ docs[arg[p].doc] # NoRow
           /\ coll = NoRow => \A d \in Docs : docs[d] # NoRow => docs[d].rec = "deleting_chunks"
           /\ p \in Users <=> Uses(p, pc[p])
           /\ p \in Writing <=> Writes(p, pc[p])
           /\ pc[p] = "read" /\ p \in Clients => table # NoTable
           /\ pc[p] \in {"commit", "refresh", "settle"} /\ p \in Clients => Has(table, arg[p])
<1>1. /\ StateOK /\ ThreadsOK /\ LockInv /\ PhaseInv /\ UserInv /\ RowsInv
      /\ OrphansAreDeletions /\ InUseIsUntouched
    BY DEF IInv
<1>2. p \in Users <=> Uses(p, pc[p])
    BY DEF Users, Uses
<1>3. p \in Writing <=> Writes(p, pc[p])
    BY DEF Writing, Writes
<1>4. /\ pc[p] = "read" /\ p \in Clients => table # NoTable
      /\ pc[p] \in {"commit", "refresh", "settle"} /\ p \in Clients => Has(table, arg[p])
    BY <1>1, <1>2 DEF InUseIsUntouched, Chunks, Has, Uses
<1>5. pc = [pc EXCEPT ![p] = pc[p]] /\ arg = [arg EXCEPT ![p] = arg[p]] /\ arg = [arg EXCEPT ![p] = @]
    BY <1>1 DEF ThreadsOK
<1>. QED BY <1>1, <1>2, <1>3, <1>4, <1>5
         DEF ThreadsOK, LockInv, PhaseInv, UserInv, RowsInv, OrphansAreDeletions

LEMMA DropTableKeeps ==
    ASSUME IInv, NEW p \in Threads, DropTable(p) PROVE IInv'
<1>1. Guaranteed(p, "dropped", arg[p])
    BY Facts, ThreadNames DEF DropTable, At, Proceeds, MayMutate, Guaranteed, Moved, Fits, StateOK,
       LocksWell, UsesWell, CollWell, DocsWell, TableWell, Places, Cleaning, Holding, Writes, Uses
<1>. QED BY <1>1, GuaranteedKeeps

LEMMA RecordDropKeeps ==
    ASSUME IInv, NEW p \in Threads, RecordDrop(p) PROVE IInv'
<1>1. Emptied(arg[p].coll) \in CollRows /\ WellPhased(Emptied(arg[p].coll))
    BY Facts DEF RecordDrop, Fits, IsCleanup, Cleaning, CollRows, Emptied, WellPhased
<1>2. Guaranteed(p, "catalog", arg[p])
    BY <1>1, Facts, ThreadNames, NoRowNoRecord DEF RecordDrop, At, Guaranteed, Moved, Fits, StateOK,
       LocksWell, UsesWell, CollWell, DocsWell, TableWell, Places, Cleaning, Holding, Writes, Uses
<1>. QED BY <1>2, GuaranteedKeeps

LEMMA DeleteDocumentRowsKeeps ==
    ASSUME IInv, NEW p \in Threads, DeleteDocumentRows(p) PROVE IInv'
<1>1. Guaranteed(p, "last", arg[p])
    BY Facts, ThreadNames DEF DeleteDocumentRows, At, Guaranteed, Moved, Fits, StateOK,
       LocksWell, UsesWell, CollWell, DocsWell, TableWell, Places, Cleaning, Holding, Writes, Uses
<1>. QED BY <1>1, GuaranteedKeeps

LEMMA DeleteCollectionRowKeeps ==
    ASSUME IInv, NEW p \in Threads, DeleteCollectionRow(p) PROVE IInv'
<1>1. Guaranteed(p, "idle", None)
    BY Facts, ThreadNames DEF DeleteCollectionRow, Done, At, With, Guaranteed, Moved, Fits, StateOK,
       LocksWell, UsesWell, CollWell, DocsWell, TableWell, Places, Cleaning, Holding, Writes, Uses
<1>. QED BY <1>1, GuaranteedKeeps

LEMMA RefreshActivityKeeps ==
    ASSUME IInv, NEW p \in Threads, RefreshActivity(p) PROVE IInv'
<1>1. /\ coll' \in CollRows /\ WellPhased(coll') /\ coll'.phase = coll.phase
      /\ coll'.phase = "delete_catalog" => coll' = coll /\ Users = {}
    BY Facts DEF RefreshActivity, StateOK, CollRows, WellPhased
<1>2. Guaranteed(p, "settle", arg[p])
    BY <1>1, Facts, ThreadNames, NoRowNoRecord
       DEF RefreshActivity, At, Guaranteed, Moved, Fits, StateOK,
       LocksWell, UsesWell, CollWell, DocsWell, TableWell, Places, Cleaning, Holding, Writes, Uses
<1>. QED BY <1>2, GuaranteedKeeps

LEMMA SettleKeeps ==
    ASSUME IInv, NEW p \in Threads, Settle(p) PROVE IInv'
<1>1. /\ arg[p].doc \in Docs /\ docs[arg[p].doc] # NoRow
      /\ docs' = [docs EXCEPT ![arg[p].doc] = [docs[arg[p].doc] EXCEPT !.rec = ""]]
    BY Facts DEF Settle, Fits
<1>2. docs' \in [Docs -> DocRows \cup {NoRow}]
    <2>1. docs[arg[p].doc] \in DocRows
        BY <1>1, Facts DEF StateOK
    <2>2. [docs[arg[p].doc] EXCEPT !.rec = ""] \in DocRows
        BY <2>1 DEF DocRows, Recs
    <2>. QED BY <1>1, <2>2, Facts DEF StateOK
<1>3. Guaranteed(p, "idle", None)
    BY <1>1, <1>2, Facts, ThreadNames DEF Settle, Done, At, With, Guaranteed, Moved, Fits, StateOK,
       LocksWell, UsesWell, CollWell, DocsWell, TableWell, Places, Cleaning, Holding, Writes, Uses
<1>. QED BY <1>3, GuaranteedKeeps

LEMMA DeleteChunksKeeps ==
    ASSUME IInv, NEW p \in Threads, DeleteChunks(p) PROVE IInv'
<1>1. table' \in Tables
    BY Facts DEF DeleteChunks, StateOK, Tables
<1>2. Guaranteed(p, "row", arg[p])
    BY <1>1, Facts, ThreadNames DEF DeleteChunks, At, Proceeds, MayMutate, Guaranteed, Moved, Fits,
       StateOK, LocksWell, UsesWell, CollWell, DocsWell, TableWell, Places, Cleaning, Holding, Writes, Uses
<1>. QED BY <1>2, GuaranteedKeeps

LEMMA PutBackIsDeletion ==
    ASSUME IInv, NEW p \in Threads, pc[p] \in {"chunks", "row"}
    PROVE  /\ PutBack(p) \in [Docs -> DocRows \cup {NoRow}]
           /\ \A d \in Docs : PutBack(p)[d] = docs[d] \/ PutBack(p)[d].rec = "deleting_chunks"
BY Facts DEF Fits, IsDeletion, StateOK, PutBack

LEMMA TableHasGoneKeeps ==
    ASSUME IInv, NEW p \in Threads, TableHasGone(p) PROVE IInv'
<1>1. Guaranteed(p, "idle", None)
    BY PutBackIsDeletion, Facts, ThreadNames
       DEF TableHasGone, Done, At, With, Proceeds, MayMutate, Guaranteed, Moved, Fits,
       StateOK, LocksWell, UsesWell, CollWell, DocsWell, TableWell, Places, Cleaning, Holding, Writes, Uses
<1>. QED BY <1>1, GuaranteedKeeps

LEMMA DeletionFailsKeeps ==
    ASSUME IInv, NEW p \in Threads, DeletionFails(p) PROVE IInv'
<1>1. Guaranteed(p, "idle", None)
    BY PutBackIsDeletion, Facts, ThreadNames
       DEF DeletionFails, Done, At, With, Proceeds, MayMutate, Guaranteed, Moved, Fits,
       StateOK, LocksWell, UsesWell, CollWell, DocsWell, TableWell, Places, Cleaning, Holding, Writes, Uses
<1>. QED BY <1>1, GuaranteedKeeps

LEMMA DeleteRowKeeps ==
    ASSUME IInv, NEW p \in Threads, DeleteRow(p) PROVE IInv'
<1>1. Guaranteed(p, "idle", None)
    BY Facts, ThreadNames DEF DeleteRow, Done, At, With, Guaranteed, Moved, Fits,
       StateOK, LocksWell, UsesWell, CollWell, DocsWell, TableWell, Places, Cleaning, Holding, Writes, Uses
<1>. QED BY <1>1, GuaranteedKeeps

LEMMA CleanupFailsKeeps ==
    ASSUME IInv, NEW p \in Threads, CleanupFails(p) PROVE IInv'
<1>1. /\ arg[p].coll \in CollRows /\ arg[p].coll.status = "deleting"
      /\ Emptied(arg[p].coll) \in CollRows /\ WellPhased(Emptied(arg[p].coll))
      /\ pc[p] = "drop" => arg[p].coll.phase = "drop_table"
    BY Facts DEF CleanupFails, Fits, IsCleanup, Cleaning, CollRows, Emptied, WellPhased
<1>2. Users = {}
    BY Facts DEF CleanupFails, Proceeds, MayMutate
<1>3. coll' = coll \/ (coll' \in CollRows /\ WellPhased(coll'))
    BY <1>1 DEF CleanupFails, WellPhased
<1>4. Guaranteed(p, "idle", None)
    BY <1>2, <1>3, Facts, ThreadNames, NoRowNoRecord
       DEF CleanupFails, Done, At, With, Proceeds, Guaranteed, Moved, Fits,
       StateOK, LocksWell, UsesWell, CollWell, DocsWell, TableWell, Places, Cleaning, Holding, Writes, Uses
<1>. QED BY <1>4, GuaranteedKeeps

-----------------------------------------------------------------------------
(* Calls.                                                                   *)

LEMMA CreateCollectionKeeps ==
    ASSUME IInv, NEW p \in Clients, CreateCollection(p) PROVE IInv'
<1>1. calls' \in Nat /\ coll' \in CollRows /\ WellPhased(coll') /\ coll'.phase # "delete_catalog"
    <2>1. calls \in Nat
        BY DEF IInv, StateOK
    <2>2. calls' \in Nat
        <3>1. Call(p)
            BY DEF CreateCollection
        <3>. QED BY <2>1, <3>1 DEF Call
    <2>3. coll' = [status |-> "active", phase |-> "", expired |-> FALSE, made |-> calls]
        BY DEF CreateCollection
    <2>. QED BY <2>1, <2>2, <2>3 DEF CollRows, WellPhased
<1>2. Guaranteed(Reconciler, pc[Reconciler], arg[Reconciler])
    BY <1>1, Facts, ThreadNames, NoRowNoRecord DEF CreateCollection, Guaranteed, Moved,
       StateOK, LocksWell, UsesWell, CollWell, DocsWell, TableWell, Writes, Uses
<1>. QED BY <1>2, GuaranteedKeeps, ThreadNames

LEMMA ExpireKeeps ==
    ASSUME IInv, Expire PROVE IInv'
<1>1. coll' \in CollRows /\ WellPhased(coll') /\ coll'.phase # "delete_catalog"
    BY Facts, ThreadNames DEF Expire, StateOK, CollRows, WellPhased
<1>2. Guaranteed(Reconciler, pc[Reconciler], arg[Reconciler])
    BY <1>1, Facts, ThreadNames, NoRowNoRecord DEF Expire, Guaranteed, Moved,
       StateOK, LocksWell, UsesWell, CollWell, DocsWell, TableWell, Writes, Uses
<1>. QED BY <1>2, GuaranteedKeeps, ThreadNames

LEMMA CleanupKeeps ==
    ASSUME IInv, NEW p \in Threads, pc[p] = "idle", Free, coll # NoRow, Cleanup(p), calls' \in Nat
    PROVE  IInv'
<1>. DEFINE s == IF Marked.phase = "drop_table" THEN "drop" ELSE "catalog"
            a == [coll |-> Marked]
<1>1. /\ Marked \in CollRows /\ Marked.status = "deleting" /\ WellPhased(Marked)
      /\ Marked.phase = "delete_catalog" => Users = {}
      /\ Marked.phase \in {"drop_table", "delete_catalog"}
    BY Facts DEF Marked, StateOK, CollRows, WellPhased
<1>2. Moved(p, s, a) /\ Fits(p, s, a)
    BY <1>1 DEF Cleanup, At, With, Moved, Fits, Places, Cleaning, Holding, Writes, IsCleanup
<1>3. lock' \in {p, Nobody} /\ (s = "catalog" => lock' = p)
    BY DEF Cleanup, Waiting
<1>4. Guaranteed(p, s, a)
    BY <1>1, <1>2, <1>3, Facts, NoRowNoRecord DEF Cleanup, Free, Guaranteed, StateOK,
       LocksWell, UsesWell, CollWell, DocsWell, TableWell, Holding, Writes, Uses
<1>. QED BY <1>4, GuaranteedKeeps

LEMMA BeginWriteKeeps ==
    ASSUME IInv, NEW p \in Clients, NEW d \in Docs, NEW op \in {"append", "replace"},
           NEW v \in Versions, BeginWrite(p, d, op, v)
    PROVE  IInv'
<1>. DEFINE a == [doc |-> d, ver |-> v, op |-> op]
<1>1. Marker(docs[d], op, v) \in DocRows
    BY Facts, ThreadNames DEF Marker, StateOK, DocRows, Recs
<1>0. StateOK
    BY DEF IInv
<1>2. docs' \in [Docs -> DocRows \cup {NoRow}] /\ calls' \in Nat
    <2>1. calls' \in Nat
        <3>1. Call(p)
            BY DEF BeginWrite
        <3>. QED BY <1>0, <3>1 DEF Call, StateOK
    <2>2. docs' = [docs EXCEPT ![d] = Marker(docs[d], op, v)]
        BY DEF BeginWrite
    <2>. QED BY <1>0, <1>1, <2>1, <2>2 DEF StateOK
<1>3. Moved(p, "io", a) /\ Fits(p, "io", a)
    BY DEF BeginWrite, At, With, Moved, Fits, Places, Cleaning, Holding, Writes, IsWrite
<1>4. Guaranteed(p, "io", a)
    BY <1>2, <1>3, Facts, ThreadNames DEF BeginWrite, Free, Open, Guaranteed, StateOK,
       LocksWell, UsesWell, CollWell, DocsWell, TableWell, Holding, Writes, Uses
<1>. QED BY <1>4, GuaranteedKeeps, ThreadNames

LEMMA BeginQueryKeeps ==
    ASSUME IInv, NEW p \in Clients, BeginQuery(p) PROVE IInv'
<1>. DEFINE a == [hidden |-> {d \in Docs : Uncommitted(docs[d])}]
<1>1. calls' \in Nat
    BY Facts, ThreadNames DEF BeginQuery, Call, StateOK
<1>2. Guaranteed(p, "read", a)
    BY <1>1, Facts, ThreadNames DEF BeginQuery, durable, Free, Open, At, With, Guaranteed, Moved, Fits,
       StateOK, LocksWell, UsesWell, CollWell, DocsWell, TableWell, Places, Cleaning, Holding, Writes, Uses
<1>. QED BY <1>2, GuaranteedKeeps, ThreadNames

LEMMA EndQueryKeeps ==
    ASSUME IInv, NEW p \in Clients, EndQuery(p) PROVE IInv'
<1>1. Guaranteed(p, "idle", None)
    BY Facts, ThreadNames DEF EndQuery, durable, At, With, Guaranteed, Moved, Fits,
       StateOK, LocksWell, UsesWell, CollWell, DocsWell, TableWell, Places, Cleaning, Holding, Writes, Uses
<1>. QED BY <1>1, GuaranteedKeeps, ThreadNames

LEMMA WriteChunksKeeps ==
    ASSUME IInv, NEW p \in Clients, WriteChunks(p) PROVE IInv'
<1>1. IsWrite(arg[p]) /\ p \in Writing
    BY Facts, ThreadNames DEF WriteChunks, Fits, Writes
<1>2. table' \in Tables /\ Has(table', arg[p])
    BY <1>1, Facts, ThreadNames, NoRowNoRecord
       DEF WriteChunks, IsWrite, StateOK, Tables, NoChunks, Merged, Has
<1>3. Guaranteed(p, "commit", arg[p])
    BY <1>1, <1>2, Facts, ThreadNames, NoRowNoRecord DEF WriteChunks, At, Guaranteed, Moved, Fits,
       StateOK, LocksWell, UsesWell, CollWell, DocsWell, TableWell, Places, Cleaning, Holding, Writes, Uses
<1>. QED BY <1>3, GuaranteedKeeps, ThreadNames

LEMMA CommitRowKeeps ==
    ASSUME IInv, NEW p \in Clients, CommitRow(p) PROVE IInv'
<1>1. /\ IsWrite(arg[p]) /\ p \in Writing /\ p \in Users /\ coll # NoRow
    BY Facts, ThreadNames DEF CommitRow, Fits, Writes, Uses
<1>2. Completed(arg[p].ver, Refreshing) \in DocRows
    BY <1>1 DEF Completed, IsWrite, DocRows, Recs
<1>3. docs' \in [Docs -> DocRows \cup {NoRow}] /\ docs'[arg[p].doc] # NoRow
    BY <1>1, <1>2, Facts, ThreadNames, NoRowNoRecord DEF CommitRow, IsWrite, StateOK
<1>4. Guaranteed(p, "refresh", arg[p])
    BY <1>1, <1>3, Facts, ThreadNames DEF CommitRow, Free, At, Guaranteed, Moved, Fits, IsWrite,
       StateOK, LocksWell, UsesWell, CollWell, DocsWell, TableWell, Places, Cleaning, Holding, Writes, Uses
<1>. QED BY <1>4, GuaranteedKeeps, ThreadNames

LEMMA WriteFailsKeeps ==
    ASSUME IInv, NEW p \in Clients, WriteFails(p) PROVE IInv'
<1>1. Guaranteed(p, "idle", None)
    BY Facts, ThreadNames DEF WriteFails, durable, At, With, Guaranteed, Moved, Fits,
       StateOK, LocksWell, UsesWell, CollWell, DocsWell, TableWell, Places, Cleaning, Holding, Writes, Uses
<1>. QED BY <1>1, GuaranteedKeeps, ThreadNames

LEMMA DeleteDocumentKeeps ==
    ASSUME IInv, NEW p \in Clients, NEW d \in Docs, DeleteDocument(p, d) PROVE IInv'
<1>. DEFINE s == IF table = NoTable THEN "row" ELSE "chunks"
            a == [doc |-> d, row |-> Deleting(docs[d])]
<1>0. docs[d] \in DocRows
    BY Facts, ThreadNames DEF DeleteDocument, StateOK
<1>1. Deleting(docs[d]) \in DocRows /\ Deleting(docs[d]).rec = "deleting_chunks"
    BY <1>0 DEF Deleting, DocRows, Recs
<1>2. /\ docs' \in [Docs -> DocRows \cup {NoRow}] /\ calls' \in Nat
      /\ \A e \in Docs : docs'[e] = docs[e] \/ docs'[e].rec = "deleting_chunks"
    BY <1>1, Facts, ThreadNames DEF DeleteDocument, Call, StateOK
<1>3. Moved(p, s, a) /\ Fits(p, s, a)
    BY <1>1 DEF DeleteDocument, At, With, Moved, Fits, Places, Cleaning, Holding, Writes, IsDeletion
<1>4. lock' \in {p, Nobody} /\ (s = "row" => lock' = p)
    BY DEF DeleteDocument, Waiting
<1>5. Guaranteed(p, s, a)
    BY <1>2, <1>3, <1>4, Facts, ThreadNames DEF DeleteDocument, Free, Guaranteed, StateOK,
       LocksWell, UsesWell, CollWell, DocsWell, TableWell, Holding, Writes, Uses
<1>. QED BY <1>5, GuaranteedKeeps, ThreadNames

-----------------------------------------------------------------------------
(* The reconciler.                                                          *)

LEMMA ReconcileDocumentKeeps ==
    ASSUME IInv, NEW d \in Docs, ReconcileDocument(d) PROVE IInv'
<1>1. Guaranteed(Reconciler, "recover", [doc |-> d])
    BY Facts, ThreadNames DEF ReconcileDocument, durable, Free, Waiting, At, With, Guaranteed, Moved, Fits,
       StateOK, LocksWell, UsesWell, CollWell, DocsWell, TableWell, Places, Cleaning, Holding, Writes, Uses
<1>. QED BY <1>1, GuaranteedKeeps, ThreadNames

LEMMA NothingToRecoverKeeps ==
    ASSUME IInv, NEW d \in Docs, NothingToRecover(d) PROVE IInv'
<1>1. Guaranteed(Reconciler, "idle", None)
    BY Facts, ThreadNames DEF NothingToRecover, Recovering, Proceeds, durable, Done, At, With, Guaranteed,
       Moved, Fits, StateOK, LocksWell, UsesWell, CollWell, DocsWell, TableWell, Places, Cleaning, Holding,
       Writes, Uses
<1>. QED BY <1>1, GuaranteedKeeps, ThreadNames

LEMMA RollForwardKeeps ==
    ASSUME IInv, NEW d \in Docs, RollForward(d) PROVE IInv'
<1>1. docs[d] \in DocRows /\ docs[d].pend \in Versions /\ coll # NoRow
    BY Facts, ThreadNames DEF RollForward, Interrupted, Rec, PendingChunks, StateOK, DocRows
<1>2. Completed(docs[d].pend, Refreshing) \in DocRows
    BY <1>1 DEF Completed, DocRows, Recs
<1>3. docs' \in [Docs -> DocRows \cup {NoRow}] /\ docs'[d] # NoRow
    BY <1>2, Facts, ThreadNames, NoRowNoRecord DEF RollForward, StateOK
<1>4. Guaranteed(Reconciler, "refresh", arg[Reconciler])
    BY <1>1, <1>3, Facts, ThreadNames DEF RollForward, Recovering, Proceeds, At, Guaranteed,
       Moved, Fits, StateOK, LocksWell, UsesWell, CollWell, DocsWell, TableWell, Places, Cleaning, Holding,
       Writes, Uses
<1>. QED BY <1>4, GuaranteedKeeps, ThreadNames

LEMMA RollBackKeeps ==
    ASSUME IInv, NEW d \in Docs, RollBack(d) PROVE IInv'
<1>1. docs[d] \in DocRows /\ coll # NoRow
    BY Facts, ThreadNames DEF RollBack, Interrupted, Rec, StateOK
<1>2. Completed(docs[d].cur, "") \in DocRows
    BY <1>1 DEF Completed, DocRows, Recs
<1>3. docs' \in [Docs -> DocRows \cup {NoRow}]
    BY <1>2, Facts, ThreadNames DEF RollBack, StateOK
<1>4. Guaranteed(Reconciler, "idle", None)
    BY <1>1, <1>3, Facts, ThreadNames DEF RollBack, Recovering, Proceeds, Done, At, With, Guaranteed,
       Moved, Fits, StateOK, LocksWell, UsesWell, CollWell, DocsWell, TableWell, Places, Cleaning, Holding,
       Writes, Uses
<1>. QED BY <1>4, GuaranteedKeeps, ThreadNames

LEMMA ResumeRefreshKeeps ==
    ASSUME IInv, NEW d \in Docs, ResumeRefresh(d) PROVE IInv'
<1>1. docs[d] # NoRow /\ coll # NoRow
    BY Facts, ThreadNames DEF ResumeRefresh, Rec, Refreshing
<1>2. Guaranteed(Reconciler, "refresh", arg[Reconciler])
    BY <1>1, Facts, ThreadNames DEF ResumeRefresh, durable, Recovering, Proceeds, At, Guaranteed,
       Moved, Fits, StateOK, LocksWell, UsesWell, CollWell, DocsWell, TableWell, Places, Cleaning, Holding,
       Writes, Uses
<1>. QED BY <1>2, GuaranteedKeeps, ThreadNames

LEMMA ResumeDeletionKeeps ==
    ASSUME IInv, NEW d \in Docs, ResumeDeletion(d) PROVE IInv'
<1>. DEFINE s == IF table = NoTable THEN "row" ELSE "chunks"
            a == [doc |-> d, row |-> docs[d]]
<1>1. IsDeletion(a)
    BY Facts, ThreadNames DEF ResumeDeletion, Rec, StateOK, IsDeletion
<1>2. Moved(Reconciler, s, a) /\ Fits(Reconciler, s, a)
    BY <1>1, ThreadNames DEF ResumeDeletion, At, With, Moved, Fits, Places, Cleaning, Holding, Writes
<1>3. Guaranteed(Reconciler, s, a)
    BY <1>2, Facts, ThreadNames DEF ResumeDeletion, durable, Recovering, Proceeds, Guaranteed,
       StateOK, LocksWell, UsesWell, CollWell, DocsWell, TableWell, Holding, Writes, Uses
<1>. QED BY <1>3, GuaranteedKeeps, ThreadNames

LEMMA RefreshFailsKeeps ==
    ASSUME IInv, RefreshFails PROVE IInv'
<1>1. Guaranteed(Reconciler, "idle", None)
    BY Facts, ThreadNames DEF RefreshFails, durable, Done, At, With, Guaranteed,
       Moved, Fits, StateOK, LocksWell, UsesWell, CollWell, DocsWell, TableWell, Places, Cleaning, Holding,
       Writes, Uses
<1>. QED BY <1>1, GuaranteedKeeps, ThreadNames

\* A crash leaves what is durable, and nobody in the middle of anything.
LEMMA CrashKeeps ==
    ASSUME IInv, Crash PROVE IInv'
<1>1. StateOK /\ PhaseInv /\ OrphansAreDeletions
    BY DEF IInv
<1>2. UNCHANGED <<coll, docs, table, calls>> /\ lock' = Nobody /\ \A p \in Threads : pc'[p] = "idle"
    BY DEF Crash, durable
<1>3. Users' = {} /\ Writing' = {}
    BY <1>2, ThreadNames DEF Users, Writing
<1>4. ThreadsOK'
    BY DEF Crash, ThreadsOK, Fits, Places, Writes, Cleaning
<1>5. StateOK' /\ LockInv' /\ RowsInv' /\ OrphansAreDeletions'
    BY <1>1, <1>2 DEF StateOK, LockInv, RowsInv, OrphansAreDeletions, Holding
<1>6. PhaseInv' /\ UserInv' /\ WriterInv' /\ InUseIsUntouched'
    BY <1>1, <1>2, <1>3 DEF PhaseInv, UserInv, WriterInv, InUseIsUntouched
<1>. QED BY <1>4, <1>5, <1>6 DEF IInv

LEMMA StutterKeeps ==
    ASSUME IInv, UNCHANGED vars PROVE IInv'
BY DEF IInv, vars, durable, history, StateOK, ThreadsOK, LockInv, WriterInv, PhaseInv, UserInv, RowsInv,
       OrphansAreDeletions, InUseIsUntouched, Users, Writing, Chunks

LEMMA ClientCallKeeps ==
    ASSUME IInv, NEW p \in Clients, ClientCall(p) PROVE IInv'
<1>1. CASE DeleteCollection(p)
    <2>1. calls' \in Nat
        BY <1>1, Facts, ThreadNames DEF DeleteCollection, Call, StateOK
    <2>. QED BY <1>1, <2>1, CleanupKeeps, ThreadNames DEF DeleteCollection, Call
<1>. QED BY <1>1, CreateCollectionKeeps, BeginQueryKeeps, DeleteDocumentKeeps, BeginWriteKeeps DEF ClientCall

LEMMA ProgressKeeps ==
    ASSUME IInv, NEW p \in Threads, Progress(p) PROVE IInv'
<1>1. CASE CollectionStep(p)
    BY <1>1, DropTableKeeps, RecordDropKeeps, DeleteDocumentRowsKeeps, DeleteCollectionRowKeeps
       DEF CollectionStep
<1>2. CASE DocumentStep(p)
    BY <1>2, RefreshActivityKeeps, SettleKeeps, DeleteChunksKeeps, TableHasGoneKeeps, DeleteRowKeeps
       DEF DocumentStep
<1>3. CASE p \in Clients /\ ClientStep(p)
    BY <1>3, WriteChunksKeeps, CommitRowKeeps, EndQueryKeeps DEF ClientStep
<1>. QED BY <1>1, <1>2, <1>3 DEF Progress

LEMMA ReconcileKeeps ==
    ASSUME IInv, Reconcile PROVE IInv'
<1>1. CASE RetireCollection
    <2>1. calls' \in Nat
        BY <1>1, Facts, ThreadNames DEF RetireCollection, StateOK
    <2>. QED BY <1>1, <2>1, CleanupKeeps, ThreadNames DEF RetireCollection
<1>. QED BY <1>1, ReconcileDocumentKeeps, NothingToRecoverKeeps, RollForwardKeeps, RollBackKeeps,
            ResumeRefreshKeeps, ResumeDeletionKeeps DEF Reconcile

LEMMA FailureKeeps ==
    ASSUME IInv, Failure PROVE IInv'
BY CleanupFailsKeeps, DeletionFailsKeeps, WriteFailsKeeps, RefreshFailsKeeps, CrashKeeps DEF Failure

-----------------------------------------------------------------------------

LEMMA StepKeeps == IInv /\ [Next]_vars => IInv'
<1>. SUFFICES ASSUME IInv, [Next]_vars PROVE IInv'
    OBVIOUS
<1>1. CASE Next
    BY <1>1, ClientCallKeeps, ProgressKeeps, ReconcileKeeps, FailureKeeps, ExpireKeeps, StutterKeeps
       DEF Next, Rest
<1>. QED BY <1>1, StutterKeeps

\* Table-user leases hold for any number of calls, crashes and failures: no
\* query loses the table it reads, no write the chunks it has merged
\* (_acquire_table_user_locked, _wait_for_table_users_locked).
THEOREM TablesInUse == Spec => []InUseIsUntouched
<1>1. IInv => InUseIsUntouched
    BY DEF IInv
<1>. QED BY <1>1, InitInv, StepKeeps, PTL DEF Spec

\* A document that outlives its collection in the catalog is an interrupted
\* deletion, whatever crashes and failures came before
\* (_reconcile_document_row_locked, delete_document).
THEOREM OrphansOnlyDeletions == Spec => []OrphansAreDeletions
<1>1. IInv => OrphansAreDeletions
    BY DEF IInv
<1>. QED BY <1>1, InitInv, StepKeeps, PTL DEF Spec

-----------------------------------------------------------------------------
(* What the history adds: the account of each document.                     *)

\* Nobody has lost track of the collection, and it is not on its way out.
Tracked == ~stale /\ (coll = NoRow \/ coll.status = "active")

\* The row of d, its chunks and what it may be agree, as far as the recovery
\* marker says; of an interrupted deletion nothing is known but that it was asked for.
Sound(d) ==
    LET row == docs[d]  asked == Versions \cap may[d] IN
    IF row = NoRow THEN Chunks(d) = {} /\ Gone \in may[d]
    ELSE /\ row.rec \in {"", Refreshing} =>
              row.cur \in asked /\ row.pend = None /\ Chunks(d) = {row.cur}
         /\ row.rec = "appending" =>
              /\ row.pend \in asked /\ Chunks(d) \subseteq {row.pend}
              /\ \/ row.cur = None /\ Gone \in may[d]
                 \/ row.cur = row.pend /\ Chunks(d) = {row.pend}
         /\ row.rec = "replacing" =>
              row.cur \in asked /\ row.pend \in asked /\ Chunks(d) \in {{row.cur}, {row.pend}}

\* A write under way still finds its marker, or that of a deletion that waits for it.
OnTrack(a) ==
    /\ Rec(a.doc) \in {"appending", "replacing", "deleting_chunks"}
    /\ Rec(a.doc) = "appending" => a.op = "append" /\ docs[a.doc].pend = a.ver
    /\ Rec(a.doc) = "replacing" => a.op = "replace" /\ docs[a.doc].pend = a.ver
    /\ a.op = "append" => Chunks(a.doc) \subseteq {a.ver}

\* A deletion that has come to the row has nobody to fear.
Last(a) == Rec(a.doc) = "deleting_chunks" /\ Chunks(a.doc) = {} /\ WritersOf(a.doc) = {}

\* What thread p, at s with the locals a, relies on.
Relies(p, s, a) ==
    /\ s \in Cleaning => a.coll.made < calls
    /\ s = "drop" /\ coll # NoRow /\ coll.made = a.coll.made => coll.status = "deleting"
    /\ s \in {"dropped", "catalog", "last"} => table = NoTable
    /\ s \in {"catalog", "last"} => coll # NoRow /\ coll.status = "deleting"
    /\ s \in {"chunks", "row"} => Gone \in may[a.doc]
    /\ s = "chunks" /\ p = Reconciler => lock = p
    /\ Writes(p, s) => a.op \in {"append", "replace"} /\ a.ver \in may[a.doc]
    /\ s \in {"refresh", "settle"} => Rec(a.doc) = Refreshing /\ (p \in Clients => docs[a.doc].cur = a.ver)
    /\ s = "commit" /\ a.op = "replace" => Chunks(a.doc) = {a.ver}
    /\ s \in {"io", "commit"} /\ Tracked /\ a.doc \notin tangled => OnTrack(a)
    /\ s = "row" /\ Tracked /\ a.doc \notin tangled => Last(a)

HistoryOK == may \in [Docs -> SUBSET (Versions \cup {Gone})] /\ tangled \subseteq Docs /\ stale \in BOOLEAN

\* A collection whose table was dropped, or that is gone, has no table.
TableInv ==
    /\ coll = NoRow \/ coll.phase = "delete_catalog" => table = NoTable
    /\ coll # NoRow => coll.made < calls

DocInv(d) ==
    /\ Rec(d) = "deleting_chunks" => Gone \in may[d]
    /\ Tracked /\ d \notin tangled => Sound(d)

Relying == \A p \in Threads : \A s \in {pc[p]}, a \in {arg[p]} : Relies(p, s, a)

HInv ==
    /\ HistoryOK /\ TableInv /\ Relying
    /\ \A d \in Docs : DocInv(d)

LEMMA InitHistory == Init => HInv
<1>. SUFFICES ASSUME Init PROVE HInv
    OBVIOUS
<1>1. HistoryOK /\ TableInv
    BY DEF Init, HistoryOK, TableInv
<1>2. ASSUME NEW d \in Docs PROVE DocInv(d)
    BY DEF Init, DocInv, Rec, Sound, Chunks
<1>3. Relying
    BY DEF Init, Relying, Relies, Cleaning, Writes
<1>. QED BY <1>1, <1>2, <1>3 DEF HInv

\* The mover keeps what it relies on, and the others do.
LEMMA MoveKeeps ==
    ASSUME IInv, NEW p \in Threads, NEW s, NEW a, Moved(p, s, a),
           HistoryOK', TableInv', \A d \in Docs : DocInv(d)',
           Relies(p, s, a)',
           \A q \in Threads : \A t, b : q # p /\ t = pc[q] /\ b = arg[q] => Relies(q, t, b)'
    PROVE  HInv'
<1>1. /\ pc'[p] = s /\ arg'[p] = a
      /\ \A q \in Threads : q # p => pc'[q] = pc[q] /\ arg'[q] = arg[q]
    BY DEF IInv, ThreadsOK, Moved
<1>2. Relying'
    BY <1>1 DEF Relying
<1>. QED BY <1>2 DEF HInv

\* What may become of the collection's row when no more than that changes.
CollMoves(p) ==
    \/ coll' = coll
    \/ coll # NoRow /\ coll' # NoRow /\ coll'.made = coll.made /\ coll'.status = coll.status
       /\ coll'.phase = coll.phase
    \/ /\ coll' # NoRow /\ coll'.status = "deleting" /\ coll'.made < calls
       /\ coll'.phase = "delete_catalog" => table = NoTable
    \/ coll = NoRow /\ coll' # NoRow /\ coll'.made = calls /\ calls' = calls + 1
       /\ coll'.phase # "delete_catalog"

LEMMA MadeWhen == \A c \in CollRows : c.made \in Nat
BY DEF CollRows

LEMMA Numbers ==
    /\ StateOK => calls \in Nat
    /\ StateOK /\ coll # NoRow => coll.made \in Nat
    /\ \A b : IsCleanup(b) => b.coll.made \in Nat
BY MadeWhen DEF StateOK, IsCleanup

LEMMA StillKeeps ==
    ASSUME IInv, IInv', HInv, NEW p \in Threads, NEW s, NEW a, Moved(p, s, a),
           UNCHANGED <<docs, table, history>>, calls' \in Nat, calls' >= calls,
           lock' = lock \/ lock \in {Nobody, p}, CollMoves(p),
           Writes(p, s) => p \in Writing /\ a = arg[p],
           Relies(p, s, a)'
    PROVE  HInv'
<1>1. /\ HistoryOK /\ TableInv /\ Relying /\ \A d \in Docs : DocInv(d)
      /\ StateOK /\ ThreadsOK /\ LockInv
    BY DEF HInv, IInv
<1>2. UNCHANGED <<may, tangled, stale>>
    BY DEF history
<1>3. HistoryOK'
    BY <1>1, <1>2 DEF HistoryOK
<1>4. TableInv'
    <2>1. coll' = NoRow \/ coll'.phase = "delete_catalog" => table' = NoTable
        BY <1>1 DEF TableInv, CollMoves
    <2>2. calls \in Nat /\ (coll # NoRow => coll.made \in Nat /\ coll.made < calls)
        BY <1>1, Numbers DEF TableInv
    <2>3. coll' # NoRow => coll'.made < calls'
        <3>. SUFFICES ASSUME coll' # NoRow PROVE coll'.made < calls'
            OBVIOUS
        <3>1. CASE coll' # NoRow /\ coll # NoRow /\ coll'.made = coll.made
            BY <2>2, <3>1
        <3>2. CASE coll'.made < calls
            <4>1. coll'.made \in Nat
                BY MadeWhen DEF IInv, StateOK
            <4>. QED BY <2>2, <3>2, <4>1
        <3>3. CASE coll'.made = calls /\ calls' = calls + 1
            BY <2>2, <3>3
        <3>. QED BY <3>1, <3>2, <3>3 DEF CollMoves
    <2>. QED BY <2>1, <2>3 DEF TableInv
<1>5. Tracked' => Tracked
    BY <1>1, <1>2 DEF CollMoves, Tracked
<1>6. ASSUME NEW d \in Docs PROVE DocInv(d)'
    BY <1>1, <1>2, <1>5 DEF DocInv, Rec, Sound, Chunks
<1>7. /\ pc'[p] = s /\ arg'[p] = a
      /\ \A q \in Threads : q # p => pc'[q] = pc[q] /\ arg'[q] = arg[q]
    BY <1>1 DEF ThreadsOK, Moved
<1>8. \A w \in Writing' : w \in Writing /\ arg'[w] = arg[w]
    BY <1>7, ThreadNames DEF Writing, Writes
<1>9. ASSUME NEW q \in Threads, NEW t, NEW b, q # p, t = pc[q], b = arg[q] PROVE Relies(q, t, b)'
    <2>1. Relies(q, t, b) /\ Fits(q, t, b)
        BY <1>1, <1>9 DEF Relying, ThreadsOK
    <2>2. OnTrack(b) => OnTrack(b)'
        BY DEF OnTrack, Rec, Chunks
    <2>3. Last(b) => Last(b)'
        BY <1>8 DEF Last, Rec, Chunks, WritersOf
    <2>4. t = "drop" /\ coll' # NoRow /\ coll'.made = b.coll.made => coll'.status = "deleting"
        <3>. SUFFICES ASSUME t = "drop", coll' # NoRow, coll'.made = b.coll.made PROVE coll'.status = "deleting"
            OBVIOUS
        <3>1. b.coll.made < calls /\ b.coll.made \in Nat /\ calls \in Nat
            BY <1>1, <2>1, Numbers DEF Relies, Cleaning, Fits
        <3>2. coll # NoRow /\ coll.made = b.coll.made => coll.status = "deleting"
            BY <2>1 DEF Relies
        <3>. QED BY <3>1, <3>2 DEF CollMoves
    <2>5. t \in Cleaning => b.coll.made < calls'
        BY <1>1, <2>1, Numbers DEF Relies, Fits
    <2>6. t \in {"catalog", "last"} => coll' # NoRow /\ coll'.status = "deleting"
        BY <2>1 DEF Relies, CollMoves
    <2>7. t = "chunks" /\ q = Reconciler => lock' = q
        BY <1>9, <2>1, ThreadNames DEF Relies
    <2>8. t \in {"dropped", "catalog", "last"} => table' = NoTable
        BY <2>1 DEF Relies
    <2>9. t \in {"refresh", "settle"} => Rec(b.doc)' = Refreshing /\ (q \in Clients => docs'[b.doc].cur = b.ver)
        BY <2>1 DEF Relies, Rec
    <2>10. t = "commit" /\ b.op = "replace" => Chunks(b.doc)' = {b.ver}
        BY <2>1 DEF Relies, Chunks
    <2>. QED BY <1>2, <1>5, <2>1, <2>2, <2>3, <2>4, <2>5, <2>6, <2>7, <2>8, <2>9, <2>10 DEF Relies
<1>. QED BY <1>3, <1>4, <1>6, <1>9, MoveKeeps

-----------------------------------------------------------------------------
(* Steps about one document.                                               *)

OnDoc == {"chunks", "row", "io", "commit", "refresh", "settle"}

\* Whoever meets another thread's free lock finds it writing, or waiting to delete.
LEMMA OthersWithoutLock ==
    ASSUME IInv, HInv, NEW p \in Threads, NEW q \in Threads, q # p, lock \in {Nobody, p}
    PROVE  /\ pc[q] \notin Holding
           /\ pc[q] \in OnDoc =>
                (pc[q] = "chunks" /\ q \in Clients) \/ (pc[q] \in {"io", "commit"} /\ q \in Writing)
           /\ q \in Writing => q \in Users
<1>1. ThreadsOK /\ LockInv /\ Relying
    BY DEF IInv, HInv
<1>2. lock # q
    BY ThreadNames
<1>3. pc[q] \notin Holding
    BY <1>1, <1>2 DEF LockInv
<1>4. Relies(q, pc[q], arg[q]) /\ Fits(q, pc[q], arg[q])
    BY <1>1 DEF Relying, ThreadsOK
<1>5. pc[q] = "chunks" => q \in Clients
    BY <1>2, <1>4 DEF Relies, Threads
<1>6. pc[q] \in {"io", "commit"} => q \in Writing
    BY <1>4 DEF Fits, Writing
<1>7. q \in Writing => q \in Users
    BY DEF Writing, Users
<1>8. pc[q] \in OnDoc => pc[q] = "chunks" \/ pc[q] \in {"io", "commit"}
    BY <1>3 DEF OnDoc, Holding
<1>. QED BY <1>3, <1>5, <1>6, <1>7, <1>8

\* Whoever is about a document has one.
LEMMA AboutDocs ==
    ASSUME IInv, NEW q \in Threads, pc[q] \in OnDoc PROVE arg[q].doc \in Docs
<1>1. Fits(q, pc[q], arg[q])
    BY DEF IInv, ThreadsOK
<1>. QED BY <1>1 DEF Fits, OnDoc, Writes, IsWrite, IsDeletion

LEMMA OneDoc ==
    ASSUME IInv, IInv', HInv, NEW p \in Threads, NEW s, NEW a, Moved(p, s, a), NEW x \in Docs,
           UNCHANGED <<coll, stale>>, calls' \in Nat, calls' >= calls,
           lock' = lock \/ lock \in {Nobody, p}, HistoryOK',
           \A e \in Docs : e # x => /\ docs'[e] = docs[e] /\ Chunks(e)' = Chunks(e)
                                    /\ may'[e] = may[e] /\ (e \in tangled' <=> e \in tangled),
           table = NoTable => table' = NoTable \/ p \in Writing,
           Writes(p, s) => a.doc = x,
           DocInv(x)', Relies(p, s, a)',
           \A q \in Threads : \A t, b :
               q # p /\ t = pc[q] /\ b = arg[q] /\ t \in OnDoc /\ b.doc = x => Relies(q, t, b)'
    PROVE  HInv'
<1>1. /\ HistoryOK /\ TableInv /\ Relying /\ \A d \in Docs : DocInv(d)
      /\ StateOK /\ ThreadsOK /\ LockInv /\ PhaseInv /\ UserInv
    BY DEF HInv, IInv
<1>2. Tracked' = Tracked
    BY DEF Tracked
<1>3. p \in Writing => Users # {} /\ p \in Users
    BY DEF Writing, Users
<1>4. TableInv'
    <2>1. coll = NoRow \/ coll.phase = "delete_catalog" => table' = NoTable
        <3>1. coll # NoRow /\ coll.phase = "delete_catalog" => Users = {}
            BY <1>1 DEF PhaseInv
        <3>2. Users # {} => coll # NoRow
            BY <1>1 DEF UserInv
        <3>. QED BY <1>1, <1>3, <3>1, <3>2 DEF TableInv
    <2>2. coll # NoRow => coll.made < calls'
        BY <1>1, Numbers DEF TableInv
    <2>. QED BY <2>1, <2>2 DEF TableInv
<1>5. ASSUME NEW d \in Docs PROVE DocInv(d)'
    <2>1. CASE d = x
        BY <2>1
    <2>2. CASE d # x
        BY <1>1, <1>2, <2>2 DEF DocInv, Rec, Sound
    <2>. QED BY <2>1, <2>2
<1>7. /\ pc'[p] = s /\ arg'[p] = a
      /\ \A q \in Threads : q # p => pc'[q] = pc[q] /\ arg'[q] = arg[q]
    BY <1>1 DEF ThreadsOK, Moved
<1>8. \A w \in Writing' : arg'[w].doc # x => w \in Writing /\ arg'[w] = arg[w]
    BY <1>7, ThreadNames DEF Writing, Writes
<1>9. ASSUME NEW q \in Threads, NEW t, NEW b, q # p, t = pc[q], b = arg[q] PROVE Relies(q, t, b)'
    <2>1. Relies(q, t, b) /\ Fits(q, t, b)
        BY <1>1, <1>9 DEF Relying, ThreadsOK
    <2>2. CASE t \in OnDoc /\ b.doc = x
        BY <1>9, <2>2
    <2>3. CASE t \notin OnDoc
        <3>1. t \in Cleaning => b.coll.made < calls'
            BY <1>1, <2>1, Numbers DEF Relies, Fits
        <3>2. t \in {"dropped", "catalog", "last"} => table' = NoTable
            BY <1>1, <1>3, <1>9, <2>1 DEF Relies, UserInv
        <3>. QED BY <2>1, <2>3, <3>1, <3>2 DEF Relies, OnDoc, Writes
    <2>4. CASE t \in OnDoc /\ b.doc # x
        <3>1. b.doc \in Docs
            BY <1>9, <2>4, AboutDocs
        <3>2. /\ docs'[b.doc] = docs[b.doc] /\ Chunks(b.doc)' = Chunks(b.doc)
              /\ may'[b.doc] = may[b.doc] /\ (b.doc \in tangled' <=> b.doc \in tangled)
            BY <2>4, <3>1
        <3>3. OnTrack(b) => OnTrack(b)'
            BY <3>2 DEF OnTrack, Rec
        <3>4. Last(b) => Last(b)'
            BY <1>8, <2>4, <3>2 DEF Last, Rec, WritersOf
        <3>5. t = "chunks" /\ q = Reconciler => lock' = q
            BY <1>9, <2>1, ThreadNames DEF Relies
        <3>6. t \in {"refresh", "settle"} => Rec(b.doc)' = Refreshing /\ (q \in Clients => docs'[b.doc].cur = b.ver)
            BY <2>1, <3>2 DEF Relies, Rec
        <3>. QED BY <1>2, <2>1, <2>4, <3>2, <3>3, <3>4, <3>5, <3>6 DEF Relies, OnDoc, Cleaning
    <2>. QED BY <2>2, <2>3, <2>4
<1>. QED BY <1>4, <1>5, <1>9, MoveKeeps

LEMMA BeginWriteTells ==
    ASSUME IInv, IInv', HInv, NEW p \in Clients, NEW d \in Docs, NEW op \in {"append", "replace"},
           NEW v \in Versions, BeginWrite(p, d, op, v)
    PROVE  HInv'
<1>. DEFINE a == [doc |-> d, ver |-> v, op |-> op]
<1>1. /\ HistoryOK /\ StateOK /\ DocInv(d) /\ p \in Threads /\ Fits(p, pc[p], arg[p])
      /\ d \in DOMAIN may /\ d \in DOMAIN docs
    BY ThreadNames DEF HInv, IInv, ThreadsOK, HistoryOK, StateOK
<1>2. /\ docs' = [docs EXCEPT ![d] = Marker(docs[d], op, v)]
      /\ may' = [may EXCEPT ![d] = may[d] \cup {v}]
      /\ UNCHANGED <<coll, table, lock, stale>> /\ lock = Nobody /\ Writing = {}
      /\ Moved(p, "io", a) /\ Accepts(docs[d], op, v)
      /\ tangled' = IF op = "replace" /\ Rec(d) \notin {"", Refreshing} THEN tangled \cup {d} ELSE tangled
    BY DEF BeginWrite, Free, At, With, Moved
<1>3. calls' \in Nat /\ calls' >= calls
    <2>1. calls \in Nat /\ calls' = calls + 1
        BY <1>1, Numbers DEF BeginWrite, Call
    <2>. QED BY <2>1
<1>4. HistoryOK'
    BY <1>1, <1>2 DEF HistoryOK
<1>5. /\ docs'[d] = Marker(docs[d], op, v) /\ may'[d] = may[d] \cup {v}
      /\ Chunks(d)' = Chunks(d) /\ Tracked' = Tracked
      /\ d \notin tangled' => d \notin tangled /\ (op = "append" \/ Rec(d) \in {"", Refreshing})
    BY <1>1, <1>2 DEF Chunks, Tracked
<1>6. /\ docs'[d] # NoRow /\ docs'[d].pend = v
      /\ docs'[d].rec = IF op = "append" THEN "appending" ELSE "replacing"
      /\ docs'[d].cur = IF docs[d] = NoRow THEN None ELSE docs[d].cur
    <2>1. docs[d] # NoRow => docs[d] \in DocRows
        BY <1>1 DEF StateOK
    <2>2. Marker(docs[d], op, v) \in DocRows
        BY <2>1 DEF Marker, DocRows, Recs
    <2>3. docs'[d] # NoRow
        BY <1>5, <2>2, NoRowNoRecord
    <2>4. docs'[d] = [cur |-> IF docs[d] = NoRow THEN None ELSE docs[d].cur, pend |-> v,
                      rec |-> IF op = "append" THEN "appending" ELSE "replacing"]
        BY <1>5 DEF Marker
    <2>. QED BY <2>3, <2>4
<1>7. ASSUME Tracked, d \notin tangled' PROVE Sound(d)' /\ (op = "append" => Chunks(d) \subseteq {v})
    <2>1. Sound(d)
        BY <1>1, <1>5, <1>7 DEF DocInv
    <2>2. CASE op = "append" /\ docs[d] = NoRow
        BY <1>5, <1>6, <2>1, <2>2 DEF Sound, Refreshing
    <2>3. CASE op = "append" /\ docs[d] # NoRow
        <3>1. docs[d].rec \in {"", "appending"} /\ Known(docs[d]) = {v}
            BY <1>2, <2>3 DEF Accepts
        <3>2. docs[d].rec = "" => docs[d].cur = v /\ Chunks(d) = {v}
            BY <2>1, <2>3, <3>1, CollectionStoreAssumption DEF Sound, Known
        <3>3. docs[d].rec = "appending" => docs[d].pend = v /\ Chunks(d) \subseteq {v}
            BY <2>1, <2>3, <3>1, CollectionStoreAssumption DEF Sound, Known
        <3>. QED BY <1>5, <1>6, <2>1, <2>3, <3>1, <3>2, <3>3 DEF Sound, Refreshing
    <2>4. CASE op = "replace"
        <3>1. docs[d] # NoRow /\ docs[d].rec \in {"", Refreshing}
            BY <1>2, <1>5, <1>7, <2>4 DEF Accepts, Rec
        <3>. QED BY <1>5, <1>6, <2>1, <2>4, <3>1 DEF Sound, Refreshing
    <2>. QED BY <2>2, <2>3, <2>4
<1>8. Rec(d)' = IF op = "append" THEN "appending" ELSE "replacing"
    BY <1>6 DEF Rec
<1>9. DocInv(d)'
    BY <1>5, <1>7, <1>8 DEF DocInv
<1>10. Relies(p, "io", a)'
    <2>1. OnTrack(a)' <=> (op = "append" => Chunks(d) \subseteq {v})
        BY <1>5, <1>6, <1>8 DEF OnTrack
    <2>. QED BY <1>5, <1>7, <2>1 DEF Relies, Cleaning, Writes
<1>11. ASSUME NEW q \in Threads, NEW t, NEW b, q # p, t = pc[q], b = arg[q], t \in OnDoc, b.doc = d
       PROVE  Relies(q, t, b)'
    <2>1. t = "chunks" /\ q \in Clients
        BY <1>1, <1>2, <1>11, OthersWithoutLock
    <2>2. Gone \in may[d]
        BY <1>11, <2>1 DEF HInv, Relying, Relies
    <2>. QED BY <1>5, <1>11, <2>1, <2>2, ThreadNames DEF Relies, Cleaning, Writes
<1>12. \A e \in Docs : e # d => /\ docs'[e] = docs[e] /\ Chunks(e)' = Chunks(e)
                                /\ may'[e] = may[e] /\ (e \in tangled' <=> e \in tangled)
    BY <1>1, <1>2 DEF HistoryOK, StateOK, Chunks
<1>. QED BY <1>1, <1>2, <1>3, <1>4, <1>9, <1>10, <1>11, <1>12, OneDoc

LEMMA HistoryFacts ==
    ASSUME IInv, HInv, NEW p \in Threads
    PROVE  /\ HistoryOK /\ StateOK /\ TableInv /\ calls \in Nat
           /\ Relies(p, pc[p], arg[p]) /\ Fits(p, pc[p], arg[p])
           /\ \A d \in Docs : DocInv(d)
           /\ pc[p] \in Holding => lock = p
           /\ DOMAIN may = Docs /\ DOMAIN docs = Docs
           /\ \A d \in Docs : docs[d] # NoRow => docs[d] \in DocRows
           /\ p \in Writing <=> Writes(p, pc[p])
           /\ pc[p] \in {"commit", "refresh", "settle"} /\ p \in Clients => Has(table, arg[p])
<1>1. /\ HistoryOK /\ StateOK /\ ThreadsOK /\ LockInv /\ Relying /\ TableInv /\ \A d \in Docs : DocInv(d)
    BY DEF IInv, HInv
<1>2. Relies(p, pc[p], arg[p]) /\ Fits(p, pc[p], arg[p]) /\ (pc[p] \in Holding => lock = p)
    BY <1>1 DEF Relying, ThreadsOK, LockInv
<1>3. DOMAIN may = Docs /\ DOMAIN docs = Docs /\ calls \in Nat /\ \A d \in Docs : docs[d] # NoRow => docs[d] \in DocRows
    BY <1>1 DEF HistoryOK, StateOK
<1>. QED BY <1>1, <1>2, <1>3, Facts

LEMMA WriteChunksTells ==
    ASSUME IInv, IInv', HInv, NEW p \in Clients, NEW a, a = arg[p], WriteChunks(p) PROVE HInv'
<1>. DEFINE x == a.doc
<1>0. p \in Threads /\ pc[p] = "io" /\ p \in Writing
    BY ThreadNames DEF WriteChunks, Writing
<1>1. /\ HistoryOK /\ StateOK /\ Relies(p, "io", a) /\ Fits(p, "io", a) /\ DocInv(x) /\ calls \in Nat
      /\ x \in Docs /\ a.ver \in Versions /\ a.op \in {"append", "replace"}
    BY <1>0, HistoryFacts DEF Fits, Writes, IsWrite, Relies
<1>2. /\ UNCHANGED <<coll, docs, lock, calls, may, tangled, stale>> /\ Moved(p, "commit", a)
      /\ table' = IF table = NoTable THEN [NoChunks EXCEPT ![x] = {a.ver}]
                  ELSE [table EXCEPT ![x] = Merged(@, a.op, a.ver)]
    BY <1>0, Facts DEF WriteChunks, history, At, Moved
<1>3. table # NoTable => table \in [Docs -> SUBSET Versions]
    BY <1>1 DEF StateOK, Tables
<1>4. /\ table' # NoTable
      /\ table'[x] = IF table = NoTable THEN {a.ver} ELSE Merged(table[x], a.op, a.ver)
      /\ \A e \in Docs : e # x => table'[e] = IF table = NoTable THEN {} ELSE table[e]
    <2>1. table' \in Tables
        <3>1. CASE table = NoTable
            BY <1>1, <1>2, <3>1 DEF Tables, NoChunks
        <3>2. CASE table # NoTable
            BY <1>1, <1>2, <1>3, <3>2 DEF Tables, Merged
        <3>. QED BY <3>1, <3>2
    <2>2. table' # NoTable
        BY <2>1, NoRowNoRecord
    <2>. QED BY <1>1, <1>2, <1>3, <2>2 DEF NoChunks
<1>5. /\ Chunks(x)' = IF a.op = "replace" THEN {a.ver} ELSE Chunks(x) \cup {a.ver}
      /\ \A e \in Docs : e # x => Chunks(e)' = Chunks(e)
      /\ Tracked' = Tracked /\ Rec(x)' = Rec(x)
    BY <1>1, <1>2, <1>4 DEF Chunks, Merged, Tracked, Rec
<1>6. ASSUME Tracked, x \notin tangled PROVE OnTrack(a)' /\ Sound(x)'
    <2>1. OnTrack(a) /\ Sound(x)
        BY <1>1, <1>6 DEF Relies, DocInv
    <2>2. OnTrack(a)'
        BY <1>2, <1>5, <2>1 DEF OnTrack, Rec
    <2>3. docs[x] # NoRow
        BY <2>1 DEF OnTrack, Rec
    <2>4. a.op = "append" => Chunks(x)' = {a.ver}
        BY <1>5, <2>1 DEF OnTrack
    <2>. QED BY <1>1, <1>2, <1>5, <2>1, <2>2, <2>3, <2>4 DEF Sound, OnTrack, Rec, Refreshing
<1>7. DocInv(x)'
    BY <1>1, <1>2, <1>5, <1>6 DEF DocInv
<1>8. Relies(p, "commit", a)'
    BY <1>1, <1>2, <1>5, <1>6 DEF Relies, Cleaning, Writes
<1>9. ASSUME NEW q \in Threads, NEW t, NEW b, q # p, t = pc[q], b = arg[q], t \in OnDoc, b.doc = x
      PROVE  Relies(q, t, b)'
    <2>1. Relies(q, t, b) /\ q \notin Writing
        BY <1>0, <1>9 DEF HInv, Relying, IInv, WriterInv
    <2>2. ~ Writes(q, t) /\ t \notin {"io", "commit"}
        <3>1. Fits(q, t, b) /\ (q \in Writing <=> Writes(q, t))
            BY <1>9, HistoryFacts
        <3>. QED BY <2>1, <3>1 DEF Fits, Writes
    <2>3. p \in WritersOf(x)
        BY <1>0 DEF WritersOf
    <2>4. ~ Last(b)
        BY <1>9, <2>3 DEF Last
    <2>. QED BY <1>2, <1>5, <1>9, <2>1, <2>2, <2>4 DEF Relies, OnDoc, Cleaning, Rec
<1>. QED BY <1>0, <1>1, <1>2, <1>4, <1>5, <1>7, <1>8, <1>9, OneDoc DEF HistoryOK

LEMMA CommitRowTells ==
    ASSUME IInv, IInv', HInv, NEW p \in Clients, NEW a, a = arg[p], CommitRow(p) PROVE HInv'
<1>. DEFINE x == a.doc
<1>0. p \in Threads /\ pc[p] = "commit" /\ p \in Writing /\ lock = Nobody
    BY ThreadNames DEF CommitRow, Free, Writing
<1>1. /\ HistoryOK /\ StateOK /\ Relies(p, "commit", a) /\ DocInv(x) /\ calls \in Nat
      /\ x \in Docs /\ a.ver \in Versions /\ a.op \in {"append", "replace"} /\ Has(table, a)
      /\ DOMAIN docs = Docs
    BY <1>0, HistoryFacts DEF Fits, Writes, IsWrite, Relies
<1>2. /\ UNCHANGED <<coll, table, calls, may, stale>> /\ Moved(p, "refresh", a) /\ lock' = p
      /\ docs' = [docs EXCEPT ![x] = Completed(a.ver, Refreshing)]
      /\ tangled' = IF a.op = "replace" THEN tangled \ {x} ELSE tangled
    BY <1>0, Facts DEF CommitRow, At, Moved
<1>3. docs'[x] = [cur |-> a.ver, pend |-> None, rec |-> Refreshing] /\ docs'[x] # NoRow
    <2>1. Completed(a.ver, Refreshing) \in DocRows
        BY <1>1 DEF Completed, DocRows, Recs
    <2>. QED BY <1>1, <1>2, <2>1, NoRowNoRecord DEF Completed
<1>4. Tracked' = Tracked /\ (\A e \in Docs : Chunks(e)' = Chunks(e)) /\ Rec(x)' = Refreshing
    BY <1>2, <1>3 DEF Tracked, Chunks, Rec
<1>5. ASSUME Tracked, x \notin tangled' PROVE Sound(x)'
    <2>1. Chunks(x) = {a.ver}
        <3>1. CASE a.op = "replace"
            BY <1>1, <3>1 DEF Relies
        <3>2. CASE a.op = "append"
            <4>1. OnTrack(a) /\ a.ver \in Chunks(x)
                BY <1>1, <1>2, <1>5, <3>2 DEF Relies, Has, Chunks
            <4>. QED BY <3>2, <4>1 DEF OnTrack
        <3>. QED BY <1>1, <3>1, <3>2
    <2>2. a.ver \in may'[x]
        BY <1>1, <1>2 DEF Relies, Writes
    <2>. QED BY <1>1, <1>3, <1>4, <2>1, <2>2 DEF Sound, Refreshing
<1>6. DocInv(x)'
    BY <1>4, <1>5 DEF DocInv, Refreshing
<1>7. Relies(p, "refresh", a)'
    BY <1>1, <1>2, <1>3, <1>4 DEF Relies, Cleaning, Writes
<1>8. ASSUME NEW q \in Threads, NEW t, NEW b, q # p, t = pc[q], b = arg[q], t \in OnDoc, b.doc = x
      PROVE  Relies(q, t, b)'
    <2>1. Relies(q, t, b) /\ q \notin Writing
        BY <1>0, <1>8 DEF HInv, Relying, IInv, WriterInv
    <2>2. t = "chunks" /\ q \in Clients
        BY <1>0, <1>8, <2>1, OthersWithoutLock
    <2>. QED BY <1>2, <2>1, <2>2, ThreadNames DEF Relies, Cleaning, Writes
<1>9. \A e \in Docs : e # x => docs'[e] = docs[e] /\ (e \in tangled' <=> e \in tangled)
    BY <1>1, <1>2
<1>10. HistoryOK'
    BY <1>1, <1>2 DEF HistoryOK
<1>. QED BY <1>0, <1>1, <1>2, <1>4, <1>6, <1>7, <1>8, <1>9, <1>10, OneDoc DEF Writes

LEMMA SettleTells ==
    ASSUME IInv, IInv', HInv, NEW p \in Threads, NEW a, a = arg[p], Settle(p) PROVE HInv'
<1>. DEFINE x == a.doc
<1>0. pc[p] = "settle" /\ lock = p /\ (p \in Writing <=> p \in Clients) /\ p # Nobody
    BY HistoryFacts, ThreadNames DEF Settle, Holding, Writes
<1>1. /\ HistoryOK /\ StateOK /\ Relies(p, "settle", a) /\ DocInv(x) /\ calls \in Nat /\ x \in Docs
      /\ DOMAIN docs = Docs /\ DOMAIN may = Docs /\ Rec(x) = Refreshing
      /\ p \in Clients => a.ver \in Versions /\ docs[x].cur = a.ver /\ a.ver \in may[x]
    BY <1>0, HistoryFacts DEF Fits, Writes, IsWrite, Relies
<1>. DEFINE said == {a.ver} \cup (IF PendingDeletion(x) \/ PendingCleanup \/ coll.status = "deleting"
                                  THEN {Gone} ELSE {})
<1>2. /\ UNCHANGED <<coll, table, calls, tangled, stale>> /\ Moved(p, "idle", None) /\ lock' = Nobody
      /\ may' = IF p = Reconciler THEN may ELSE [may EXCEPT ![x] = said]
    BY <1>0 DEF Settle, Done, At, With, Moved
<1>14. docs' = [docs EXCEPT ![x].rec = ""]
    BY DEF Settle
<1>3. docs[x] \in DocRows
    BY <1>1, HistoryFacts DEF Rec, Refreshing
<1>4. docs'[x] \in DocRows /\ docs'[x] # NoRow /\ docs'[x].cur = docs[x].cur /\ docs'[x].pend = docs[x].pend
      /\ docs'[x].rec = ""
    <2>1. docs'[x] = [docs[x] EXCEPT !.rec = ""]
        BY <1>1, <1>14
    <2>2. docs'[x] \in DocRows
        BY <1>3, <2>1 DEF DocRows, Recs
    <2>. QED BY <1>3, <2>1, <2>2, NoRowNoRecord DEF DocRows
<1>5. /\ Tracked' = Tracked /\ (\A e \in Docs : Chunks(e)' = Chunks(e)) /\ Rec(x)' = ""
      /\ \A e \in Docs : e # x => may'[e] = may[e]
      /\ p # Reconciler => may'[x] = said
    BY <1>1, <1>2, <1>4 DEF Tracked, Chunks, Rec
<1>15. \A e \in Docs : e # x => docs'[e] = docs[e]
    BY <1>1, <1>14
<1>6. ASSUME Tracked, x \notin tangled' PROVE Sound(x)'
    <2>1. Sound(x) /\ docs[x].rec = Refreshing /\ docs[x] # NoRow
        BY <1>1, <1>2, <1>6 DEF DocInv, Rec, Refreshing
    <2>2. docs[x].cur \in Versions \cap may[x] /\ docs[x].pend = None /\ Chunks(x) = {docs[x].cur}
        BY <2>1 DEF Sound
    <2>3. docs[x].cur \in may'[x]
        BY <1>1, <1>2, <1>5, <2>2, ThreadNames DEF Threads
    <2>4. docs'[x].cur \in Versions \cap may'[x] /\ docs'[x].pend = None /\ Chunks(x)' = {docs'[x].cur}
        BY <1>1, <1>4, <1>5, <2>2, <2>3
    <2>. QED BY <1>4, <2>4 DEF Sound, Refreshing
<1>7. DocInv(x)'
    BY <1>5, <1>6 DEF DocInv
<1>8. Relies(p, "idle", None)'
    BY DEF Relies, Cleaning, Writes
<1>9. ASSUME NEW q \in Threads, NEW t, NEW b, q # p, t = pc[q], b = arg[q], t \in OnDoc, b.doc = x
      PROVE  Relies(q, t, b)'
    <2>1. Relies(q, t, b)
        BY <1>9 DEF HInv, Relying
    <2>2. CASE t = "chunks" /\ q \in Clients
        <3>1. PendingDeletion(x)
            BY <1>9, <2>2 DEF PendingDeletion
        <3>2. Gone \in may'[x]
            BY <1>2, <1>5, <1>9, <2>1, <2>2, <3>1 DEF Relies
        <3>. QED BY <1>9, <2>2, <3>2, ThreadNames DEF Relies, Cleaning, Writes
    <2>3. CASE t \in {"io", "commit"} /\ q \in Writing
        <3>1. p \notin Clients /\ p = Reconciler
            BY <1>0, <1>9, <2>3 DEF IInv, WriterInv, Threads
        <3>2. ~ (Tracked /\ x \notin tangled)
            BY <1>1, <1>9, <2>1, <2>3 DEF Relies, OnTrack, Refreshing
        <3>3. /\ may' = may /\ Chunks(b.doc)' = Chunks(b.doc)
              /\ ~ (Tracked' /\ b.doc \notin tangled')
            BY <1>1, <1>2, <1>5, <1>9, <3>1, <3>2
        <3>4. b.op \in {"append", "replace"} /\ b.ver \in may[b.doc]
            BY <2>1, <2>3 DEF Relies, Writes, Writing
        <3>5. t = "commit" /\ b.op = "replace" => Chunks(b.doc) = {b.ver}
            BY <2>1 DEF Relies
        <3>. QED BY <2>3, <3>3, <3>4, <3>5 DEF Relies, Cleaning
    <2>. QED BY <1>0, <1>9, <2>2, <2>3, OthersWithoutLock
<1>10. HistoryOK'
    BY <1>1, <1>2, ThreadNames DEF HistoryOK, Threads
<1>11. calls' \in Nat /\ calls' >= calls
    BY <1>1, <1>2
<1>12. /\ UNCHANGED <<coll, stale>> /\ Moved(p, "idle", None) /\ lock \in {Nobody, p}
       /\ table' = table /\ tangled' = tangled
    BY <1>0, <1>2
<1>13. ~ Writes(p, "idle")
    BY DEF Writes
<1>16. x \in Docs
    BY <1>1
<1>17. \A e \in Docs : e # x => /\ docs'[e] = docs[e] /\ Chunks(e)' = Chunks(e)
                                /\ may'[e] = may[e] /\ (e \in tangled' <=> e \in tangled)
    BY <1>5, <1>12, <1>15
<1>18. Writes(p, "idle") => None.doc = x
    BY <1>13
<1>19. table = NoTable => table' = NoTable \/ p \in Writing
    BY <1>12
<1>. QED BY <1>7, <1>8, <1>9, <1>10, <1>11, <1>12, <1>16, <1>17, <1>18, <1>19, OneDoc

\* A deletion that waits only needs to have been asked for.
LEMMA WaitingRelies ==
    ASSUME IInv, HInv, NEW p \in Threads, NEW q \in Threads, q # p, lock \in {Nobody, p},
           NEW t, NEW b, t = pc[q], b = arg[q], t = "chunks", Gone \in may[b.doc] => Gone \in may'[b.doc]
    PROVE  Relies(q, t, b)'
<1>1. q # Reconciler
    BY OthersWithoutLock, ThreadNames DEF OnDoc
<1>2. Gone \in may'[b.doc]
    BY DEF HInv, Relying, Relies
<1>. QED BY <1>1, <1>2 DEF Relies, Cleaning, Writes

LEMMA NobodyWrites ==
    ASSUME IInv, HInv, NEW p \in Threads, NEW q \in Threads, q # p, lock \in {Nobody, p},
           Users = {}, pc[q] \in OnDoc
    PROVE  pc[q] = "chunks"
BY OthersWithoutLock

LEMMA DeleteDocumentTells ==
    ASSUME IInv, IInv', HInv, NEW p \in Clients, NEW d \in Docs, DeleteDocument(p, d) PROVE HInv'
<1>. DEFINE s == IF table = NoTable THEN "row" ELSE "chunks"
<1>1. /\ HistoryOK /\ StateOK /\ calls \in Nat /\ p \in Threads /\ pc[p] = "idle" /\ lock = Nobody
      /\ DOMAIN docs = Docs /\ DOMAIN may = Docs /\ docs[d] \in DocRows /\ Fits(p, pc[p], arg[p])
    BY HistoryFacts, ThreadNames DEF DeleteDocument, Call, Free
<1>2. PICK a : a = [doc |-> d, row |-> Deleting(docs[d])]
    OBVIOUS
<1>3. PICK r : r = s
    OBVIOUS
<1>4. /\ UNCHANGED <<coll, table, stale>> /\ calls' = calls + 1 /\ Moved(p, r, a)
      /\ docs' = [docs EXCEPT ![d] = Deleting(docs[d])]
      /\ may' = [may EXCEPT ![d] = may[d] \cup {Gone}]
      /\ tangled' = IF table = NoTable /\ WritersOf(d) # {} THEN tangled \cup {d} ELSE tangled
    BY <1>2, <1>3 DEF DeleteDocument, Call, At, With, Moved
<1>5. docs'[d] # NoRow /\ docs'[d].rec = "deleting_chunks"
    <2>1. docs'[d] = [docs[d] EXCEPT !.rec = "deleting_chunks"]
        BY <1>1, <1>4 DEF Deleting
    <2>2. docs'[d] \in DocRows
        BY <1>1, <2>1 DEF DocRows, Recs
    <2>. QED BY <1>1, <2>1, <2>2, NoRowNoRecord DEF DocRows
<1>6. /\ Gone \in may'[d] /\ may[d] \subseteq may'[d] /\ Rec(d)' = "deleting_chunks"
      /\ Tracked' = Tracked /\ tangled \subseteq tangled'
    BY <1>1, <1>4, <1>5 DEF Tracked, Rec
<1>7. \A e \in Docs : Chunks(e)' = Chunks(e)
    BY <1>4 DEF Chunks
<1>8. DocInv(d)'
    BY <1>5, <1>6 DEF DocInv, Sound, Refreshing
<1>9. Relies(p, r, a)'
    <2>1. CASE r = "chunks"
        BY <1>2, <1>6, <2>1, ThreadNames DEF Relies, Cleaning, Writes
    <2>2. CASE r = "row"
        <3>1. table = NoTable /\ Chunks(d)' = {}
            BY <1>3, <1>4, <2>2 DEF Chunks
        <3>2. d \notin tangled' => WritersOf(d) = {}
            BY <1>4, <3>1
        <3>3. a.doc = d
            BY <1>2
        <3>4. \A w \in Writing' : w \in Writing /\ arg'[w] = arg[w]
            BY <1>1, <1>4, <2>2, ThreadNames DEF IInv, ThreadsOK, Moved, Writing
        <3>5. d \notin tangled' => Last(a)'
            BY <1>6, <3>1, <3>2, <3>3, <3>4 DEF Last, WritersOf
        <3>. QED BY <1>6, <2>2, <3>3, <3>5 DEF Relies, Cleaning, Writes
    <2>. QED BY <1>3, <2>1, <2>2
<1>10. ASSUME NEW q \in Threads, NEW t, NEW b, q # p, t = pc[q], b = arg[q], t \in OnDoc, b.doc = d
       PROVE  Relies(q, t, b)'
    <2>1. CASE t = "chunks"
        BY <1>1, <1>6, <1>10, <2>1, WaitingRelies
    <2>2. CASE t \in {"io", "commit"} /\ q \in Writing
        <3>1. Relies(q, t, b)
            BY <1>10 DEF HInv, Relying
        <3>2. b.op \in {"append", "replace"} /\ b.ver \in may'[b.doc]
            BY <1>6, <1>10, <2>2, <3>1 DEF Relies, Writes, Writing
        <3>3. t = "commit" /\ b.op = "replace" => Chunks(b.doc)' = {b.ver}
            BY <1>7, <1>10, <3>1 DEF Relies
        <3>4. Tracked' /\ b.doc \notin tangled' => OnTrack(b)'
            BY <1>5, <1>6, <1>7, <1>10, <2>2, <3>1 DEF Relies, OnTrack
        <3>. QED BY <2>2, <3>2, <3>3, <3>4 DEF Relies, Cleaning
    <2>. QED BY <1>1, <1>10, <2>1, <2>2, OthersWithoutLock
<1>11. HistoryOK'
    BY <1>1, <1>4 DEF HistoryOK
<1>12. \A e \in Docs : e # d => /\ docs'[e] = docs[e] /\ Chunks(e)' = Chunks(e)
                                /\ may'[e] = may[e] /\ (e \in tangled' <=> e \in tangled)
    BY <1>1, <1>4, <1>7
<1>13. calls' \in Nat /\ calls' >= calls /\ UNCHANGED <<coll, stale>> /\ lock \in {Nobody, p}
    BY <1>1, <1>4
<1>14. ~ Writes(p, r)
    BY <1>3 DEF Writes
<1>15. table' = table /\ Moved(p, r, a)
    BY <1>4
<1>. QED BY <1>1, <1>8, <1>9, <1>10, <1>11, <1>12, <1>13, <1>14, <1>15, OneDoc

LEMMA DeleteChunksTells ==
    ASSUME IInv, IInv', HInv, NEW p \in Threads, NEW a, a = arg[p], DeleteChunks(p) PROVE HInv'
<1>. DEFINE x == a.doc
<1>1. pc[p] = "chunks" /\ lock \in {Nobody, p} /\ Users = {} /\ table # NoTable
    BY DEF DeleteChunks, Proceeds, MayMutate
<1>2. /\ HistoryOK /\ StateOK /\ calls \in Nat /\ x \in Docs /\ Gone \in may[x]
      /\ table \in [Docs -> SUBSET Versions]
    BY <1>1, HistoryFacts DEF Relies, Fits, IsDeletion, StateOK, Tables
<1>3. /\ UNCHANGED <<coll, docs, calls, may, stale>> /\ Moved(p, "row", a) /\ lock' = p
      /\ table' = [table EXCEPT ![x] = {}]
      /\ tangled' = IF Rec(x) = "deleting_chunks" THEN tangled ELSE tangled \cup {x}
    BY Facts DEF DeleteChunks, At, Moved
<1>4. table' # NoTable
    <2>1. table' \in Tables
        BY <1>2, <1>3 DEF Tables
    <2>. QED BY <2>1, NoRowNoRecord
<1>5. /\ Chunks(x)' = {} /\ \A e \in Docs : e # x => Chunks(e)' = Chunks(e)
      /\ Tracked' = Tracked /\ Rec(x)' = Rec(x)
    BY <1>1, <1>2, <1>3, <1>4 DEF Chunks, Tracked, Rec
<1>6. x \notin tangled' => Rec(x) = "deleting_chunks"
    BY <1>3
<1>7. DocInv(x)'
    <2>1. Rec(x)' = "deleting_chunks" => Sound(x)'
        BY DEF Sound, Rec, Refreshing
    <2>. QED BY <1>2, <1>3, <1>5, <1>6, <2>1 DEF DocInv
<1>8. Relies(p, "row", a)'
    <2>1. Writing' = {}
        BY <1>1, <1>3, ThreadNames DEF IInv, ThreadsOK, Moved, Writing, Users
    <2>2. x \notin tangled' => Last(a)'
        BY <1>5, <1>6, <2>1 DEF Last, WritersOf
    <2>. QED BY <1>2, <1>3, <2>2 DEF Relies, Cleaning, Writes
<1>9. ASSUME NEW q \in Threads, NEW t, NEW b, q # p, t = pc[q], b = arg[q], t \in OnDoc, b.doc = x
      PROVE  Relies(q, t, b)'
    BY <1>1, <1>3, <1>9, NobodyWrites, WaitingRelies
<1>10. HistoryOK'
    BY <1>2, <1>3 DEF HistoryOK
<1>11. \A e \in Docs : e # x => /\ docs'[e] = docs[e] /\ Chunks(e)' = Chunks(e)
                                /\ may'[e] = may[e] /\ (e \in tangled' <=> e \in tangled)
    BY <1>3, <1>5
<1>12. calls' \in Nat /\ calls' >= calls /\ UNCHANGED <<coll, stale>> /\ Moved(p, "row", a)
    BY <1>2, <1>3
<1>13. ~ Writes(p, "row")
    BY DEF Writes
<1>14. x \in Docs
    BY <1>2
<1>. QED BY <1>1, <1>7, <1>8, <1>9, <1>10, <1>11, <1>12, <1>13, <1>14, OneDoc

\* A deletion that ends early: its row is as it was, or marked as its own again.
LEMMA DeletionEnds ==
    ASSUME IInv, IInv', HInv, NEW p \in Threads, NEW a, a = arg[p], pc[p] \in {"chunks", "row"},
           docs' \in {docs, PutBack(p)}, Moved(p, "idle", None), lock \in {Nobody, p},
           UNCHANGED <<coll, table, calls, history>>
    PROVE  HInv'
<1>. DEFINE x == a.doc
<1>1. /\ HistoryOK /\ calls \in Nat /\ x \in Docs /\ Gone \in may[x] /\ DOMAIN docs = Docs
      /\ a.row \in DocRows /\ a.row.rec = "deleting_chunks" /\ DocInv(x) /\ p \in Threads
    BY HistoryFacts DEF Relies, Fits, IsDeletion
<1>2. UNCHANGED <<coll, table, calls, may, tangled, stale>>
    BY DEF history
<1>3. docs' = docs \/ docs' = [docs EXCEPT ![x] = a.row]
    BY DEF PutBack
<1>4. /\ Tracked' = Tracked /\ \A e \in Docs : Chunks(e)' = Chunks(e)
      /\ \A e \in Docs : e # x => docs'[e] = docs[e]
    BY <1>1, <1>2, <1>3 DEF Tracked, Chunks
<1>5. docs'[x] = docs[x] \/ (docs'[x] # NoRow /\ docs'[x].rec = "deleting_chunks")
    BY <1>1, <1>3, NoRowNoRecord
<1>6. DocInv(x)'
    <2>1. CASE docs'[x] = docs[x]
        BY <1>1, <1>2, <1>4, <2>1 DEF DocInv, Rec, Sound
    <2>2. CASE docs'[x] # NoRow /\ docs'[x].rec = "deleting_chunks"
        BY <1>1, <1>2, <2>2 DEF DocInv, Rec, Sound, Refreshing
    <2>. QED BY <1>5, <2>1, <2>2
<1>7. Relies(p, "idle", None)'
    BY DEF Relies, Cleaning, Writes
<1>8. ASSUME NEW q \in Threads, NEW t, NEW b, q # p, t = pc[q], b = arg[q], t \in OnDoc, b.doc = x
      PROVE  Relies(q, t, b)'
    <2>1. CASE t = "chunks"
        BY <1>2, <1>8, <2>1, WaitingRelies
    <2>2. CASE t \in {"io", "commit"} /\ q \in Writing
        <3>1. Relies(q, t, b)
            BY <1>8 DEF HInv, Relying
        <3>2. b.op \in {"append", "replace"} /\ b.ver \in may'[b.doc]
            BY <1>2, <2>2, <3>1 DEF Relies, Writes, Writing
        <3>3. t = "commit" /\ b.op = "replace" => Chunks(b.doc)' = {b.ver}
            BY <1>1, <1>4, <1>8, <3>1 DEF Relies
        <3>4. OnTrack(b) => OnTrack(b)'
            BY <1>1, <1>4, <1>5, <1>8 DEF OnTrack, Rec
        <3>. QED BY <1>2, <1>4, <2>2, <3>1, <3>2, <3>3, <3>4 DEF Relies, Cleaning
    <2>. QED BY <1>8, <2>1, <2>2, OthersWithoutLock
<1>9. HistoryOK'
    BY <1>1, <1>2 DEF HistoryOK
<1>10. \A e \in Docs : e # x => /\ docs'[e] = docs[e] /\ Chunks(e)' = Chunks(e)
                                /\ may'[e] = may[e] /\ (e \in tangled' <=> e \in tangled)
    BY <1>2, <1>4
<1>11. calls' \in Nat /\ calls' >= calls /\ UNCHANGED <<coll, stale>> /\ table' = table
    BY <1>1, <1>2
<1>12. ~ Writes(p, "idle")
    BY DEF Writes
<1>13. x \in Docs
    BY <1>1
<1>. QED BY <1>6, <1>7, <1>8, <1>9, <1>10, <1>11, <1>12, <1>13, OneDoc

LEMMA TableHasGoneTells ==
    ASSUME IInv, IInv', HInv, NEW p \in Threads, TableHasGone(p) PROVE HInv'
<1>1. /\ pc[p] \in {"chunks", "row"} /\ docs' = PutBack(p) /\ Moved(p, "idle", None)
      /\ lock \in {Nobody, p} /\ UNCHANGED <<coll, table, calls, history>>
    BY DEF TableHasGone, Proceeds, Done, At, With, Moved
<1>. QED BY <1>1, DeletionEnds

LEMMA DeletionFailsTells ==
    ASSUME IInv, IInv', HInv, NEW p \in Threads, DeletionFails(p) PROVE HInv'
<1>1. lock \in {Nobody, p}
    BY HistoryFacts DEF DeletionFails, Proceeds, Holding
<1>2. /\ pc[p] \in {"chunks", "row"} /\ docs' \in {docs, PutBack(p)} /\ Moved(p, "idle", None)
      /\ UNCHANGED <<coll, table, calls, history>>
    BY DEF DeletionFails, Done, At, With, Moved
<1>. QED BY <1>1, <1>2, DeletionEnds

LEMMA DeleteRowTells ==
    ASSUME IInv, IInv', HInv, NEW p \in Threads, NEW a, a = arg[p], DeleteRow(p) PROVE HInv'
<1>. DEFINE x == a.doc
<1>1. pc[p] = "row" /\ lock = p
    BY HistoryFacts DEF DeleteRow, Holding
<1>2. /\ HistoryOK /\ StateOK /\ calls \in Nat /\ x \in Docs /\ Gone \in may[x]
      /\ DOMAIN docs = Docs /\ DOMAIN may = Docs
      /\ Tracked /\ x \notin tangled => Last(a)
    BY <1>1, HistoryFacts DEF Relies, Fits, IsDeletion
<1>3. /\ UNCHANGED <<coll, table, calls, stale>> /\ Moved(p, "idle", None)
      /\ docs' = [docs EXCEPT ![x] = NoRow]
      /\ may' = IF p = Reconciler THEN may
                ELSE [may EXCEPT ![x] = {Gone} \cup {arg[w].ver : w \in WritersOf(x)}]
      /\ tangled' = IF WritersOf(x) = {} /\ Chunks(x) = {} THEN tangled \ {x} ELSE tangled
    BY <1>1 DEF DeleteRow, Done, At, With, Moved
<1>4. \A w \in WritersOf(x) : arg[w].ver \in Versions
    <2>1. ASSUME NEW w \in Writing PROVE IsWrite(arg[w])
        <3>1. w \in Threads /\ w \in Clients
            BY ThreadNames DEF Writing
        <3>. QED BY <2>1, <3>1, HistoryFacts DEF Fits
    <2>. QED BY <2>1 DEF WritersOf, IsWrite
<1>5. HistoryOK'
    BY <1>2, <1>3, <1>4 DEF HistoryOK
<1>6. /\ docs'[x] = NoRow /\ Rec(x)' = "" /\ Gone \in may'[x] /\ Tracked' = Tracked
      /\ \A e \in Docs : Chunks(e)' = Chunks(e)
      /\ p = Reconciler => may' = may
      /\ p # Reconciler => \A w \in WritersOf(x) : arg[w].ver \in may'[x]
    BY <1>2, <1>3 DEF Rec, Tracked, Chunks
<1>7. ASSUME Tracked, x \notin tangled' PROVE Chunks(x) = {} /\ WritersOf(x) = {}
    <2>1. CASE x \in tangled
        BY <1>3, <1>7, <2>1
    <2>2. CASE x \notin tangled
        BY <1>2, <1>7, <2>2 DEF Last
    <2>. QED BY <2>1, <2>2
<1>8. DocInv(x)'
    BY <1>2, <1>6, <1>7 DEF DocInv, Sound
<1>9. Relies(p, "idle", None)'
    BY DEF Relies, Cleaning, Writes
<1>10. ASSUME NEW q \in Threads, NEW t, NEW b, q # p, t = pc[q], b = arg[q], t \in OnDoc, b.doc = x
      PROVE  Relies(q, t, b)'
    <2>1. CASE t = "chunks"
        BY <1>1, <1>6, <1>10, <2>1, WaitingRelies
    <2>2. CASE t \in {"io", "commit"} /\ q \in Writing
        <3>1. Relies(q, t, b) /\ q \in WritersOf(x)
            BY <1>10, <2>2 DEF HInv, Relying, WritersOf
        <3>2. b.op \in {"append", "replace"} /\ b.ver \in may'[b.doc]
            BY <1>6, <1>10, <2>2, <3>1 DEF Relies, Writes, Writing
        <3>3. t = "commit" /\ b.op = "replace" => Chunks(b.doc)' = {b.ver}
            BY <1>2, <1>6, <1>10, <3>1 DEF Relies
        <3>4. ~ (Tracked' /\ b.doc \notin tangled')
            BY <1>6, <1>7, <1>10, <3>1
        <3>. QED BY <2>2, <3>2, <3>3, <3>4 DEF Relies, Cleaning
    <2>. QED BY <1>1, <1>10, <2>1, <2>2, OthersWithoutLock
<1>11. \A e \in Docs : e # x => /\ docs'[e] = docs[e] /\ Chunks(e)' = Chunks(e)
                                /\ may'[e] = may[e] /\ (e \in tangled' <=> e \in tangled)
    BY <1>2, <1>3, <1>6
<1>12. calls' \in Nat /\ calls' >= calls /\ UNCHANGED <<coll, stale>> /\ table' = table /\ Moved(p, "idle", None)
    BY <1>2, <1>3
<1>13. ~ Writes(p, "idle")
    BY DEF Writes
<1>14. x \in Docs /\ lock \in {Nobody, p}
    BY <1>1, <1>2
<1>. QED BY <1>5, <1>8, <1>9, <1>10, <1>11, <1>12, <1>13, <1>14, OneDoc

LEMMA Finished ==
    \A c, k : LET row == Completed(c, k) IN row.cur = c /\ row.pend = None /\ row.rec = k
BY DEF Completed

\* The reconciler decides an interrupted write by the chunks it finds.
LEMMA RecoveryDecides ==
    ASSUME IInv, IInv', HInv, NEW d \in Docs, NEW s \in {"refresh", "idle"}, NEW a,
           Users = {}, lock \in {Nobody, Reconciler}, Moved(Reconciler, s, a),
           docs' = [docs EXCEPT ![d] = docs'[d]], DocInv(d)', Relies(Reconciler, s, a)',
           UNCHANGED <<coll, table, calls, history>>
    PROVE  HInv'
<1>. DEFINE p == Reconciler
<1>1. HistoryOK /\ calls \in Nat /\ DOMAIN docs = Docs /\ p \in Threads
    BY HistoryFacts, ThreadNames
<1>2. UNCHANGED <<coll, table, calls, may, tangled, stale>>
    BY DEF history
<1>3. ASSUME NEW q \in Threads, NEW t, NEW b, q # p, t = pc[q], b = arg[q], t \in OnDoc, b.doc = d
      PROVE  Relies(q, t, b)'
    BY <1>1, <1>2, <1>3, NobodyWrites, WaitingRelies
<1>4. HistoryOK'
    BY <1>1, <1>2 DEF HistoryOK
<1>5. \A e \in Docs : e # d => /\ docs'[e] = docs[e] /\ Chunks(e)' = Chunks(e)
                               /\ may'[e] = may[e] /\ (e \in tangled' <=> e \in tangled)
    BY <1>1, <1>2 DEF Chunks
<1>6. calls' \in Nat /\ calls' >= calls /\ UNCHANGED <<coll, stale>> /\ table' = table
    BY <1>1, <1>2
<1>7. ~ Writes(p, s)
    BY ThreadNames DEF Writes
<1>. QED BY <1>1, <1>3, <1>4, <1>5, <1>6, <1>7, OneDoc

LEMMA RollForwardTells ==
    ASSUME IInv, IInv', HInv, NEW d \in Docs, RollForward(d) PROVE HInv'
<1>. DEFINE p == Reconciler
<1>1. /\ pc[p] = "recover" /\ arg[p] = [doc |-> d] /\ lock \in {Nobody, p} /\ Users = {}
      /\ Interrupted(d) /\ PendingChunks(d)
      /\ docs' = [docs EXCEPT ![d] = Completed(docs[d].pend, Refreshing)]
      /\ UNCHANGED <<coll, table, calls, history>> /\ Moved(p, "refresh", arg[p])
    BY Facts, ThreadNames DEF RollForward, Recovering, Proceeds, MayMutate, At, Moved
<1>2. DocInv(d) /\ HistoryOK /\ DOMAIN docs = Docs /\ docs[d] \in DocRows /\ p \in Threads
    BY <1>1, HistoryFacts, ThreadNames DEF Interrupted, Rec
<1>3. UNCHANGED <<coll, table, may, tangled, stale>>
    BY <1>1 DEF history
<1>4. docs'[d] = [cur |-> docs[d].pend, pend |-> None, rec |-> Refreshing] /\ docs'[d] # NoRow
    <2>1. Completed(docs[d].pend, Refreshing) \in DocRows
        BY <1>2 DEF Completed, DocRows, Recs
    <2>. QED BY <1>1, <1>2, <2>1, NoRowNoRecord DEF Completed
<1>5. Tracked' = Tracked /\ Chunks(d)' = Chunks(d) /\ Rec(d)' = Refreshing
    <2>1. Tracked' = Tracked /\ Chunks(d)' = Chunks(d)
        BY <1>3 DEF Tracked, Chunks
    <2>2. docs'[d] # NoRow => docs'[d].rec = Refreshing
        BY <1>4
    <2>. QED BY <1>4, <2>1, <2>2 DEF Rec
<1>6. ASSUME Tracked, d \notin tangled PROVE Sound(d)'
    <2>1. Sound(d) /\ docs[d] # NoRow /\ docs[d].rec \in {"appending", "replacing"} /\ docs[d].pend \in Chunks(d)
        BY <1>1, <1>2, <1>6 DEF DocInv, Interrupted, Rec, PendingChunks
    <2>2. docs[d].pend \in Versions \cap may[d]
        BY <2>1 DEF Sound
    <2>3. Chunks(d) = {docs[d].pend}
        BY <2>1 DEF Sound
    <2>. QED BY <1>3, <1>4, <1>5, <2>2, <2>3 DEF Sound, Refreshing
<1>7. DocInv(d)'
    BY <1>3, <1>5, <1>6 DEF DocInv, Refreshing
<1>8. PICK a : a = arg[p]
    OBVIOUS
<1>9. Relies(p, "refresh", a)'
    BY <1>1, <1>5, <1>8, ThreadNames DEF Relies, Cleaning, Writes
<1>10. docs' = [docs EXCEPT ![d] = docs'[d]]
    BY <1>1, <1>2
<1>. QED BY <1>1, <1>7, <1>8, <1>9, <1>10, RecoveryDecides

LEMMA RollBackTells ==
    ASSUME IInv, IInv', HInv, NEW d \in Docs, RollBack(d) PROVE HInv'
<1>. DEFINE p == Reconciler
<1>1. /\ lock \in {Nobody, p} /\ Users = {} /\ Interrupted(d) /\ ~PendingChunks(d)
      /\ docs' = [docs EXCEPT ![d] = IF Uncommitted(docs[d]) THEN NoRow ELSE Completed(docs[d].cur, "")]
      /\ UNCHANGED <<coll, table, calls, history>> /\ Moved(p, "idle", None)
    BY DEF RollBack, Recovering, Proceeds, MayMutate, Done, At, With, Moved
<1>2. DocInv(d) /\ HistoryOK /\ DOMAIN docs = Docs /\ docs[d] \in DocRows /\ docs[d] # NoRow
    BY <1>1, HistoryFacts, ThreadNames DEF Interrupted, Rec
<1>3. UNCHANGED <<coll, table, may, tangled, stale>>
    BY <1>1 DEF history
<1>4. /\ Uncommitted(docs[d]) => docs'[d] = NoRow
      /\ docs'[d] # NoRow => docs'[d].rec = ""
      /\ ~Uncommitted(docs[d]) => docs'[d] # NoRow /\ docs'[d].cur = docs[d].cur /\ docs'[d].pend = None
    <2>1. CASE Uncommitted(docs[d])
        BY <1>1, <1>2, <2>1
    <2>2. CASE ~Uncommitted(docs[d])
        <3>0. PICK k : k = ""
            OBVIOUS
        <3>1. docs'[d] = Completed(docs[d].cur, k)
            BY <1>1, <1>2, <2>2, <3>0
        <3>2. Completed(docs[d].cur, "") \in DocRows
            BY <1>2 DEF Completed, DocRows, Recs
        <3>3. docs'[d] # NoRow
            BY <1>1, <1>2, <2>2, <3>2, NoRowNoRecord
        <3>4. docs'[d].cur = docs[d].cur /\ docs'[d].pend = None /\ docs'[d].rec = k
            BY <3>1, Finished
        <3>. QED BY <2>2, <3>0, <3>3, <3>4
    <2>. QED BY <2>1, <2>2
<1>5. Tracked' = Tracked /\ Chunks(d)' = Chunks(d) /\ Rec(d)' = ""
    <2>1. Tracked' = Tracked /\ Chunks(d)' = Chunks(d)
        BY <1>3 DEF Tracked, Chunks
    <2>. QED BY <1>4, <2>1 DEF Rec
<1>6. ASSUME Tracked, d \notin tangled PROVE Sound(d)'
    <2>1. /\ Sound(d) /\ docs[d].rec \in {"appending", "replacing"}
          /\ docs[d].pend = None \/ docs[d].pend \notin Chunks(d)
        BY <1>1, <1>2, <1>6 DEF DocInv, Interrupted, Rec, PendingChunks
    <2>2. docs[d].pend \in Versions /\ docs[d].pend \notin Chunks(d)
        BY <1>2, <2>1, CollectionStoreAssumption DEF Sound
    <2>3. CASE docs[d].rec = "appending"
        <3>1. Chunks(d) = {} /\ docs[d].cur = None /\ Gone \in may[d]
            BY <1>2, <2>1, <2>2, <2>3 DEF Sound
        <3>2. Uncommitted(docs[d])
            BY <1>2, <2>3, <3>1 DEF Uncommitted
        <3>. QED BY <1>3, <1>4, <1>5, <3>1, <3>2 DEF Sound
    <2>4. CASE docs[d].rec = "replacing"
        <3>1. docs[d].cur \in Versions \cap may[d] /\ Chunks(d) = {docs[d].cur}
            BY <1>2, <2>1, <2>2, <2>4 DEF Sound
        <3>2. ~Uncommitted(docs[d])
            BY <2>4 DEF Uncommitted
        <3>3. docs'[d] # NoRow /\ docs'[d].cur = docs[d].cur /\ docs'[d].pend = None /\ docs'[d].rec = ""
            BY <1>4, <3>2
        <3>. QED BY <1>3, <1>5, <3>1, <3>3 DEF Sound, Refreshing
    <2>. QED BY <2>1, <2>3, <2>4
<1>7. DocInv(d)'
    BY <1>3, <1>5, <1>6 DEF DocInv
<1>8. Relies(p, "idle", None)'
    BY DEF Relies, Cleaning, Writes
<1>9. docs' = [docs EXCEPT ![d] = docs'[d]]
    BY <1>1, <1>2
<1>. QED BY <1>1, <1>7, <1>8, <1>9, RecoveryDecides

-----------------------------------------------------------------------------
(* Steps that leave documents and chunks alone.                            *)

LEMMA CreateCollectionTells ==
    ASSUME IInv, IInv', HInv, NEW p \in Clients, CreateCollection(p) PROVE HInv'
<1>1. p \in Threads /\ calls \in Nat /\ StateOK
    BY HistoryFacts, ThreadNames
<1>2. calls' = calls + 1
    BY DEF CreateCollection, Call
<1>3. /\ UNCHANGED <<docs, table, lock, history>> /\ Moved(p, pc[p], arg[p])
    BY <1>1, Facts DEF CreateCollection, Moved
<1>4. CollMoves(p)
    <2>1. coll' = [status |-> "active", phase |-> "", expired |-> FALSE, made |-> calls]
        BY DEF CreateCollection
    <2>2. coll' \in CollRows
        BY <1>1, <2>1 DEF CollRows
    <2>3. coll' # NoRow
        BY <2>2, NoRowNoRecord
    <2>4. coll'.made = calls /\ coll'.phase # "delete_catalog"
        BY <2>1
    <2>5. coll = NoRow
        BY DEF CreateCollection
    <2>. QED BY <1>2, <2>3, <2>4, <2>5 DEF CollMoves
<1>5. PICK s, a : s = pc[p] /\ a = arg[p]
    OBVIOUS
<1>6. s = "idle"
    BY <1>5 DEF CreateCollection, Call
<1>7. Relies(p, s, a)' /\ ~ Writes(p, s)
    BY <1>6 DEF Relies, Cleaning, Writes
<1>. QED BY <1>1, <1>2, <1>3, <1>4, <1>5, <1>7, StillKeeps

LEMMA BeginQueryTells ==
    ASSUME IInv, IInv', HInv, NEW p \in Clients, BeginQuery(p) PROVE HInv'
<1>. DEFINE hidden == [hidden |-> {d \in Docs : Uncommitted(docs[d])}]
<1>1. p \in Threads /\ calls \in Nat
    BY HistoryFacts, ThreadNames
<1>2. calls' = calls + 1 /\ UNCHANGED <<coll, docs, table, lock, history>> /\ Moved(p, "read", hidden)
    BY DEF BeginQuery, Call, durable, At, With, Moved
<1>3. PICK a : a = hidden
    OBVIOUS
<1>4. Relies(p, "read", a)' /\ ~ Writes(p, "read") /\ CollMoves(p)
    BY <1>2 DEF Relies, Cleaning, Writes, CollMoves
<1>. QED BY <1>1, <1>2, <1>3, <1>4, StillKeeps

\* A thread that stops, or waits for its turn, relies on nothing.
LEMMA AtRestTells ==
    ASSUME IInv, IInv', HInv, NEW p \in Threads, NEW s \in {"idle", "recover"}, NEW a, Moved(p, s, a),
           UNCHANGED <<docs, table, calls, history>>, lock' = lock \/ lock \in {Nobody, p}, CollMoves(p)
    PROVE  HInv'
<1>1. calls \in Nat
    BY HistoryFacts
<1>2. Relies(p, s, a)' /\ ~ Writes(p, s)
    BY DEF Relies, Cleaning, Writes
<1>. QED BY <1>1, <1>2, StillKeeps

LEMMA CleanupFailsTells ==
    ASSUME IInv, IInv', HInv, NEW p \in Threads, CleanupFails(p) PROVE HInv'
<1>1. /\ pc[p] \in Cleaning /\ Moved(p, "idle", None) /\ UNCHANGED <<docs, table, calls, history>>
      /\ coll' = coll \/ coll' = IF pc[p] = "drop" THEN arg[p].coll ELSE Emptied(arg[p].coll)
      /\ lock \in {Nobody, p}
    BY HistoryFacts DEF CleanupFails, Proceeds, Done, At, With, Moved, Cleaning, Holding
<1>2. /\ arg[p].coll \in CollRows /\ arg[p].coll.status = "deleting" /\ arg[p].coll.made < calls
      /\ pc[p] = "drop" => arg[p].coll.phase = "drop_table"
      /\ pc[p] # "drop" => table = NoTable
    BY <1>1, HistoryFacts DEF Fits, IsCleanup, Relies, Cleaning
<1>3. CollMoves(p)
    <2>1. CASE coll' = coll
        BY <2>1 DEF CollMoves
    <2>2. CASE pc[p] = "drop" /\ coll' = arg[p].coll
        BY <1>2, <2>2, NoRowNoRecord DEF CollMoves
    <2>3. CASE pc[p] # "drop" /\ coll' = Emptied(arg[p].coll)
        <3>1. PICK c : c = arg[p].coll
            OBVIOUS
        <3>2. coll' = [c EXCEPT !.phase = "delete_catalog"]
            BY <2>3, <3>1 DEF Emptied
        <3>3. coll' \in CollRows /\ coll'.status = c.status /\ coll'.made = c.made
            BY <1>2, <3>1, <3>2 DEF CollRows
        <3>4. coll' # NoRow
            BY <3>3, NoRowNoRecord
        <3>. QED BY <1>2, <2>3, <3>1, <3>3, <3>4 DEF CollMoves
    <2>. QED BY <1>1, <2>1, <2>2, <2>3
<1>. QED BY <1>1, <1>3, AtRestTells

LEMMA RecordDropTells ==
    ASSUME IInv, IInv', HInv, NEW p \in Threads, NEW a, a = arg[p], RecordDrop(p) PROVE HInv'
<1>1. /\ pc[p] = "dropped" /\ Moved(p, "catalog", a) /\ UNCHANGED <<docs, table, lock, calls, history>>
      /\ coll' = Emptied(a.coll)
    BY Facts DEF RecordDrop, At, Moved
<1>2. /\ a.coll \in CollRows /\ a.coll.status = "deleting" /\ a.coll.made < calls /\ table = NoTable
      /\ calls \in Nat
    BY <1>1, HistoryFacts DEF Fits, IsCleanup, Relies, Cleaning
<1>3. /\ coll' # NoRow /\ coll'.status = "deleting" /\ coll'.made = a.coll.made
    <2>1. PICK c : c = a.coll
        OBVIOUS
    <2>2. coll' = [c EXCEPT !.phase = "delete_catalog"]
        BY <1>1, <2>1 DEF Emptied
    <2>3. coll' \in CollRows /\ coll'.status = c.status /\ coll'.made = c.made
        BY <1>2, <2>1, <2>2 DEF CollRows
    <2>. QED BY <1>2, <2>1, <2>3, NoRowNoRecord
<1>4. CollMoves(p)
    BY <1>2, <1>3 DEF CollMoves
<1>5. Relies(p, "catalog", a)' /\ ~ Writes(p, "catalog")
    BY <1>1, <1>2, <1>3 DEF Relies, Cleaning, Writes
<1>. QED BY <1>1, <1>2, <1>4, <1>5, StillKeeps

LEMMA RefreshActivityTells ==
    ASSUME IInv, IInv', HInv, NEW p \in Threads, NEW a, a = arg[p], RefreshActivity(p) PROVE HInv'
<1>1. /\ pc[p] = "refresh" /\ Moved(p, "settle", a) /\ UNCHANGED <<docs, table, lock, calls, history>>
      /\ coll \in CollRows /\ calls \in Nat
    BY Facts, HistoryFacts DEF RefreshActivity, At, Moved, StateOK
<1>2. UNCHANGED <<may, tangled, stale>>
    BY <1>1 DEF history
<1>3. CollMoves(p)
    <2>1. CASE coll' = coll
        BY <2>1 DEF CollMoves
    <2>2. CASE coll' = [coll EXCEPT !.expired = FALSE]
        <3>1. coll' \in CollRows /\ coll'.status = coll.status /\ coll'.made = coll.made /\ coll'.phase = coll.phase
            BY <1>1, <2>2 DEF CollRows
        <3>. QED BY <1>1, <3>1, NoRowNoRecord DEF CollMoves
    <2>. QED BY <2>1, <2>2 DEF RefreshActivity
<1>4. Relies(p, "refresh", a)
    BY <1>1, HistoryFacts
<1>5. Relies(p, "settle", a)'
    BY <1>1, <1>2, <1>4 DEF Relies, Cleaning, Writes, Rec
<1>6. Writes(p, "settle") => p \in Writing
    BY <1>1 DEF Writes, Writing
<1>. QED BY <1>1, <1>3, <1>5, <1>6, StillKeeps

LEMMA ExpireTells ==
    ASSUME IInv, IInv', HInv, Expire PROVE HInv'
<1>. DEFINE p == Reconciler
<1>1. /\ coll \in CollRows /\ coll' = [coll EXCEPT !.expired = TRUE] /\ calls \in Nat /\ p \in Threads
      /\ UNCHANGED <<docs, table, lock, calls, history>> /\ Moved(p, pc[p], arg[p])
    BY Facts, HistoryFacts, ThreadNames DEF Expire, StateOK, Moved
<1>2. /\ coll' # NoRow /\ coll # NoRow /\ coll'.status = coll.status /\ coll'.made = coll.made
      /\ coll'.phase = coll.phase
    <2>1. coll' \in CollRows /\ coll'.status = coll.status /\ coll'.made = coll.made /\ coll'.phase = coll.phase
        BY <1>1 DEF CollRows
    <2>. QED BY <1>1, <2>1, NoRowNoRecord
<1>3. CollMoves(p)
    BY <1>2 DEF CollMoves
<1>4. PICK s, a : s = pc[p] /\ a = arg[p]
    OBVIOUS
<1>5. Relies(p, s, a)
    BY <1>1, <1>4, HistoryFacts
<1>6. UNCHANGED <<may, tangled, stale, Tracked>>
    BY <1>1, <1>2 DEF history, Tracked
<1>7. pc' = pc /\ arg' = arg
    BY DEF Expire
<1>8. OnTrack(a)' = OnTrack(a) /\ Last(a)' = Last(a)
    BY <1>1, <1>7 DEF OnTrack, Last, Rec, Chunks, WritersOf, Writing
<1>9. Relies(p, s, a)'
    BY <1>1, <1>2, <1>5, <1>6, <1>8 DEF Relies, Rec, Chunks
<1>10. Writes(p, s) => p \in Writing /\ a = arg[p]
    BY <1>4 DEF Writes, Writing
<1>. QED BY <1>1, <1>3, <1>4, <1>9, <1>10, StillKeeps

LEMMA WriteFailsTells ==
    ASSUME IInv, IInv', HInv, NEW p \in Clients, WriteFails(p) PROVE HInv'
<1>1. /\ UNCHANGED <<coll, docs, table, calls, history>> /\ Moved(p, "idle", None)
      /\ lock' = lock \/ lock \in {Nobody, p}
    BY DEF WriteFails, durable, At, With, Moved
<1>. QED BY <1>1, ThreadNames, AtRestTells DEF CollMoves

LEMMA EndQueryTells ==
    ASSUME IInv, IInv', HInv, NEW p \in Clients, EndQuery(p) PROVE HInv'
<1>1. UNCHANGED <<coll, docs, table, lock, calls, history>> /\ Moved(p, "idle", None)
    BY DEF EndQuery, durable, At, With, Moved
<1>. QED BY <1>1, ThreadNames, AtRestTells DEF CollMoves

LEMMA ReconcileDocumentTells ==
    ASSUME IInv, IInv', HInv, NEW d \in Docs, ReconcileDocument(d) PROVE HInv'
<1>1. /\ UNCHANGED <<coll, docs, table, calls, history>> /\ Moved(Reconciler, "recover", [doc |-> d])
      /\ lock = Nobody
    BY DEF ReconcileDocument, durable, At, With, Moved, Free
<1>2. PICK a : a = [doc |-> d]
    OBVIOUS
<1>. QED BY <1>1, <1>2, ThreadNames, AtRestTells DEF CollMoves

LEMMA NothingToRecoverTells ==
    ASSUME IInv, IInv', HInv, NEW d \in Docs, NothingToRecover(d) PROVE HInv'
<1>1. /\ UNCHANGED <<coll, docs, table, calls, history>> /\ Moved(Reconciler, "idle", None)
      /\ lock \in {Nobody, Reconciler}
    BY DEF NothingToRecover, Recovering, Proceeds, durable, Done, At, With, Moved
<1>. QED BY <1>1, ThreadNames, AtRestTells DEF CollMoves

LEMMA RefreshFailsTells ==
    ASSUME IInv, IInv', HInv, RefreshFails PROVE HInv'
<1>1. /\ UNCHANGED <<coll, docs, table, calls, history>> /\ Moved(Reconciler, "idle", None)
      /\ lock \in {Nobody, Reconciler}
    BY HistoryFacts, ThreadNames DEF RefreshFails, durable, Done, At, With, Moved, Holding
<1>. QED BY <1>1, ThreadNames, AtRestTells DEF CollMoves

LEMMA ResumeRefreshTells ==
    ASSUME IInv, IInv', HInv, NEW d \in Docs, ResumeRefresh(d) PROVE HInv'
<1>. DEFINE p == Reconciler
<1>1. /\ UNCHANGED <<coll, docs, table, calls, history>> /\ Moved(p, "refresh", arg[p])
      /\ lock \in {Nobody, p} /\ arg[p] = [doc |-> d] /\ Rec(d) = Refreshing /\ p \in Threads /\ calls \in Nat
    BY Facts, HistoryFacts, ThreadNames DEF ResumeRefresh, Recovering, Proceeds, durable, At, Moved
<1>2. PICK a : a = arg[p]
    OBVIOUS
<1>3. Relies(p, "refresh", a)' /\ ~ Writes(p, "refresh")
    <2>1. a.doc = d
        BY <1>1, <1>2
    <2>2. Rec(d)' = Rec(d)
        BY <1>1 DEF Rec
    <2>3. Rec(a.doc)' = Refreshing
        BY <1>1, <2>1, <2>2
    <2>. QED BY <2>3, ThreadNames DEF Relies, Cleaning, Writes
<1>4. CollMoves(p)
    BY <1>1 DEF CollMoves
<1>. QED BY <1>1, <1>2, <1>3, <1>4, StillKeeps

LEMMA ResumeDeletionTells ==
    ASSUME IInv, IInv', HInv, NEW d \in Docs, ResumeDeletion(d) PROVE HInv'
<1>. DEFINE p == Reconciler
<1>1. PICK s, a : s = (IF table = NoTable THEN "row" ELSE "chunks") /\ a = [doc |-> d, row |-> docs[d]]
    OBVIOUS
<1>2. /\ UNCHANGED <<coll, docs, table, calls, history>> /\ Moved(p, s, a) /\ lock' = p
      /\ lock \in {Nobody, p} /\ Users = {} /\ Rec(d) = "deleting_chunks" /\ p \in Threads /\ calls \in Nat
    BY <1>1, HistoryFacts, ThreadNames DEF ResumeDeletion, Recovering, Proceeds, MayMutate, durable, At, With, Moved
<1>3. UNCHANGED <<may, tangled, stale>> /\ Gone \in may[d]
    BY <1>2, HistoryFacts DEF history, DocInv
<1>4. s = "row" => Last(a)'
    <2>1. Writing' = {}
        BY <1>2, ThreadNames DEF IInv, ThreadsOK, Moved, Writing, Users
    <2>2. s = "row" => Chunks(d)' = {}
        BY <1>1, <1>2 DEF Chunks
    <2>. QED BY <1>1, <1>2, <2>1, <2>2 DEF Last, Rec, WritersOf
<1>5. Relies(p, s, a)' /\ ~ Writes(p, s)
    BY <1>1, <1>2, <1>3, <1>4, ThreadNames DEF Relies, Cleaning, Writes
<1>6. CollMoves(p)
    BY <1>2 DEF CollMoves
<1>. QED BY <1>2, <1>5, <1>6, StillKeeps

-----------------------------------------------------------------------------
(* Cleanups.                                                               *)

\* A cleanup meets only threads that write in vain, that wait to delete, or
\* that wait with an older row of the collection.
LEMMA CleanupKeepsOthers ==
    ASSUME IInv, HInv, NEW p \in Threads, NEW q \in Threads, q # p, lock \in {Nobody, p},
           NEW t, NEW b, t = pc[q], b = arg[q], calls' \in Nat, calls' >= calls,
           coll' # NoRow => /\ coll # NoRow /\ coll'.made = coll.made
                            /\ coll'.status \in {coll.status, "deleting"},
           \A d \in Docs : Gone \in may[d] => Gone \in may'[d],
           \/ Users = {}
           \/ ~Tracked' /\ table' = table /\ \A d \in Docs : may[d] \subseteq may'[d]
    PROVE  Relies(q, t, b)'
<1>1. /\ Relies(q, t, b) /\ Fits(q, t, b) /\ t \notin Holding /\ calls \in Nat
      /\ t \in OnDoc => b.doc \in Docs
    BY HistoryFacts, OthersWithoutLock, AboutDocs
<1>2. CASE t = "chunks"
    BY <1>1, <1>2, WaitingRelies DEF OnDoc
<1>3. CASE t \in {"io", "commit"} /\ q \in Writing
    <2>1. ~Tracked' /\ table' = table /\ b.ver \in may'[b.doc] /\ b.op \in {"append", "replace"}
        <3>1. Users # {}
            BY <1>3, OthersWithoutLock
        <3>2. b.op \in {"append", "replace"} /\ b.ver \in may[b.doc] /\ b.doc \in Docs
            BY <1>1, <1>3 DEF Relies, Writes, Writing, OnDoc
        <3>. QED BY <3>1, <3>2
    <2>2. t = "commit" /\ b.op = "replace" => Chunks(b.doc)' = {b.ver}
        BY <1>1, <2>1 DEF Relies, Chunks
    <2>. QED BY <1>3, <2>1, <2>2 DEF Relies, Cleaning
<1>4. CASE t = "drop"
    <2>1. b.coll.made < calls /\ b.coll.made \in Nat
        BY <1>1, <1>4, Numbers DEF Relies, Cleaning, Fits
    <2>2. b.coll.made < calls'
        BY <1>1, <2>1
    <2>3. coll' # NoRow /\ coll'.made = b.coll.made => coll'.status = "deleting"
        BY <1>1, <1>4 DEF Relies
    <2>. QED BY <1>4, <2>2, <2>3 DEF Relies, Cleaning, Writes
<1>5. CASE t \notin OnDoc /\ t # "drop"
    BY <1>1, <1>5 DEF Relies, Cleaning, Writes, OnDoc, Holding
<1>. QED BY <1>2, <1>3, <1>4, <1>5, OthersWithoutLock

LEMMA DropTableTells ==
    ASSUME IInv, IInv', HInv, NEW p \in Threads, NEW a, a = arg[p], DropTable(p) PROVE HInv'
<1>1. /\ pc[p] = "drop" /\ Moved(p, "dropped", a) /\ UNCHANGED <<coll, docs, calls, may, tangled>>
      /\ lock \in {Nobody, p} /\ Users = {} /\ table' = NoTable
      /\ stale' = (stale \/ (coll # NoRow /\ coll.made # a.coll.made))
    BY Facts DEF DropTable, Proceeds, MayMutate, At, Moved
<1>2. /\ HistoryOK /\ TableInv /\ calls \in Nat /\ Relies(p, "drop", a) /\ \A d \in Docs : DocInv(d)
    BY <1>1, HistoryFacts
<1>3. HistoryOK' /\ TableInv'
    BY <1>1, <1>2 DEF HistoryOK, TableInv
<1>4. Tracked' => Tracked /\ table = NoTable
    BY <1>1, <1>2 DEF Tracked, Relies, HistoryOK, TableInv
<1>5. ASSUME NEW d \in Docs PROVE DocInv(d)'
    BY <1>1, <1>2, <1>4 DEF DocInv, Rec, Sound, Chunks
<1>6. Relies(p, "dropped", a)'
    BY <1>1, <1>2 DEF Relies, Cleaning, Writes
<1>7. \A q \in Threads : \A t, b : q # p /\ t = pc[q] /\ b = arg[q] => Relies(q, t, b)'
    BY <1>1, <1>2, CleanupKeepsOthers
<1>. QED BY <1>1, <1>3, <1>5, <1>6, <1>7, MoveKeeps

LEMMA DeleteDocumentRowsTells ==
    ASSUME IInv, IInv', HInv, NEW p \in Threads, NEW a, a = arg[p], DeleteDocumentRows(p) PROVE HInv'
<1>1. /\ pc[p] = "catalog" /\ Moved(p, "last", a) /\ UNCHANGED <<coll, table, calls, may, stale>>
      /\ lock = p /\ Users = {} /\ docs' = [d \in Docs |-> NoRow] /\ tangled' = {}
    BY Facts DEF DeleteDocumentRows, At, Moved, Holding
<1>2. /\ HistoryOK /\ TableInv /\ calls \in Nat /\ Relies(p, "catalog", a)
    BY <1>1, HistoryFacts
<1>3. HistoryOK' /\ TableInv'
    BY <1>1, <1>2 DEF HistoryOK, TableInv
<1>4. ~Tracked'
    BY <1>1, <1>2 DEF Tracked, Relies
<1>5. ASSUME NEW d \in Docs PROVE DocInv(d)'
    <2>1. docs'[d] = NoRow
        BY <1>1
    <2>. QED BY <1>4, <2>1 DEF DocInv, Rec
<1>6. Relies(p, "last", a)'
    BY <1>1, <1>2 DEF Relies, Cleaning, Writes
<1>7. \A q \in Threads : \A t, b : q # p /\ t = pc[q] /\ b = arg[q] => Relies(q, t, b)'
    BY <1>1, <1>2, CleanupKeepsOthers
<1>. QED BY <1>1, <1>3, <1>5, <1>6, <1>7, MoveKeeps

LEMMA DeleteCollectionRowTells ==
    ASSUME IInv, IInv', HInv, NEW p \in Threads, DeleteCollectionRow(p) PROVE HInv'
<1>1. /\ pc[p] = "last" /\ Moved(p, "idle", None) /\ UNCHANGED <<docs, table, calls, tangled, stale>>
      /\ lock = p /\ Users = {} /\ coll' = NoRow /\ may' = [d \in Docs |-> {Gone}]
      /\ \A d \in Docs : docs[d] = NoRow
    BY Facts DEF DeleteCollectionRow, Done, At, With, Moved, Holding
<1>2. /\ HistoryOK /\ calls \in Nat /\ table = NoTable
    BY <1>1, HistoryFacts DEF Relies
<1>3. HistoryOK' /\ TableInv'
    BY <1>1, <1>2 DEF HistoryOK, TableInv
<1>4. ASSUME NEW d \in Docs PROVE DocInv(d)'
    <2>1. docs'[d] = NoRow /\ Gone \in may'[d] /\ Chunks(d)' = {}
        BY <1>1, <1>2 DEF Chunks
    <2>. QED BY <2>1 DEF DocInv, Rec, Sound
<1>5. Relies(p, "idle", None)'
    BY DEF Relies, Cleaning, Writes
<1>6. \A d \in Docs : Gone \in may'[d]
    BY <1>1
<1>7. \A q \in Threads : \A t, b : q # p /\ t = pc[q] /\ b = arg[q] => Relies(q, t, b)'
    BY <1>1, <1>2, <1>6, CleanupKeepsOthers
<1>. QED BY <1>1, <1>3, <1>4, <1>5, <1>7, MoveKeeps

LEMMA CleanupTells ==
    ASSUME IInv, IInv', HInv, NEW p \in Threads, pc[p] = "idle", Free, coll # NoRow, Cleanup(p),
           calls' \in Nat, calls' >= calls
    PROVE  HInv'
<1>0. /\ HistoryOK /\ TableInv /\ calls \in Nat /\ DOMAIN may = Docs /\ coll \in CollRows /\ WellPhased(coll)
      /\ \A d \in Docs : DocInv(d)
    BY HistoryFacts, Facts DEF StateOK
<1>1. PICK c : c = Marked
    OBVIOUS
<1>2. /\ c \in CollRows /\ c # NoRow /\ c.status = "deleting" /\ c.made = coll.made
      /\ c.phase # "drop_table" => table = NoTable
    <2>1. CASE coll.status = "deleting"
        BY <1>0, <1>1, <2>1 DEF Marked, WellPhased, TableInv
    <2>2. CASE coll.status # "deleting"
        <3>1. c = [coll EXCEPT !.status = "deleting", !.phase = "drop_table"]
            BY <1>1, <2>2 DEF Marked
        <3>2. c \in CollRows /\ c.status = "deleting" /\ c.made = coll.made /\ c.phase = "drop_table"
            BY <1>0, <3>1 DEF CollRows
        <3>. QED BY <3>2, NoRowNoRecord
    <2>. QED BY <2>1, <2>2
<1>3. PICK s, a : s = (IF c.phase = "drop_table" THEN "drop" ELSE "catalog") /\ a = [coll |-> c]
    OBVIOUS
<1>4. /\ Moved(p, s, a) /\ coll' = c /\ UNCHANGED <<docs, table, tangled, stale>> /\ lock = Nobody
      /\ may' = [d \in Docs |-> may[d] \cup {Gone}]
    BY <1>1, <1>3 DEF Cleanup, Free, At, With, Moved
<1>5. coll.made < calls /\ coll.made \in Nat /\ c.made < calls'
    BY <1>0, <1>2, MadeWhen DEF TableInv
<1>6. HistoryOK'
    BY <1>0, <1>4 DEF HistoryOK
<1>7. TableInv'
    BY <1>2, <1>4, <1>5 DEF TableInv
<1>8. ~Tracked'
    BY <1>2, <1>4 DEF Tracked
<1>9. ASSUME NEW d \in Docs PROVE DocInv(d)'
    <2>1. Gone \in may'[d]
        BY <1>4
    <2>. QED BY <1>8, <2>1 DEF DocInv
<1>10. Relies(p, s, a)'
    <2>1. a.coll = c
        BY <1>3
    <2>2. s \in {"drop", "catalog"} /\ (s = "catalog" => table' = NoTable)
        BY <1>2, <1>3, <1>4
    <2>. QED BY <1>2, <1>4, <1>5, <2>1, <2>2 DEF Relies, Cleaning, Writes
<1>11. \A d \in Docs : may[d] \subseteq may'[d]
    BY <1>4
<1>12. \A q \in Threads : \A t, b : q # p /\ t = pc[q] /\ b = arg[q] => Relies(q, t, b)'
    BY <1>0, <1>2, <1>4, <1>8, <1>11, CleanupKeepsOthers
<1>. QED BY <1>4, <1>6, <1>7, <1>9, <1>10, <1>12, MoveKeeps

-----------------------------------------------------------------------------
(* Every step.                                                             *)

LEMMA SameTells ==
    ASSUME HInv, UNCHANGED <<durable, history, calls>>,
           UNCHANGED <<pc, arg, lock>> \/ \A p \in Threads : pc'[p] = "idle"
    PROVE  HInv'
<1>1. /\ HistoryOK /\ TableInv /\ Relying /\ \A d \in Docs : DocInv(d)
      /\ UNCHANGED <<coll, docs, table, may, tangled, stale, calls>>
    BY DEF HInv, durable, history
<1>2. HistoryOK' /\ TableInv'
    BY <1>1 DEF HistoryOK, TableInv
<1>3. ASSUME NEW d \in Docs PROVE DocInv(d)'
    BY <1>1 DEF DocInv, Tracked, Rec, Sound, Chunks
<1>4. Relying'
    <2>1. CASE UNCHANGED <<pc, arg, lock>>
        <3>1. ASSUME NEW p \in Threads, NEW s, NEW a, Relies(p, s, a) PROVE Relies(p, s, a)'
            <4>1. /\ OnTrack(a)' = OnTrack(a) /\ Last(a)' = Last(a) /\ Rec(a.doc)' = Rec(a.doc)
                  /\ Chunks(a.doc)' = Chunks(a.doc) /\ Tracked' = Tracked
                BY <1>1, <2>1 DEF Tracked, OnTrack, Last, Rec, Chunks, WritersOf, Writing
            <4>. QED BY <1>1, <2>1, <3>1, <4>1 DEF Relies
        <3>. QED BY <1>1, <2>1, <3>1 DEF Relying
    <2>2. CASE \A p \in Threads : pc'[p] = "idle"
        BY <2>2 DEF Relying, Relies, Cleaning, Writes
    <2>. QED BY <2>1, <2>2
<1>. QED BY <1>2, <1>3, <1>4 DEF HInv

LEMMA ClientCallTells ==
    ASSUME IInv, IInv', HInv, NEW p \in Clients, ClientCall(p) PROVE HInv'
<1>1. CASE DeleteCollection(p)
    <2>1. calls \in Nat /\ calls' = calls + 1 /\ p \in Threads
        BY <1>1, HistoryFacts, ThreadNames DEF DeleteCollection, Call
    <2>2. calls' \in Nat /\ calls' >= calls
        BY <2>1
    <2>. QED BY <1>1, <2>1, <2>2, CleanupTells DEF DeleteCollection, Call
<1>. QED BY <1>1, CreateCollectionTells, BeginQueryTells, DeleteDocumentTells, BeginWriteTells DEF ClientCall

LEMMA ProgressTells ==
    ASSUME IInv, IInv', HInv, NEW p \in Threads, Progress(p) PROVE HInv'
<1>1. CASE CollectionStep(p)
    BY <1>1, DropTableTells, RecordDropTells, DeleteDocumentRowsTells, DeleteCollectionRowTells
       DEF CollectionStep
<1>2. CASE DocumentStep(p)
    BY <1>2, RefreshActivityTells, SettleTells, DeleteChunksTells, TableHasGoneTells, DeleteRowTells
       DEF DocumentStep
<1>3. CASE p \in Clients /\ ClientStep(p)
    BY <1>3, WriteChunksTells, CommitRowTells, EndQueryTells DEF ClientStep
<1>. QED BY <1>1, <1>2, <1>3 DEF Progress

LEMMA ReconcileTells ==
    ASSUME IInv, IInv', HInv, Reconcile PROVE HInv'
<1>1. CASE RetireCollection
    <2>1. calls \in Nat /\ calls' = calls /\ Reconciler \in Threads
        BY <1>1, HistoryFacts, ThreadNames DEF RetireCollection
    <2>2. calls' \in Nat /\ calls' >= calls
        BY <2>1
    <2>. QED BY <1>1, <2>1, <2>2, CleanupTells DEF RetireCollection
<1>. QED BY <1>1, ReconcileDocumentTells, NothingToRecoverTells, RollForwardTells, RollBackTells,
            ResumeRefreshTells, ResumeDeletionTells DEF Reconcile

LEMMA FailureTells ==
    ASSUME IInv, IInv', HInv, Failure PROVE HInv'
<1>1. CASE Crash
    BY <1>1, SameTells DEF Crash
<1>. QED BY <1>1, CleanupFailsTells, DeletionFailsTells, WriteFailsTells, RefreshFailsTells DEF Failure

LEMMA StepTells == IInv /\ IInv' /\ HInv /\ [Next]_vars => HInv'
<1>. SUFFICES ASSUME IInv, IInv', HInv, [Next]_vars PROVE HInv'
    OBVIOUS
<1>1. CASE UNCHANGED vars
    BY <1>1, SameTells DEF vars
<1>2. CASE Next
    BY <1>1, <1>2, ClientCallTells, ProgressTells, ReconcileTells, FailureTells, ExpireTells DEF Next, Rest
<1>. QED BY <1>1, <1>2

LEMMA AccountsSettle == IInv /\ HInv => SettledIsTrue
<1>. SUFFICES ASSUME IInv, HInv, NEW d \in Docs, Stable(d), d \notin tangled, ~stale
              PROVE  Shown(d) \in may[d] /\ Chunks(d) = {Shown(d)} \ {Gone}
    BY DEF SettledIsTrue
<1>1. Sound(d) /\ Rec(d) = ""
    BY DEF HInv, DocInv, Tracked, Stable
<1>2. CASE docs[d] = NoRow
    BY <1>1, <1>2 DEF Sound, Shown
<1>3. CASE docs[d] # NoRow
    <2>1. docs[d].cur \in Versions \cap may[d] /\ Chunks(d) = {docs[d].cur}
        BY <1>1, <1>3 DEF Sound, Rec
    <2>. QED BY <1>3, <2>1, CollectionStoreAssumption DEF Shown
<1>. QED BY <1>2, <1>3

\* Whatever fails or crashes on the way, and however often the reconciler has
\* to start again: a document that needs no recovery is what the last answered
\* call left or a later one asked for, and its chunks and its row agree; but
\* for the two ways the code loses track that SettledIsTrue names
\* (_reconcile_document_row_locked, write_chunks, delete_document).
THEOREM SettledDocumentsAreTrue == Spec => []SettledIsTrue
<1>. QED BY InitInv, StepKeeps, InitHistory, StepTells, AccountsSettle, PTL DEF Spec
=============================================================================
