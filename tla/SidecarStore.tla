---------------------------- MODULE SidecarStore ----------------------------
(***************************************************************************)
(* The in-memory store of sidecar metadata files                           *)
(* (service/services/sidecar_store.py, SidecarStore).                      *)
(*                                                                         *)
(* Every method holds one lock, so each is one step.  An id is drawn fresh *)
(* by every put (token_urlsafe).  An entry past its TTL stays in the       *)
(* dictionary until somebody trips over it.  A caller that does not own an *)
(* entry is answered as if it did not exist; owners are left out.          *)
(***************************************************************************)
EXTENDS Naturals, FiniteSets

CONSTANTS
    Sidecars,    (* the ids that put draws                                     *)
    SingleUse,   (* those stored with consume_on_read                          *)
    MaxEntries   (* max_entries                                                *)

VARIABLES
    entries,   (* the keys of _entries                                        *)
    expired,   (* those of them whose TTL has elapsed                         *)
    drawn      (* history: the ids that put has drawn                         *)

vars == <<entries, expired, drawn>>

Init == entries = {} /\ expired = {} /\ drawn = {}

\* put: evict what has expired, then refuse (RuntimeError) or store.
Put(s) ==
    /\ s \notin drawn
    /\ drawn' = drawn \cup {s}
    /\ expired' = {}
    /\ entries' = (entries \ expired) \cup {t \in {s} : Cardinality(entries \ expired) < MaxEntries}

Available(s) == s \in entries \ expired

\* What remains of the entries when s is consumed, or found to be expired.
LeftAfter_MutantReusable(s) == entries \ ({s} \cap expired)
LeftAfter(s) == entries \ ({s} \cap (expired \cup SingleUse))

Consume(s) ==
    /\ entries' = LeftAfter(s)
    /\ expired' = expired \ {s}
    /\ UNCHANGED drawn

Delete(s) ==
    /\ s \in entries
    /\ entries' = entries \ {s} /\ expired' = expired \ {s}
    /\ UNCHANGED drawn

\* The TTL of an entry elapses.
Expire(s) ==
    /\ Available(s)
    /\ expired' = expired \cup {s}
    /\ UNCHANGED <<entries, drawn>>
=============================================================================
