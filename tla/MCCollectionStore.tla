------------------------- MODULE MCCollectionStore -------------------------
(***************************************************************************)
(* Small instances of CollectionStore for TLC.                             *)
(*                                                                         *)
(* calls: two request threads and the reconciler, one document of two      *)
(* versions, five calls and two faults.  That is enough for a collection   *)
(* to be deleted and made again while a cleanup of the first one waits,    *)
(* and for a replacement to meet what a failed call left.                  *)
(* recovery: the calls of one client, one after another.                   *)
(***************************************************************************)
EXTENDS CollectionStore

CONSTANTS c1, c2, d1, v1, v2
=============================================================================
