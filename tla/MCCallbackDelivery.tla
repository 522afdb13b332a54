------------------------- MODULE MCCallbackDelivery -------------------------
(***************************************************************************)
(* A small instance of CallbackDelivery: one coroutine, so that the first  *)
(* deferred callback takes the last slot; Again are the items that may be  *)
(* delivered twice.                                                        *)
(***************************************************************************)
EXTENDS CallbackDelivery

CONSTANT Again

MCLeft == [i \in Items |-> IF i \in Again THEN 2 ELSE 1]
=============================================================================
