---------------------------- MODULE DocumentLife ----------------------------
(***************************************************************************)
(* What the split service promises about uploaded documents, whatever the  *)
(* broker, the workers, the callbacks and the clock do: a document is      *)
(* accepted or not, is delivered a bounded number of times, ends once, and *)
(* when it ends well and its rows were asked for, the rows are kept.       *)
(*                                                                         *)
(* A document is "gone" when its upload was rolled back, its job expired,  *)
(* or the gateway was replaced.  Several documents may move in one step: a *)
(* sweep fails all those it exhausts, a lost gateway takes all with it.    *)
(***************************************************************************)
EXTENDS Naturals

CONSTANTS
    Docs,
    Retained,            (* the documents whose rows the client asked for      *)
    MaxDeliveryAttempts  (* a natural number                                   *)

VARIABLES
    view,         (* [Docs -> what a client that asks is told]                 *)
    deliveries,   (* [Docs -> Nat]: how often a worker began to execute it     *)
    kept          (* the documents whose rows the gateway has                  *)

vars == <<view, deliveries, kept>>

Init ==
    /\ view = [d \in Docs |-> "unknown"]
    /\ deliveries = [d \in Docs |-> 0]
    /\ kept = {}

Views(d, from, to) == view[d] = from /\ view'[d] = to
SameView(d) == view'[d] = view[d]
SameDeliveries(d) == deliveries'[d] = deliveries[d]
SameRows(d) == d \in kept' <=> d \in kept

Accept(d) == Views(d, "unknown", "pending") /\ SameDeliveries(d) /\ SameRows(d)

\* The first delivery is what a client sees; a lost one is repeated unseen, and
\* one of a document that has ended or gone changes nothing any more.
Deliver(d) ==
    /\ deliveries[d] < MaxDeliveryAttempts
    /\ deliveries'[d] = deliveries[d] + 1
    /\ \/ Views(d, "pending", "processing")
       \/ view[d] \notin {"unknown", "pending"} /\ SameView(d)
    /\ SameRows(d)

Complete(d) ==
    /\ Views(d, "processing", "completed") /\ SameDeliveries(d)
    /\ d \in kept' <=> d \in Retained

Fail(d) == Views(d, "processing", "failed") /\ SameDeliveries(d) /\ SameRows(d)

\* Rows may arrive for a document that has ended otherwise, or is gone.
Keep(d) ==
    /\ d \in Retained /\ deliveries[d] > 0 /\ view[d] # "processing"
    /\ d \in kept' /\ SameView(d) /\ SameDeliveries(d)

Vanish(d) ==
    /\ view[d] # "unknown" /\ view'[d] = "gone"
    /\ SameDeliveries(d) /\ SameRows(d)

Expire(d) ==
    /\ view[d] = "gone" /\ d \notin kept'
    /\ SameView(d) /\ SameDeliveries(d)

Stay(d) == SameView(d) /\ SameDeliveries(d) /\ SameRows(d)

Next ==
    \A d \in Docs :
        \/ Stay(d) \/ Accept(d) \/ Deliver(d) \/ Complete(d) \/ Fail(d)
        \/ Keep(d) \/ Vanish(d) \/ Expire(d)

Spec == Init /\ [][Next]_vars
=============================================================================
