---------------------------- MODULE BoundedFifo ----------------------------
(***************************************************************************)
(* What a job queue promises its users (spec section 8): push on a full    *)
(* queue fails and leaves it unchanged, pop on an empty queue fails and    *)
(* leaves it unchanged, and items are delivered in push order.  Each       *)
(* producer's last push result and each consumer's last pop result are     *)
(* observable.                                                             *)
(***************************************************************************)
EXTENDS Naturals, Sequences

CONSTANTS Cap, Items, Producers, Consumers

VARIABLES buf, res, out

Put(p, v) ==
    /\ Len(buf) < Cap
    /\ buf' = Append(buf, v)
    /\ res' = [res EXCEPT ![p] = "ok"]
    /\ UNCHANGED out

PutFull(p) ==
    /\ Len(buf) = Cap
    /\ res' = [res EXCEPT ![p] = "full"]
    /\ UNCHANGED <<buf, out>>

Get(c) ==
    /\ buf # <<>>
    /\ out' = [out EXCEPT ![c] = Head(buf)]
    /\ buf' = Tail(buf)
    /\ UNCHANGED res

GetEmpty(c) ==
    /\ buf = <<>>
    /\ out' = [out EXCEPT ![c] = "empty"]
    /\ UNCHANGED <<buf, res>>

Init ==
    /\ buf = <<>>
    /\ res = [p \in Producers |-> "none"]
    /\ out = [c \in Consumers |-> "none"]

Next ==
    \/ \E p \in Producers : PutFull(p) \/ \E v \in Items : Put(p, v)
    \/ \E c \in Consumers : Get(c) \/ GetEmpty(c)

Spec == Init /\ [][Next]_<<buf, res, out>>
=============================================================================
