------------------------------ MODULE LossyFifo ------------------------------
(***************************************************************************)
(* What the application can rely on when it hands messages for the native  *)
(* backend to WIPC.sendMsg, over any number of connections: a first-in     *)
(* first-out queue of bounded length that refuses messages when it is      *)
(* full, and loses at most one accepted message for each connection that   *)
(* has ended.                                                              *)
(***************************************************************************)
EXTENDS Naturals, Sequences

CONSTANTS
    Messages,       \* the messages
    Bound           \* most messages accepted and neither delivered nor lost

VARIABLES
    pending,        \* accepted messages that can still be delivered, in order
    delivered,      \* messages handed to the backend, in order
    lost,           \* number of accepted messages that were lost
    ended           \* number of connections that have ended

vars == <<pending, delivered, lost, ended>>

Init == pending = <<>> /\ delivered = <<>> /\ lost = 0 /\ ended = 0

(* A message is accepted; a refused one leaves no trace.                   *)
Accept == \E m \in Messages :
    /\ Len(pending) < Bound
    /\ pending' = Append(pending, m)
    /\ UNCHANGED <<delivered, lost, ended>>

(* The oldest pending message reaches the backend.                         *)
Deliver ==
    /\ pending # <<>>
    /\ delivered' = Append(delivered, Head(pending))
    /\ pending' = Tail(pending)
    /\ UNCHANGED <<lost, ended>>

(* The sequence without its i-th element, element by element: the form the *)
(* proof of the refinement can use.                                        *)
Without(s, i) == [j \in 1 .. Len(s) - 1 |-> IF j < i THEN s[j] ELSE s[j + 1]]

(* A pending message is lost, on account of an ended connection.           *)
Lose ==
    /\ lost < ended
    /\ \E i \in DOMAIN pending : pending' = Without(pending, i)
    /\ lost' = lost + 1
    /\ UNCHANGED <<delivered, ended>>

(* A connection ends, possibly with a message on its way.                  *)
End ==
    /\ ended' = ended + 1
    /\ \/ UNCHANGED <<pending, lost>>
       \/ pending # <<>> /\ pending' = Tail(pending) /\ lost' = lost + 1
    /\ UNCHANGED delivered

Next == Accept \/ Deliver \/ Lose \/ End

Spec == Init /\ [][Next]_vars
=============================================================================
