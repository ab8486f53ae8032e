------------------------------- MODULE Outbox -------------------------------
(***************************************************************************)
(* What the webhook ingress promises its callers: a delivery that was      *)
(* stored for the Queue keeps the payload it was stored with, is published *)
(* one or more times with that payload, and is closed only after that.     *)
(***************************************************************************)
CONSTANTS Delivery, Body, NoBody

VARIABLES stored,       \* stored[d]: the payload kept for d, or NoBody
          published,    \* published[d]: the payloads the Queue took for d
          closed        \* the deliveries nobody will publish again

vars == <<stored, published, closed>>

Init == /\ stored = [d \in Delivery |-> NoBody]
        /\ published = [d \in Delivery |-> {}]
        /\ closed = {}

Store(d, b) == /\ stored[d] = NoBody
               /\ stored' = [stored EXCEPT ![d] = b]
               /\ UNCHANGED <<published, closed>>

\* Publication may repeat, even after the delivery was closed by somebody else.
Publish(d) == /\ stored[d] # NoBody
              /\ published' = [published EXCEPT ![d] = @ \cup {stored[d]}]
              /\ UNCHANGED <<stored, closed>>

Close(d) == /\ published[d] # {}
            /\ closed' = closed \cup {d}
            /\ UNCHANGED <<stored, published>>

Next == \E d \in Delivery : Publish(d) \/ Close(d) \/ \E b \in Body : Store(d, b)

Spec == Init /\ [][Next]_vars
=============================================================================
