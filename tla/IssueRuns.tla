------------------------------ MODULE IssueRuns ------------------------------
(***************************************************************************)
(* What dispatch promises about one Linear issue: its runs are numbered    *)
(* without gaps, a start delivery opens at most one of them, a run opens   *)
(* only when every earlier one has ended, and a run that has a Workflow    *)
(* instance keeps it.                                                      *)
(***************************************************************************)
EXTENDS Integers

CONSTANTS Delivery, Run, NoDelivery

VARIABLES opener,     \* opener[r]: the delivery that opened run r, or NoDelivery
          started,    \* the runs that have a Workflow instance
          ended       \* the runs that have reached a terminal status

vars == <<opener, started, ended>>

Init == /\ opener = [r \in Run |-> NoDelivery]
        /\ started = {}
        /\ ended = {}

Opened == {r \in Run : opener[r] # NoDelivery}

Open(r, d) == /\ Opened = {q \in Run : q < r}
              /\ Opened \subseteq ended
              /\ \A q \in Opened : opener[q] # d
              /\ opener' = [opener EXCEPT ![r] = d]
              /\ UNCHANGED <<started, ended>>

Start(r) == /\ r \in Opened
            /\ started' = started \cup {r}
            /\ UNCHANGED <<opener, ended>>

End(r) == /\ r \in started
          /\ ended' = ended \cup {r}
          /\ UNCHANGED <<opener, started>>

Next == \E r \in Run : Start(r) \/ End(r) \/ \E d \in Delivery : Open(r, d)

Spec == Init /\ [][Next]_vars
=============================================================================
