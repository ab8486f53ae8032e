---------------------------- MODULE GateApproval ----------------------------
(***************************************************************************)
(* What a run promises at its human gates: work leads to a gate, a gate    *)
(* waits for one choice, and each choice is made by a delivery of its own  *)
(* that decides that gate visit and no other.                              *)
(***************************************************************************)
EXTENDS Integers

CONSTANTS Delivery, Outcome, Final

VARIABLES phase,    \* "work", "gate", "awaiting" or "over"
          visit,    \* how many nodes the run has visited
          choices   \* choices made: <<gate visit, delivery, outcome>>

vars == <<phase, visit, choices>>

Init == phase = "work" /\ visit = 1 /\ choices = {}

Reach == /\ phase = "work" /\ phase' = "gate"
         /\ visit' = visit + 1 /\ UNCHANGED choices

Open == phase = "gate" /\ phase' = "awaiting" /\ UNCHANGED <<visit, choices>>

\* A disallowed move of the issue closes the gate until it is repaired.
Reopen == phase = "awaiting" /\ phase' = "gate" /\ UNCHANGED <<visit, choices>>

Choose(e, o) == /\ phase = "awaiting"
                /\ \A c \in choices : c[2] # e
                /\ phase' = IF o = Final THEN "over" ELSE "work"
                /\ visit' = visit + 1
                /\ choices' = choices \cup {<<visit, e, o>>}

Next == Reach \/ Open \/ Reopen \/ \E e \in Delivery, o \in Outcome : Choose(e, o)

Spec == Init /\ [][Next]_vars
=============================================================================
