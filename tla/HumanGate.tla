------------------------------ MODULE HumanGate ------------------------------
(***************************************************************************)
(* One run at its human gates: the durable program of                      *)
(* src/src/workflow-orchestrator.ts, the Linear operation that moves the   *)
(* issue into Human Review (src/src/linear-transition.ts), the issue that  *)
(* people, bots and the app move, and the signed events those moves cause. *)
(*                                                                         *)
(* The executor records the result of every step.do and waitForEvent and   *)
(* replays the program against those records after an interruption.  wf is *)
(* where the program stands.  A step whose effect is made but whose result *)
(* is not recorded runs again (Steps); a restart goes back to the first    *)
(* unrecorded step and repeats the calls that were made outside steps      *)
(* (Restart).                                                              *)
(***************************************************************************)
EXTENDS Integers, Sequences, FiniteSets

CONSTANTS Outsider,     \* who moves the issue besides the app's own operations
          MaxVisit,     \* bound on current_visit_sequence
          MaxMove,      \* bound on Linear moves, enough for the app's own
          MaxOutside,   \* bound on the moves of outsiders
          MaxFault      \* bound on restarts, lost step results and lost wakes

ASSUME OutsiderIsKnown == Outsider \subseteq {"user", "stranger", "bot", "review"}
ASSUME Bounds == /\ {MaxVisit, MaxMove} \subseteq Nat \ {0}
                 /\ {MaxOutside, MaxFault} \subseteq Nat

VARIABLES moves,    \* history: every move of the Linear issue; an index is its delivery id and its time
          inbox,    \* inbox[e]: state of the workflow_event_inbox row of move e
          signals,  \* deliveries whose wake the executor buffers for the instance
          run,      \* the orchestration_runs row
          ledger,   \* ledger[v]: the workflow_transitions_v2 row that left visit v
          gates,    \* gates[v]: the human_gate_visits row of visit v
          ops,      \* ops[o]: the provider_operations row of the gate operation o
          wf,       \* the program of the instance
          faults    \* restarts, lost results and lost wakes so far

vars == <<moves, inbox, signals, run, ledger, gates, ops, wf, faults>>
linear == moves
store == <<inbox, run, ledger, gates, ops>>

Delivery == 1 .. MaxMove
None == 0
Visit == 1 .. MaxVisit
LinearState == {"progress", "review", "merging", "backlog", "canceled"}
\* "app" is the app's own operation; "review" is a move the app makes for a
\* review that an authorized person submitted (review_intents active).
Move == [actor : {"app", "user", "stranger", "bot", "review"},
         from : LinearState, to : LinearState]
Node == {"revise", "merge", "gate", "canceled"}
Op == {<<"enter", v>> : v \in Visit} \cup {<<"repair", e>> : e \in Delivery}
NoOp == <<"none", 0>>
OpState == {"absent", "pending", "succeeded", "failed", "reconciled",
            "manual_reconciliation_required"}
NoTransition == [from |-> "none", to |-> "none", cause |-> None]
Pc == {"load", "commit", "op_find", "op_read", "op_begin", "op_move", "op_failed", "op_ambiguous",
       "op_wait", "op_claim", "op_observe", "op_mark", "confirm", "wait", "claim", "decide",
       "choice", "mark", "mark_duplicate", "finish", "ended", "errored"}

RunStatus == {"active", "awaiting_human", "canceled"}
RunRow == [node : Node, visit : Visit, status : RunStatus]
LedgerRow == [from : Node, to : Node, cause : Delivery \cup {None}]
GateVisit == [state : {"absent", "open", "decided"}, created : 0 .. MaxMove,
              decision : Delivery \cup {None}]
Operation == [state : OpState, pre : LinearState \cup {"none"}, started : 0 .. MaxMove,
              moved : Nat, by : Delivery \cup {None}]
ProgramState == [pc : Pc, node : Node, visit : Visit, status : RunStatus,
                 op : Op \cup {NoOp}, pre : LinearState \cup {"none"},
                 e : Delivery \cup {None}, observed : OpState, continued : BOOLEAN,
                 cause : {"none", "manual", "status", "choice", "conflict"}]

TypeOK == /\ moves \in Seq(Move) /\ Len(moves) <= MaxMove
          /\ inbox \in [Delivery -> {"absent", "sent", "claimed", "processed", "duplicate"}]
          /\ signals \subseteq Delivery
          /\ run \in RunRow
          /\ ledger \in [Visit -> LedgerRow \cup {NoTransition}]
          /\ gates \in [Visit -> GateVisit]
          /\ ops \in [Op -> Operation]
          /\ wf \in ProgramState
          /\ faults \in 0 .. MaxFault

Init == /\ moves = <<>>
        /\ inbox = [e \in Delivery |-> "absent"]
        /\ signals = {}
        /\ run = [node |-> "revise", visit |-> 1, status |-> "active"]
        /\ ledger = [v \in Visit |-> NoTransition]
        /\ gates = [v \in Visit |-> [state |-> "absent", created |-> 0, decision |-> None]]
        /\ ops = [o \in Op |-> [state |-> "absent", pre |-> "none", started |-> 0,
                                moved |-> 0, by |-> None]]
        /\ wf = [pc |-> "load", node |-> "revise", visit |-> 1, status |-> "active", op |-> NoOp,
                 pre |-> "none", e |-> None, observed |-> "absent", continued |-> FALSE,
                 cause |-> "none"]
        /\ faults = 0
-----------------------------------------------------------------------------
(* Linear, the deliveries it causes, and the executor's event buffer.       *)

\* The issue's state; it is In Progress when the run starts.
Issue == IF moves = <<>> THEN "progress" ELSE moves[Len(moves)].to

\* issueUpdate to the state the issue already has changes nothing.
MovedTo(actor, s) ==
  IF Issue = s THEN moves
  ELSE Append(moves, [actor |-> actor, from |-> Issue, to |-> s])

MovedByOutsiders == Cardinality({e \in DOMAIN moves : moves[e].actor # "app"})

\* A submitted review moves the issue of an open, confirmed gate to its target.
OutsideMove(actor, s) ==
  /\ MovedByOutsiders < MaxOutside /\ Len(moves) < MaxMove
  /\ Issue # s
  /\ actor = "review" => /\ run.status = "awaiting_human" /\ Issue = "review"
                         /\ s \in {"progress", "merging"}
  /\ moves' = MovedTo(actor, s)
  /\ UNCHANGED <<store, signals, wf, faults>>

\* The Queue consumer stores the event for the active run and wakes the
\* instance; deliveries may overtake each other.
Deliver(e) ==
  /\ e \in DOMAIN moves /\ inbox[e] = "absent"
  /\ run.status # "canceled"
  /\ inbox' = [inbox EXCEPT ![e] = "sent"]
  /\ signals' = signals \cup {e}
  /\ UNCHANGED <<linear, run, ledger, gates, ops, wf, faults>>

\* A signal that was sent is not a signal that was consumed.
LoseSignal(e) ==
  /\ e \in signals /\ faults < MaxFault
  /\ signals' = signals \ {e}
  /\ faults' = faults + 1
  /\ UNCHANGED <<linear, store, wf>>

\* workflow-event-reconciliation.ts, after its recheck.
Resendable(e) ==
  /\ inbox[e] = "sent"
  /\ run.status = "awaiting_human" /\ run.node = "gate"
  /\ gates[run.visit].state = "open" /\ gates[run.visit].created < e

\* Mutant of Resend: looks for events whose wake was never sent.
ResendUnsent(e) ==
  /\ Resendable(e) /\ inbox[e] = "absent"
  /\ wf.pc \notin {"ended", "errored"}
  /\ signals' = signals \cup {e}
  /\ UNCHANGED <<linear, store, wf, faults>>

Resend(e) ==
  /\ Resendable(e)
  /\ wf.pc \notin {"ended", "errored"}
  /\ signals' = signals \cup {e}
  /\ UNCHANGED <<linear, store, wf, faults>>
-----------------------------------------------------------------------------
(* The executor.                                                            *)

At(pc) == wf.pc = pc
GoTo(pc) == [wf EXCEPT !.pc = pc]
Error(cause) == [wf EXCEPT !.pc = "errored", !.cause = cause]

\* startTransition is one step with several calls in it.
StepStart(pc) == IF pc \in {"op_read", "op_begin", "op_move", "op_failed", "op_ambiguous"}
                 THEN "op_find" ELSE pc

\* The step's result is recorded and the program moves on, or the result is
\* lost and the step runs again.
Records(next) ==
  \/ wf' = next /\ faults' = faults
  \/ /\ faults < MaxFault
     /\ faults' = faults + 1
     /\ wf' = GoTo(StepStart(wf.pc))

\* The program runs again from its start.  Recorded steps return their results;
\* the writes outside steps are made again: markInboxState finds nothing to do,
\* completeBettaViewReviewChoice of an earlier choice throws.
Restart ==
  /\ wf.pc \notin {"ended", "errored"} /\ faults < MaxFault
  /\ faults' = faults + 1
  /\ wf' = IF wf.continued THEN Error("choice") ELSE GoTo(StepStart(wf.pc))
  /\ UNCHANGED <<linear, store, signals>>
-----------------------------------------------------------------------------
(* The loop: reload D1 authority, run the node, commit an edge.             *)

\* Mutant of Loaded: a gate visit that was bound counts as entered.
LoadedIfBound == CASE run.node = "canceled" -> "ended"
                   [] run.node \in {"revise", "merge"} -> "commit"
                   [] run.node = "gate" /\ gates[run.visit].state = "open" -> "wait"
                   [] OTHER -> "op_find"

\* Where the loop goes from the run it reloaded.
Loaded == CASE run.node = "canceled" -> "ended"
            [] run.node \in {"revise", "merge"} -> "commit"
            [] run.node = "gate" /\ run.status = "awaiting_human" -> "wait"
            [] OTHER -> "op_find"

Load ==
  /\ At("load")
  /\ wf' = [wf EXCEPT !.node = run.node, !.visit = run.visit, !.status = run.status,
                      !.e = None, !.pre = "none", !.observed = "absent",
                      !.pc = Loaded,
                      !.op = IF run.node = "gate" THEN <<"enter", run.visit>> ELSE NoOp]
  /\ UNCHANGED <<linear, store, signals, faults>>

\* The edge of the step: an author or merge node completes and leads to the
\* next gate; a gate's decision was read from the claimed event.
Decision(s) == CASE s = "progress" -> "revise" [] s = "merging" -> "merge"
                 [] s = "canceled" -> "canceled" [] OTHER -> "none"
Target == IF wf.node = "gate" THEN Decision(moves[wf.e].to) ELSE "gate"
Row == [from |-> wf.node, to |-> Target, cause |-> wf.e]

Left == [ledger EXCEPT ![wf.visit] = Row]

\* The guards of compareAndSetNode's update.
Current == /\ run.node = wf.node /\ run.visit = wf.visit /\ run.status = wf.status
           /\ ledger[wf.visit] = NoTransition
           /\ wf.node = "gate" => gates[wf.visit].state = "open"

AfterRow == IF wf.node # "gate" THEN "load"
            ELSE IF moves[wf.e].actor = "review" THEN "choice" ELSE "mark"

\* Where the program goes from the row it finds: its own, none, or another.
Committed == CASE ledger'[wf.visit] = Row -> GoTo(AfterRow)
               [] ledger'[wf.visit] = NoTransition -> GoTo("mark_duplicate")
               [] ledger'[wf.visit] \notin {Row, NoTransition} -> Error("conflict")

\* compareAndSetNode: one batch advances the run, inserts the row and closes the
\* gate visit; otherwise an equal row is a replay, another row a conflict.
Commit ==
  /\ At("commit")
  /\ wf.visit < MaxVisit
  /\ IF Current
     THEN /\ run' = [node |-> Target, visit |-> wf.visit + 1,
                     status |-> IF Target = "canceled" THEN "canceled" ELSE "active"]
          /\ ledger' = Left
          /\ gates' = IF wf.node = "gate"
                      THEN [gates EXCEPT ![wf.visit].state = "decided", ![wf.visit].decision = wf.e]
                      ELSE gates
     ELSE UNCHANGED <<run, ledger, gates>>
  /\ Records(Committed)
  /\ UNCHANGED <<linear, inbox, ops, signals>>
-----------------------------------------------------------------------------
(* ensureHumanGate and restoreHumanGate: move the issue to Human Review.    *)

Confirmed(s) == s \in {"succeeded", "reconciled"}
Manual(s) == s \in {"manual_reconciliation_required", "failed"}
Entering == wf.op[1] = "enter"
SetOp(s) == [ops EXCEPT ![wf.op].state = IF @ = "pending" THEN s ELSE @]

\* What the orchestrator does with the operation's state.
AfterOp(s) == CASE Manual(s) -> Error("manual")
                [] Confirmed(s) /\ Entering -> GoTo("confirm")
                [] Confirmed(s) /\ ~Entering -> GoTo("finish")
                [] OTHER -> GoTo("op_wait")

\* Mutant of Found: an operation left pending is carried out again.
FoundMovedAgain == IF ops[wf.op].state = "pending"
                   THEN [GoTo("op_move") EXCEPT !.pre = ops[wf.op].pre]
                   ELSE AfterOp(ops[wf.op].state)

\* An operation that exists is not repeated, whatever became of its call.
Found == AfterOp(ops[wf.op].state)

\* The gate visit is bound first.
OpFind ==
  /\ At("op_find")
  /\ gates' = IF Entering /\ gates[wf.visit].state = "absent"
              THEN [gates EXCEPT ![wf.visit] = [state |-> "open", created |-> Len(moves),
                                                decision |-> None]]
              ELSE gates
  /\ wf' = IF ops[wf.op].state # "absent" THEN Found
           ELSE IF Entering THEN GoTo("op_read")
           ELSE [GoTo("op_begin") EXCEPT !.pre = moves[wf.op[2]].to]
  /\ UNCHANGED <<linear, inbox, run, ledger, ops, signals, faults>>

OpRead ==
  /\ At("op_read")
  /\ wf' = [GoTo("op_begin") EXCEPT !.pre = Issue]
  /\ UNCHANGED <<linear, store, signals, faults>>

\* begin() inserts the pending row; an issue that was read in Human Review
\* already is reconciled at once.
OpBegin ==
  /\ At("op_begin")
  /\ ops[wf.op].state = "absent"
  /\ ops' = [ops EXCEPT ![wf.op] = [state |-> "pending", pre |-> wf.pre, started |-> Len(moves),
                                    moved |-> 0, by |-> None]]
  /\ wf' = GoTo("op_move")
  /\ UNCHANGED <<linear, inbox, run, ledger, gates, signals, faults>>

OpReconcile ==
  /\ At("op_move") /\ wf.pre = "review"
  /\ ops' = SetOp("reconciled")
  /\ Records(AfterOp("reconciled"))
  /\ UNCHANGED <<linear, inbox, run, ledger, gates, signals>>

\* issueUpdate succeeds, fails, or gives no answer, made or not.
OpMove ==
  /\ At("op_move") /\ wf.pre # "review" /\ Len(moves) < MaxMove
  /\ ops' = [ops EXCEPT ![wf.op].moved = @ + 1]
  /\ \/ /\ moves' = MovedTo("app", "review")
        /\ \/ Records(AfterOp("pending"))
           \/ wf' = GoTo("op_ambiguous") /\ faults' = faults
     \/ /\ UNCHANGED <<moves, faults>>
        /\ wf' = GoTo("op_failed") \/ wf' = GoTo("op_ambiguous")
  /\ UNCHANGED <<inbox, run, ledger, gates, signals>>

OpSettle(s) ==
  /\ ops' = SetOp(s)
  /\ Records(AfterOp(s))
  /\ UNCHANGED <<linear, inbox, run, ledger, gates, signals>>

OpFailed == At("op_failed") /\ OpSettle("failed")
OpAmbiguous == At("op_ambiguous") /\ OpSettle("manual_reconciliation_required")
-----------------------------------------------------------------------------
(* observeGateOperation: wait for the signed event of that move.            *)

\* Mutant of NotYet: a repair also goes back to the loop.
NotYetReloads == GoTo("load")

\* Entering the gate reloads authority after every event and every timeout; a
\* repair waits on until its own operation is confirmed.
NotYet == IF Entering THEN GoTo("load") ELSE GoTo("op_wait")

TakeSignal(e) ==
  /\ At("op_wait") \/ At("wait")
  /\ e \in signals
  /\ signals' = signals \ {e}
  /\ wf' = [wf EXCEPT !.e = e, !.pc = IF At("wait") THEN "claim" ELSE "op_claim"]
  /\ UNCHANGED <<linear, store, faults>>

TimeOut ==
  /\ At("op_wait") \/ At("wait")
  /\ wf' = IF At("wait") THEN GoTo("load") ELSE NotYet
  /\ UNCHANGED <<linear, store, signals, faults>>

\* claimInboxEvent takes the row from pending or sent, once.
Claimable == inbox[wf.e] = "sent"
Claimed(next, lost) ==
  IF Claimable THEN inbox' = [inbox EXCEPT ![wf.e] = "claimed"] /\ Records(next)
  ELSE inbox' = inbox /\ Records(lost)

OpClaim ==
  /\ At("op_claim")
  /\ Claimed(GoTo("op_observe"), NotYet)
  /\ UNCHANGED <<linear, run, ledger, gates, ops, signals>>

\* observeHumanGateDelivery.  The app's own event must have left the state that
\* was read before the move; a newer event of a person stops the operation.
AfterStart == wf.e > ops[wf.op].started
IsApp == moves[wf.e].actor \in {"app", "review"}
IsPerson == moves[wf.e].actor \in {"user", "stranger"}
MatchesOp == /\ AfterStart /\ IsApp
             /\ moves[wf.e].from = ops[wf.op].pre /\ moves[wf.e].to = "review"
Observed == IF ops[wf.op].state # "pending" THEN ops[wf.op].state
            ELSE IF MatchesOp THEN "succeeded"
            ELSE IF AfterStart /\ IsPerson THEN "manual_reconciliation_required"
            ELSE "pending"

OpObserve ==
  /\ At("op_observe")
  /\ ops' = IF Observed = ops[wf.op].state THEN ops
            ELSE [ops EXCEPT ![wf.op].state = Observed, ![wf.op].by = wf.e]
  /\ Records([GoTo("op_mark") EXCEPT !.observed = Observed])
  /\ UNCHANGED <<linear, inbox, run, ledger, gates, signals>>

MarkInbox(e, s) == inbox' = [inbox EXCEPT ![e] = IF @ = "claimed" THEN s ELSE @]

\* markInboxState is called outside a step.
OpMark ==
  /\ At("op_mark")
  /\ MarkInbox(wf.e, "processed")
  /\ wf' = IF Manual(wf.observed) THEN Error("manual")
           ELSE IF Confirmed(wf.observed) /\ ~Entering THEN GoTo("finish")
           ELSE NotYet
  /\ UNCHANGED <<linear, run, ledger, gates, ops, signals, faults>>
-----------------------------------------------------------------------------
(* The confirmed gate: wait for a decision.                                 *)

\* setRunStatus compares node and status; a lost comparison is thrown.
Confirm ==
  /\ At("confirm")
  /\ IF run.node = wf.node /\ run.status = wf.status
     THEN /\ run' = [run EXCEPT !.status = "awaiting_human"]
          /\ Records([GoTo("wait") EXCEPT !.status = "awaiting_human"])
     ELSE /\ run' = run
          /\ wf' = Error("status") /\ faults' = faults
  /\ UNCHANGED <<linear, inbox, ledger, gates, ops, signals>>

Claim ==
  /\ At("claim")
  /\ Claimed(GoTo("decide"), GoTo("load"))
  /\ UNCHANGED <<linear, run, ledger, gates, ops, signals>>

\* evaluateNodeOutcome for a human gate: an event that did not leave Human
\* Review is unrelated; an unauthorized or unmapped one is repaired.
\* Mutant of Authorized: anybody but the app itself may decide.
AuthorizedUnlessApp == moves[wf.e].actor # "app"
Authorized == moves[wf.e].actor \in {"user", "review"}
\* Mutant of Decide: the target state of an authorized move is not looked up.
DecideUnmapped ==
  /\ At("decide")
  /\ wf' = IF moves[wf.e].from # "review" THEN GoTo("mark")
           ELSE IF Authorized THEN GoTo("commit")
           ELSE [GoTo("op_find") EXCEPT !.op = <<"repair", wf.e>>]
  /\ UNCHANGED <<linear, store, signals, faults>>

Decide ==
  /\ At("decide")
  /\ wf' = IF moves[wf.e].from # "review" THEN GoTo("mark")
           ELSE IF Authorized /\ Target # "none" THEN GoTo("commit")
           ELSE [GoTo("op_find") EXCEPT !.op = <<"repair", wf.e>>]
  /\ UNCHANGED <<linear, store, signals, faults>>

\* completeBettaViewReviewChoice, also outside a step.
CompleteChoice ==
  /\ At("choice")
  /\ wf' = [GoTo("mark") EXCEPT !.continued = TRUE]
  /\ UNCHANGED <<linear, store, signals, faults>>

Mark ==
  /\ At("mark") \/ At("mark_duplicate")
  /\ MarkInbox(wf.e, IF At("mark") THEN "processed" ELSE "duplicate")
  /\ wf' = GoTo("load")
  /\ UNCHANGED <<linear, run, ledger, gates, ops, signals, faults>>

\* finish-gate-repair: awaiting_human becomes active, or already is.
Finish ==
  /\ At("finish")
  /\ IF run.node = wf.node /\ run.status = "awaiting_human"
     THEN run' = [run EXCEPT !.status = "active"] ELSE run' = run
  /\ IF run'.node = wf.node /\ run'.visit = wf.visit /\ run'.status = "active"
     THEN MarkInbox(wf.op[2], "processed") /\ Records(GoTo("load"))
     ELSE inbox' = inbox /\ wf' = Error("status") /\ faults' = faults
  /\ UNCHANGED <<linear, ledger, gates, ops, signals>>
-----------------------------------------------------------------------------
Program == \/ Load \/ Commit \/ OpFind \/ OpRead \/ OpBegin \/ OpReconcile \/ OpMove
           \/ OpFailed \/ OpAmbiguous \/ OpClaim \/ OpObserve \/ OpMark
           \/ Confirm \/ Claim \/ Decide \/ CompleteChoice \/ Mark \/ Finish

Environment == \/ \E a \in Outsider, s \in LinearState : OutsideMove(a, s)
               \/ \E e \in Delivery : Deliver(e) \/ LoseSignal(e) \/ Resend(e)
               \/ Restart

Next == Program \/ TimeOut \/ (\E e \in Delivery : TakeSignal(e)) \/ Environment

Spec == Init /\ [][Next]_vars

\* Calls return, deliveries arrive, the event reconciler's cron runs, and a
\* buffered wake is handed over by a wait that is reached again and again.
Fairness == /\ WF_vars(Program)
            /\ \A e \in Delivery : /\ WF_vars(Deliver(e))
                                   /\ SF_vars(Resend(e))
                                   /\ SF_vars(TakeSignal(e))

FairSpec == Spec /\ Fairness
-----------------------------------------------------------------------------
\* A gate was left only for an event of an authorized person, or of the app for
\* a submitted review, that moved the issue out of Human Review to that edge.
DecidedByPerson ==
  \A v \in Visit : ledger[v].from = "gate" =>
    LET m == moves[ledger[v].cause] IN
      /\ m.actor \in {"user", "review"}
      /\ m.from = "review" /\ Decision(m.to) = ledger[v].to
      /\ gates[v].decision = ledger[v].cause

\* workflow-state spec, "Human-gate entry is retried": however often a step is
\* retried or the program restarted, an operation asks Linear to move once.
OneMovePerOperation == \A o \in Op : ops[o].moved <= 1

\* No choice is taken while a repair of the same gate is unconfirmed: an entry
\* receipt does not stand for a later restoration.
RepairsPending == {e \in Delivery : inbox[e] = "claimed" /\ ops[<<"repair", e>>].state = "pending"}
RepairBeforeChoice ==
  [][\A v \in Visit : (ledger[v] = NoTransition /\ ledger'[v].from = "gate") =>
       RepairsPending = {}]_vars

\* An event that the open gate has not claimed is claimed in the end, although
\* wakes are lost (workflow-event-reconciliation.ts).
WakeIsTaken ==
  \A e \in Delivery : (Resendable(e) ~> (~Resendable(e) \/ wf.pc \in {"ended", "errored"}))

Approval == INSTANCE GateApproval WITH
              Outcome <- {"revise", "merge", "canceled"}, Final <- "canceled",
              phase <- IF run.node = "canceled" THEN "over"
                       ELSE IF run.node # "gate" THEN "work"
                       ELSE IF run.status = "awaiting_human" THEN "awaiting" ELSE "gate",
              visit <- run.visit,
              choices <- {<<v, ledger[v].cause, ledger[v].to>> :
                            v \in {u \in Visit : ledger[u].from = "gate"}}

\* The durable program implements the plain life of a gate.
ImplementsApproval == Approval!Spec
=============================================================================
