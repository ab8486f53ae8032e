------------------------------ MODULE RunLedger ------------------------------
(***************************************************************************)
(* The row of one run in orchestration_runs, its transitions and waits, and *)
(* everyone who writes them: the durable program of each Workflow instance  *)
(* (workflow-orchestrator.ts), an operator who binds the run to a new       *)
(* instance (workflow-runtime-recovery.ts, stage-retry.ts) and the cron     *)
(* that fails a run whose instance completed too early                      *)
(* (workflow-completion-reconciler.ts).  An instance is named by the visit  *)
(* it was bound at, as its identity is derived from that visit.             *)
(***************************************************************************)
EXTENDS Naturals

CONSTANTS
  Deliveries,   \* signed Linear events sent to the run
  NoDelivery,
  Replies,      \* what an event may be to a wait: received, canceled, rejected
  Operators,    \* operators' requests that may be under way at once
  MaxVisit,     \* bound on the run's visits
  MaxFaults     \* bound on lost step results, thrown steps, failed calls

ASSUME LedgerAssumption ==
  /\ NoDelivery \notin Deliveries
  /\ {"program", "operator"} \cap Deliveries = {}
  /\ Replies \subseteq {"received", "canceled", "rejected"}
  /\ MaxVisit \in Nat \ {0}
  /\ MaxFaults \in Nat

Visits == 1..MaxVisit

\* The definition's nodes: an agent's node, the wait for a merge, the wait
\* review_reconciliation and the ends of the graph.
Waits == {"merge", "review"}
Ends == {"succeeded", "canceled", "failed"}
Nodes == {"work"} \cup Waits \cup Ends
StatusOf(n) == IF n = "work" THEN "active"
               ELSE IF n = "merge" THEN "awaiting_capability"
               ELSE IF n = "review" THEN "manual_reconciliation_required" ELSE n
Statuses == {StatusOf(n) : n \in Nodes}

\* The edges of an agent's outcomes and of a wait's events.
Outcomes == {"completed", "merge_needed", "finished", "failed", "manual"}
AgentEdge == [completed |-> "work", merge_needed |-> "merge", manual |-> "review",
              finished |-> "succeeded", failed |-> "failed"]
WaitEdge(n, e) == IF e = "canceled" THEN "canceled"
                  ELSE IF n = "merge" THEN "work" ELSE "review"

VARIABLES
  run,        \* the run's row
  intent,     \* the instance dispatch_intents names
  ledger,     \* workflow_transitions_v2
  wait,       \* workflow_waits, by the visit they were made for
  attempt,    \* the agent attempt of a visit, or its outcome
  program,    \* where each instance's program is, and what it remembers
  inbox,      \* workflow_event_inbox and the instance the event was sent to
  audit,      \* workflow_wait_deliveries
  retry,      \* recoveries and stage retries, by the visit they lead to
  operator,   \* an operator's request
  recon,      \* workflow_completion_reconciliations
  cron,       \* the scheduled scan
  faults

vars == <<run, intent, ledger, wait, attempt, program, inbox, audit, retry,
          operator, recon, cron, faults>>

Row == [node : Nodes, visit : Visits, status : Statuses, bound : Visits,
        premature : BOOLEAN]
\* by is who moved the run: the program, a delivery or an operator.
Transition == [from : Nodes, to : Nodes, visit : Visits,
               by : {"program", "operator"} \cup Deliveries]
Running == {"start", "authority", "agent", "commit", "find_wait", "sleep",
            "claim", "decide", "already", "mark"}
Program == [pc : Running \cup {"off", "complete", "errored"}, seen : Row,
            to : Nodes, wait : Visits, d : Deliveries \cup {NoDelivery}]
NoRetry == [kind |-> "none", source |-> 1, state |-> "none"]
OpState == [pc : {"idle", "check", "prepare", "locate", "observe"},
            kind : {"runtime", "stage"}, source : Visits, visit : Visits]

TypeOK ==
  /\ run \in Row
  /\ intent \in Visits
  /\ ledger \subseteq Transition
  /\ wait \in [Visits -> {"none", "awaiting", "canceled", "consumed"}]
  /\ attempt \in [Visits -> {"none", "active"} \cup Outcomes]
  /\ program \in [Visits -> Program]
  /\ inbox \in [Deliveries -> [state : {"none", "sent", "claimed", "processed"},
                               to : Visits, reply : Replies \cup {"none"}]]
  /\ audit \in [Deliveries -> {"none", "resumed", "canceled", "rejected",
                               "already_consumed"}]
  /\ retry \in [Visits -> [kind : {"none", "runtime", "stage"}, source : Visits,
                           state : {"none", "pending", "established"}]]
  /\ operator \in [Operators -> OpState]
  /\ recon \in {"none", "conflict", "pending_notice", "notified"}
  /\ cron \in [pc : {"idle", "get", "reconcile", "notice", "mark"},
               row : [node : Nodes, status : Statuses, bound : Visits]]
  /\ faults \in 0..MaxFaults

FirstRow == [node |-> "work", visit |-> 1, status |-> "active", bound |-> 1,
             premature |-> FALSE]
NewProgram(pc) == [pc |-> pc, seen |-> FirstRow, to |-> "work", wait |-> 1,
                   d |-> NoDelivery]
\* What the scan keeps of a row to compare with.
Candidate(row) == [node |-> row.node, status |-> row.status, bound |-> row.bound]
Idle == [pc |-> "idle", kind |-> "runtime", source |-> 1, visit |-> 1]

Init ==
  /\ run = FirstRow
  /\ intent = 1
  /\ ledger = {}
  /\ wait = [v \in Visits |-> "none"]
  /\ attempt = [v \in Visits |-> "none"]
  /\ program = [i \in Visits |-> NewProgram(IF i = 1 THEN "start" ELSE "off")]
  /\ inbox = [d \in Deliveries |-> [state |-> "none", to |-> 1, reply |-> "none"]]
  /\ audit = [d \in Deliveries |-> "none"]
  /\ retry = [v \in Visits |-> NoRetry]
  /\ operator = [o \in Operators |-> Idle]
  /\ recon = "none"
  /\ cron = [pc |-> "idle", row |-> Candidate(FirstRow)]
  /\ faults = 0

Fault == faults < MaxFaults /\ faults' = faults + 1
NoFault == UNCHANGED faults

-----------------------------------------------------------------------------
(* One instance's program.  A step whose result is lost runs again, with its *)
(* writes kept; a program waits, claims and moves on what it has seen.       *)

At(i, pc) == program[i].pc = pc
\* A turn of the loop, and an end, leave nothing behind in memory.
Is(i, pc) == program' = IF pc \in {"authority", "errored", "complete"}
                        THEN [program EXCEPT ![i] = NewProgram(pc)]
                        ELSE [program EXCEPT ![i].pc = pc]
StepEnds(i, pc) == \/ Is(i, pc) /\ NoFault
                   \/ UNCHANGED program /\ Fault
Events == <<inbox, audit>>
ByOperator == <<operator, retry, intent>>
ByCron == <<recon, cron>>
Outside == <<ByOperator, ByCron>>

\* runCaptured, each time an instance is started or replayed.
Start(i) ==
  /\ At(i, "start")
  /\ Is(i, IF run.bound = i THEN "authority" ELSE "errored")
  /\ UNCHANGED <<run, ledger, wait, attempt, faults, Events, Outside>>

\* An instance that is no longer the run's fails when it is replayed.
Replay(i) ==
  /\ program[i].pc \in Running \ {"start"}
  /\ run.bound # i
  /\ Is(i, "errored")
  /\ UNCHANGED <<run, ledger, wait, attempt, faults, Events, Outside>>

\* authority: the row is read, and the node decides; its status does not.
Authority(i) ==
  /\ At(i, "authority")
  /\ IF run.node \in Ends
     THEN Is(i, IF run.node = "failed" THEN "errored" ELSE "complete")
     ELSE program' = [program EXCEPT ![i].seen = run,
                        ![i].pc = IF run.node = "work" THEN "agent" ELSE "find_wait"]
  /\ UNCHANGED <<run, ledger, wait, attempt, faults, Events, Outside>>

\* executeAgent makes the visit's attempt, or finds how it ended.
BeginAgent(i) ==
  LET v == program[i].seen.visit IN
  /\ At(i, "agent")
  /\ attempt[v] = "none"
  /\ attempt' = [attempt EXCEPT ![v] = "active"]
  /\ Is(i, "authority")
  /\ UNCHANGED <<run, ledger, wait, faults, Events, Outside>>

EndAgent(i) ==
  LET v == program[i].seen.visit IN
  /\ At(i, "agent")
  /\ attempt[v] # "none"
  /\ \E o \in IF attempt[v] = "active" THEN Outcomes ELSE {attempt[v]} :
       /\ attempt' = [attempt EXCEPT ![v] = o]
       /\ program' = [program EXCEPT ![i].pc = "commit", ![i].to = AgentEdge[o]]
  /\ UNCHANGED <<run, ledger, wait, faults, Events, Outside>>

\* A step that throws through its retries ends the instance.
Throw(i) ==
  /\ program[i].pc \in {"agent", "commit"}
  /\ Is(i, "errored")
  /\ Fault
  /\ UNCHANGED <<run, ledger, wait, attempt, Events, Outside>>

Matches(row) == run.node = row.node /\ run.visit = row.visit /\ run.status = row.status
\* Mutant: the visit is not advanced.
MovedInPlace(to) == [run EXCEPT !.node = to, !.status = StatusOf(to), !.premature = FALSE]
Moved(to) == [run EXCEPT !.node = to, !.visit = @ + 1, !.status = StatusOf(to),
                         !.premature = FALSE]
Written(from, to, by) == ledger \cup {[from |-> from.node, to |-> to,
                                       visit |-> from.visit, by |-> by]}
\* transitionIdentity names the run and the visit that is left.
Identified(v) == \E t \in ledger : t.visit = v /\ t.by # "operator"

\* compareAndSetNode; a stale or a replayed commit only reads the row again.
Commit(i) ==
  LET p == program[i] IN
  /\ At(i, "commit")
  /\ IF Matches(p.seen) /\ ~Identified(p.seen.visit)
     THEN /\ run.visit < MaxVisit
          /\ run' = Moved(p.to)
          /\ ledger' = Written(p.seen, p.to, "program")
          /\ wait' = IF p.to \in Waits
                     THEN [wait EXCEPT ![p.seen.visit + 1] = "awaiting"] ELSE wait
     ELSE UNCHANGED <<run, ledger, wait>>
  /\ StepEnds(i, "authority")
  /\ UNCHANGED <<attempt, Events, Outside>>

\* findOpenWait; without one the program ends with durable_wait_missing.
Open(n) == {v \in Visits : /\ wait[v] = "awaiting"
                           /\ \E t \in ledger : t.visit + 1 = v /\ t.to = n}
FindWait(i) ==
  LET found == Open(program[i].seen.node) IN
  /\ At(i, "find_wait")
  /\ \/ found = {} /\ Is(i, "errored")
     \/ \E v \in found :
          /\ \A u \in found : u <= v
          /\ program' = [program EXCEPT ![i].pc = "sleep", ![i].wait = v]
  /\ UNCHANGED <<run, ledger, wait, attempt, faults, Events, Outside>>

\* An event wakes the instance it was sent to, and may do so again.
Wake(i) ==
  /\ At(i, "sleep")
  /\ \E d \in Deliveries :
       /\ inbox[d].to = i /\ inbox[d].state # "none"
       /\ program' = [program EXCEPT ![i].pc = "claim", ![i].d = d]
  /\ UNCHANGED <<run, ledger, wait, attempt, faults, Events, Outside>>

\* claimInboxEvent: the step that finds its own claim takes the event for gone.
\* Mutant: an event that was claimed before is claimed again.
ClaimableAgain(d) == inbox[d].state # "none"
Claimable(d) == inbox[d].state = "sent"
Claim(i) ==
  LET d == program[i].d IN
  /\ At(i, "claim")
  /\ IF Claimable(d)
     THEN inbox' = [inbox EXCEPT ![d].state = "claimed"] /\ StepEnds(i, "decide")
     ELSE UNCHANGED inbox /\ Is(i, "authority") /\ NoFault
  /\ UNCHANGED <<run, ledger, wait, attempt, audit, Outside>>

Audited(d, x) == audit' = [audit EXCEPT ![d] = IF @ = "none" THEN x ELSE @]

Reject(i) ==
  LET d == program[i].d IN
  /\ At(i, "decide") /\ inbox[d].reply = "rejected"
  /\ Audited(d, "rejected")
  /\ Is(i, "mark")
  /\ UNCHANGED <<run, ledger, wait, attempt, inbox, faults, Outside>>

\* Mutant: the event's outcome is written for the decision.
DecisionIsReply(d) == inbox[d].reply
Decision(d) == IF inbox[d].reply = "canceled" THEN "canceled" ELSE "resumed"

\* consumeWait: each statement of the batch reads what those before it wrote,
\* and the answer is whether the transition and the wait name this delivery.
Consume(i) ==
  LET p == program[i]
      to == WaitEdge(p.seen.node, inbox[p.d].reply)
      mine == [from |-> p.seen.node, to |-> to, visit |-> p.seen.visit, by |-> p.d]
      eligible == /\ wait[p.wait] = "awaiting"
                  /\ run.node = p.seen.node /\ run.visit = p.seen.visit
                  /\ run.status = StatusOf(p.seen.node)
                  /\ ~Identified(p.seen.visit)
  IN
  /\ At(i, "decide") /\ inbox[p.d].reply # "rejected"
  /\ ledger' = IF eligible THEN ledger \cup {mine} ELSE ledger
  /\ IF eligible THEN run.visit < MaxVisit /\ run' = Moved(to)
     ELSE UNCHANGED run
  /\ LET written == \E t \in ledger' : t.visit = p.seen.visit /\ t.by # "operator" IN
     /\ wait' = IF written /\ wait[p.wait] = "awaiting"
                THEN [wait EXCEPT ![p.wait] = IF inbox[p.d].reply = "canceled"
                                              THEN "canceled" ELSE "consumed"]
                ELSE wait
     /\ IF written THEN Audited(p.d, Decision(p.d)) ELSE UNCHANGED audit
  /\ StepEnds(i, IF mine \in ledger' THEN "mark" ELSE "already")
  /\ UNCHANGED <<attempt, inbox, Outside>>

\* recordWaitDelivery("already_consumed").
Already(i) ==
  /\ At(i, "already")
  /\ Audited(program[i].d, "already_consumed")
  /\ Is(i, "mark")
  /\ UNCHANGED <<run, ledger, wait, attempt, inbox, faults, Outside>>

Mark(i) ==
  LET d == program[i].d IN
  /\ At(i, "mark")
  /\ inbox' = [inbox EXCEPT ![d].state = IF @ = "claimed" THEN "processed" ELSE @]
  /\ Is(i, "authority")
  /\ UNCHANGED <<run, ledger, wait, attempt, audit, faults, Outside>>

\* routeLaterEvent sends an event to the instance the run is bound to.
Send(d, reply) ==
  /\ inbox[d].state = "none"
  /\ run.status \notin Ends
  /\ inbox' = [inbox EXCEPT ![d] = [state |-> "sent", to |-> run.bound,
                                    reply |-> reply]]
  /\ UNCHANGED <<run, ledger, wait, attempt, program, audit, faults, Outside>>

\* The provider reports an instance complete that has not come to an end.
CompleteEarly(i) ==
  /\ program[i].pc \in Running
  /\ Is(i, "complete")
  /\ Fault
  /\ UNCHANGED <<run, ledger, wait, attempt, Events, Outside>>

-----------------------------------------------------------------------------
(* An operator's request.  Its target is the instance of the visit it leads   *)
(* to; the request may be repeated, and two may be under way at once.         *)

Request(o, pc) == operator[o].pc = pc
Goes(o, pc) == operator' = [operator EXCEPT ![o] = IF pc = "idle" THEN Idle
                                                  ELSE [@ EXCEPT !.pc = pc]]
OnlyAsks == UNCHANGED <<run, ledger, wait, attempt, program, Events, retry, intent,
                        ByCron, faults>>

\* The request names the run's instance and visit, as the portal showed them.
AskRuntime(o) ==
  /\ Request(o, "idle")
  /\ run.visit + 1 \in Visits
  /\ operator' = [operator EXCEPT ![o] = [pc |-> "check", kind |-> "runtime",
                    source |-> run.bound, visit |-> run.visit + 1]]
  /\ OnlyAsks

\* The request names an attempt that has failed.
AskStage(o) ==
  /\ Request(o, "idle")
  /\ \E v \in Visits :
       /\ attempt[v] \in {"failed", "manual"} /\ v + 2 \in Visits
       /\ operator' = [operator EXCEPT ![o] = [pc |-> "prepare", kind |-> "stage",
                         source |-> run.bound, visit |-> v + 2]]
  /\ OnlyAsks

\* A runtime recovery replaces no instance but an errored one.
Check(o) ==
  /\ Request(o, "check")
  /\ Goes(o, IF At(operator[o].source, "errored") THEN "prepare" ELSE "idle")
  /\ OnlyAsks

\* The rows of earlier requests: found by the source instance or the attempt.
Earlier(o) ==
  IF operator[o].kind = "runtime"
  THEN {v \in Visits : retry[v].kind = "runtime" /\ retry[v].source = operator[o].source}
  ELSE {v \in Visits : retry[v].kind = "stage" /\ v = operator[o].visit}

\* prepare's early returns: an earlier request is taken up while it is pending;
\* a stage retry only while the run still stands where that request put it.
Repeat(o) ==
  LET v == operator[o].visit IN
  /\ Request(o, "prepare")
  /\ Earlier(o) # {}
  /\ Goes(o, IF /\ Earlier(o) = {v} /\ retry[v].state = "pending"
                /\ \/ operator[o].kind = "runtime"
                   \/ /\ run.bound = v /\ run.visit = v
                      /\ run.node = "work" /\ run.status = "active"
             THEN "locate" ELSE "idle")
  /\ OnlyAsks

RuntimeEligible(o) ==
  /\ operator[o].kind = "runtime"
  /\ run.bound = operator[o].source /\ run.visit + 1 = operator[o].visit
  /\ run.node = "work" /\ run.status = "active" /\ attempt[run.visit] = "none"

\* The attempt failed on the visit before, and led where the run now stands.
StageEligible(o) ==
  /\ operator[o].kind = "stage"
  /\ run.visit + 1 = operator[o].visit /\ intent = run.bound
  /\ \/ run.node = "failed" /\ run.status = "failed"
     \/ run.node = "review" /\ run.status = StatusOf("review")
  /\ attempt[run.visit - 1] \in {"failed", "manual"}
  /\ \E t \in ledger : /\ t.visit + 1 = run.visit /\ t.from = "work"
                       /\ t.to = run.node
  /\ \A v \in Visits : attempt[v] # "active"

\* Mutant: the wait stays open.
LeftOpen(o) == wait
\* A stage retry closes the wait it leaves.
Left(o) == IF operator[o].kind = "stage" /\ wait[run.visit] = "awaiting"
           THEN [wait EXCEPT ![run.visit] = "consumed"] ELSE wait

\* prepare's batch: the run, its intent and its wait move to the new instance.
Prepare(o) ==
  LET v == operator[o].visit
      eligible == RuntimeEligible(o) \/ StageEligible(o)
  IN
  /\ Request(o, "prepare")
  /\ Earlier(o) = {}
  /\ IF eligible
     THEN /\ run' = [Moved("work") EXCEPT !.bound = v]
          /\ ledger' = Written(run, "work", "operator")
          /\ intent' = IF intent = run.bound THEN v ELSE intent
          /\ wait' = Left(o)
          /\ retry' = [retry EXCEPT ![v] = [kind |-> operator[o].kind,
                                            source |-> run.bound, state |-> "pending"]]
     ELSE UNCHANGED <<run, ledger, intent, wait, retry>>
  /\ Goes(o, IF eligible THEN "locate" ELSE "idle")
  /\ UNCHANGED <<attempt, program, Events, ByCron, faults>>

\* locateReplacement: get, else create, else get again.
Locate(o) ==
  LET v == operator[o].visit IN
  /\ Request(o, "locate")
  /\ \/ /\ program' = IF At(v, "off") THEN [program EXCEPT ![v] = NewProgram("start")]
                      ELSE program
        /\ Goes(o, "observe") /\ NoFault
     \/ UNCHANGED program /\ Goes(o, "idle") /\ Fault
  /\ UNCHANGED <<run, ledger, wait, attempt, Events, retry, intent, ByCron>>

Observed(v) == IF At(v, "errored") THEN "pending" ELSE "established"
Observe(o) ==
  LET v == operator[o].visit IN
  /\ Request(o, "observe")
  /\ retry' = [retry EXCEPT ![v].state = Observed(v)]
  /\ Goes(o, "idle")
  /\ UNCHANGED <<run, ledger, wait, attempt, program, Events, intent, ByCron, faults>>

-----------------------------------------------------------------------------
(* The completion reconciler, one candidate at a time.                        *)

CronAt(pc) == cron.pc = pc
CronGoes(pc) == cron' = IF pc \in {"idle", "notice"}
                        THEN [pc |-> pc, row |-> Candidate(FirstRow)]
                        ELSE [cron EXCEPT !.pc = pc]
OnlyLooks == UNCHANGED <<run, ledger, wait, attempt, program, Events, ByOperator>>

CronRead ==
  /\ CronAt("idle")
  /\ run.status \notin Ends
  /\ cron' = [pc |-> "get", row |-> Candidate(run)]
  /\ OnlyLooks /\ UNCHANGED <<recon, faults>>

\* An instance that does not exist makes the scan throw.
CronGet ==
  /\ CronAt("get")
  /\ CronGoes(IF At(cron.row.bound, "complete") THEN "reconcile" ELSE "idle")
  /\ OnlyLooks /\ UNCHANGED <<recon, faults>>

\* reconcileCompleted compares instance, node and status with what was read.
\* Mutant: only the instance is compared.
StillBound == run.bound = cron.row.bound
StillThere == /\ run.bound = cron.row.bound /\ run.node = cron.row.node
              /\ run.status = cron.row.status
Reconcile ==
  /\ CronAt("reconcile")
  /\ IF recon = "none" /\ StillThere
     THEN run' = [run EXCEPT !.status = "failed", !.premature = TRUE]
     ELSE UNCHANGED run
  /\ recon' = IF recon # "none" THEN recon
              ELSE IF StillThere THEN "pending_notice" ELSE "conflict"
  /\ CronGoes(IF recon' = "pending_notice" THEN "notice" ELSE "idle")
  /\ UNCHANGED <<ledger, wait, attempt, program, Events, ByOperator, faults>>

\* The notice is a comment on the Linear issue; the call may fail.
Notice ==
  /\ CronAt("notice")
  /\ \/ CronGoes("mark") /\ NoFault
     \/ CronGoes("idle") /\ Fault
  /\ OnlyLooks /\ UNCHANGED recon

MarkNotified ==
  /\ CronAt("mark")
  /\ recon' = "notified"
  /\ CronGoes("idle")
  /\ OnlyLooks /\ UNCHANGED faults

-----------------------------------------------------------------------------

ProgramStep(i) ==
  \/ Start(i) \/ Replay(i) \/ Authority(i) \/ BeginAgent(i) \/ EndAgent(i)
  \/ Throw(i) \/ Commit(i) \/ FindWait(i) \/ Wake(i) \/ Claim(i) \/ Reject(i)
  \/ Consume(i) \/ Already(i) \/ Mark(i)

OperatorStep(o) ==
  \/ AskRuntime(o) \/ AskStage(o) \/ Check(o) \/ Repeat(o) \/ Prepare(o)
  \/ Locate(o) \/ Observe(o)

CronStep == CronRead \/ CronGet \/ Reconcile \/ Notice \/ MarkNotified

Next ==
  \/ \E i \in Visits : ProgramStep(i) \/ CompleteEarly(i)
  \/ \E o \in Operators : OperatorStep(o)
  \/ \E d \in Deliveries, reply \in Replies : Send(d, reply)
  \/ CronStep

Spec == Init /\ [][Next]_vars

-----------------------------------------------------------------------------

\* The transitions are one walk of the run, from its first node to its present
\* one, with one transition for each visit that was left, whoever moved it: a
\* program, an event, an operator, or a step that ran twice (compareAndSetNode,
\* consumeWait, the two prepare batches).
LedgerIsWalk ==
  /\ \A t \in ledger : /\ t.visit < run.visit
                       /\ t.visit = 1 => t.from = "work"
                       /\ t.visit + 1 = run.visit => t.to = run.node
  /\ \A v \in 1..(run.visit - 1) : \E t \in ledger : t.visit = v
  /\ \A t, u \in ledger : /\ t.visit = u.visit => t = u
                          /\ t.visit + 1 = u.visit => t.to = u.from

\* A wait that still awaits an event is the run's own: an event that comes late
\* finds no open wait of an earlier visit (findOpenWait looks by node only, and
\* migration 0048 had to close waits that a retry had left open).
OpenWaitIsCurrent ==
  \A v \in Visits : wait[v] = "awaiting" => run.visit = v /\ run.node \in Waits

\* An event moves the run at most once, although it may wake its instance again
\* and the step that applies it may run again (claimInboxEvent, consumeWait).
EventAppliesOnce ==
  \A t, u \in ledger : t.by = u.by /\ t.by \in Deliveries => t = u

\* A run at an end of the graph stays there; only an operator's retry leaves it,
\* and only from failed.  A scan that read the row before the end does not write
\* it (reconcileCompleted), nor does a program that was replaced.
FinalStands ==
  [][run.node \in Ends /\ run' # run
       => run.node = "failed" /\ \E t \in ledger' \ ledger : t.by = "operator"]_vars

\* "Every resumable wait SHALL declare and durably persist an exact authorized
\* resume event and an exact authorized cancellation event": a run that waits has
\* the open row of its wait.  The edge received of review_reconciliation leads to
\* the same node, and consumeWait makes no row for the wait it enters.
WaitingHasWait ==
  run.node \in Waits /\ run.status = StatusOf(run.node) => wait[run.visit] = "awaiting"
=============================================================================
