--------------------------- MODULE RunLedgerProofs ---------------------------
(***************************************************************************)
(* What RunLedger.tla promises of the run's row, its transitions, waits     *)
(* and events, proved for every set of deliveries and operators, every      *)
(* bound on visits and every number of faults.                              *)
(***************************************************************************)
EXTENDS RunLedger, TLAPS

\* The first visit is at the first node, and the row of a run at an end of the
\* graph has that end's status.
RowIsSound ==
  /\ run.visit = 1 => run.node = "work"
  /\ run.node \in Ends => run.status = run.node

\* What a program saw when its step began fits the step it is in.
ProgramFits ==
  \A i \in Visits :
    /\ program[i].pc \in {"agent", "commit"} => program[i].seen.node = "work"
    /\ program[i].pc \in {"find_wait", "sleep", "claim", "decide", "already", "mark"}
       => program[i].seen.node \in Waits

\* A candidate of the scan was not at an end when its row was read.
CandidateIsOpen == cron.pc \in {"get", "reconcile"} => cron.row.status \notin Ends

\* An event is held by no program but that of the instance it was sent to.
Holding == {"claim", "decide", "already", "mark"}
HeldByAddressee ==
  \A i \in Visits : program[i].pc \in Holding =>
    /\ program[i].d \in Deliveries
    /\ inbox[program[i].d].to = i
    /\ inbox[program[i].d].state # "none"

\* An event that moved the run was claimed, and the program that decides on an
\* event it has claimed finds it applied at the visit it has seen or nowhere.
AppliedWasClaimed ==
  /\ \A t \in ledger : t.by \in Deliveries
       => inbox[t.by].state \in {"claimed", "processed"}
  /\ \A i \in Visits : program[i].pc = "decide" =>
       /\ inbox[program[i].d].state = "claimed"
       /\ \A t \in ledger : t.by = program[i].d => t.visit = program[i].seen.visit

IInv ==
  /\ TypeOK
  /\ RowIsSound
  /\ LedgerIsWalk
  /\ OpenWaitIsCurrent
  /\ ProgramFits
  /\ CandidateIsOpen
  /\ HeldByAddressee
  /\ AppliedWasClaimed
  /\ EventAppliesOnce

-----------------------------------------------------------------------------

LEMMA StatusFacts ==
  /\ \A n \in Nodes : StatusOf(n) \in Statuses
  /\ \A n \in Ends : StatusOf(n) = n
  /\ StatusOf("work") = "active"
  /\ FirstRow \in Row
  /\ 1 \in Visits
BY LedgerAssumption, SMTT(30)
   DEF StatusOf, Statuses, Nodes, Ends, Waits, FirstRow, Row, Visits

Places == Running \cup {"off", "complete", "errored"}

LEMMA NewProgramIsProgram == \A pc \in Places : NewProgram(pc) \in Program
BY StatusFacts DEF NewProgram, Program, Places, Nodes

LEMMA IsTyped ==
  ASSUME TypeOK, NEW i \in Visits, NEW pc \in Places, Is(i, pc)
  PROVE  program' \in [Visits -> Program]
<1>1. CASE pc \in {"authority", "errored", "complete"}
  BY <1>1, NewProgramIsProgram DEF TypeOK, Is
<1>2. CASE pc \notin {"authority", "errored", "complete"}
  BY <1>2 DEF TypeOK, Is, Program, Places
<1> QED BY <1>1, <1>2

LEMMA StepEndsTyped ==
  ASSUME TypeOK, NEW i \in Visits, NEW pc \in Places, StepEnds(i, pc)
  PROVE  program' \in [Visits -> Program] /\ faults' \in 0..MaxFaults
<1>1. faults' \in 0..MaxFaults
  BY LedgerAssumption DEF StepEnds, Fault, NoFault, TypeOK
<1>2. program' \in [Visits -> Program]
  BY IsTyped DEF StepEnds, TypeOK
<1> QED BY <1>1, <1>2

\* A move of the run stays within the bound that its guard checks.
LEMMA MovedTyped ==
  ASSUME TypeOK, NEW to \in Nodes, run.visit < MaxVisit
  PROVE  Moved(to) \in Row /\ run.visit + 1 \in Visits
<1>0. run \in Row
  BY DEF TypeOK
<1>1. run.visit + 1 \in Visits
  <2>1. run.visit \in Visits
    BY <1>0 DEF Row
  <2> QED BY <2>1, LedgerAssumption DEF Visits
<1>2. StatusOf(to) \in Statuses
  BY StatusFacts
<1>3. Moved(to) \in Row
  BY <1>0, <1>1, <1>2 DEF Moved, Row
<1> QED BY <1>1, <1>3

LEMMA ProgramStepTyped ==
  ASSUME TypeOK, HeldByAddressee, NEW i \in Visits, ProgramStep(i)
  PROVE  TypeOK'
<1> USE DEF Events, Outside, ByOperator, ByCron
<1>0. program[i] \in Program
  BY DEF TypeOK
<1>1. CASE Start(i)
  <2>1. program' \in [Visits -> Program]
    BY <1>1, IsTyped DEF Start, Places, Running
  <2> QED BY <1>1, <2>1 DEF Start, TypeOK
<1>2. CASE Replay(i)
  <2>1. program' \in [Visits -> Program]
    BY <1>2, IsTyped DEF Replay, Places, Running
  <2> QED BY <1>2, <2>1 DEF Replay, TypeOK
<1>3. CASE Authority(i)
  <2>1. CASE run.node \in Ends
    <3>1. program' \in [Visits -> Program]
      BY <1>3, <2>1, IsTyped DEF Authority, Places, Running
    <3> QED BY <1>3, <3>1 DEF Authority, TypeOK
  <2>2. CASE run.node \notin Ends
    <3>1. program' \in [Visits -> Program]
      BY <1>0, <1>3, <2>2 DEF Authority, TypeOK, Program, Running
    <3> QED BY <1>3, <3>1 DEF Authority, TypeOK
  <2> QED BY <2>1, <2>2
<1>4. CASE BeginAgent(i)
  <2>1. program' \in [Visits -> Program]
    BY <1>4, IsTyped DEF BeginAgent, Places, Running
  <2>2. attempt' \in [Visits -> {"none", "active"} \cup Outcomes]
    BY <1>4 DEF BeginAgent, TypeOK
  <2> QED BY <1>4, <2>1, <2>2 DEF BeginAgent, TypeOK
<1>5. CASE EndAgent(i)
  <2>1. PICK o \in Outcomes :
          /\ attempt' = [attempt EXCEPT ![program[i].seen.visit] = o]
          /\ program' = [program EXCEPT ![i].pc = "commit", ![i].to = AgentEdge[o]]
    <3>1. PICK o \in IF attempt[program[i].seen.visit] = "active" THEN Outcomes
                    ELSE {attempt[program[i].seen.visit]} :
            /\ attempt' = [attempt EXCEPT ![program[i].seen.visit] = o]
            /\ program' = [program EXCEPT ![i].pc = "commit", ![i].to = AgentEdge[o]]
      BY <1>5 DEF EndAgent
    <3>2. program[i].seen.visit \in Visits
      BY <1>0 DEF Program, Row
    <3>3. attempt[program[i].seen.visit] \in {"none", "active"} \cup Outcomes
      BY <3>2 DEF TypeOK
    <3>4. o \in Outcomes
      BY <1>5, <3>1, <3>3 DEF EndAgent
    <3> QED BY <3>1, <3>4
  <2>2. AgentEdge[o] \in Nodes
    BY <2>1 DEF AgentEdge, Outcomes, Nodes, Waits, Ends
  <2>3. program' \in [Visits -> Program]
    BY <1>0, <2>1, <2>2 DEF TypeOK, Program, Running
  <2> QED BY <1>5, <2>1, <2>3 DEF EndAgent, TypeOK
<1>6. CASE Throw(i)
  <2>1. program' \in [Visits -> Program]
    BY <1>6, IsTyped DEF Throw, Places, Running
  <2> QED BY <1>6, <2>1, LedgerAssumption DEF Throw, Fault, TypeOK
<1>7. CASE Commit(i)
  <2>1. program' \in [Visits -> Program] /\ faults' \in 0..MaxFaults
    BY <1>7, StepEndsTyped DEF Commit, Places, Running
  <2>2. run' \in Row /\ ledger' \subseteq Transition
        /\ wait' \in [Visits -> {"none", "awaiting", "canceled", "consumed"}]
    <3>1. CASE Matches(program[i].seen) /\ ~Identified(program[i].seen.visit)
      <4>1. /\ run.visit < MaxVisit /\ run' = Moved(program[i].to)
            /\ ledger' = Written(program[i].seen, program[i].to, "program")
            /\ wait' = IF program[i].to \in Waits
                       THEN [wait EXCEPT ![program[i].seen.visit + 1] = "awaiting"]
                       ELSE wait
        BY <1>7, <3>1 DEF Commit
      <4>2. program[i].to \in Nodes /\ program[i].seen \in Row
        BY <1>0 DEF Program
      <4>3. run' \in Row
        BY <4>1, <4>2, MovedTyped
      <4>4. ledger' \subseteq Transition
        BY <4>1, <4>2 DEF Written, Transition, Row, TypeOK
      <4>5. wait' \in [Visits -> {"none", "awaiting", "canceled", "consumed"}]
        BY <4>1 DEF TypeOK
      <4> QED BY <4>3, <4>4, <4>5
    <3>2. CASE ~(Matches(program[i].seen) /\ ~Identified(program[i].seen.visit))
      BY <1>7, <3>2 DEF Commit, TypeOK
    <3> QED BY <3>1, <3>2
  <2> QED BY <1>7, <2>1, <2>2 DEF Commit, TypeOK
<1>8. CASE FindWait(i)
  <2>1. CASE Is(i, "errored")
    <3>1. program' \in [Visits -> Program]
      BY <2>1, IsTyped DEF Places
    <3> QED BY <1>8, <3>1 DEF FindWait, TypeOK
  <2>2. CASE ~Is(i, "errored")
    <3>1. PICK v \in Visits :
            program' = [program EXCEPT ![i].pc = "sleep", ![i].wait = v]
      BY <1>8, <2>2 DEF FindWait, Open
    <3>2. program' \in [Visits -> Program]
      BY <1>0, <3>1 DEF TypeOK, Program, Running
    <3> QED BY <1>8, <3>2 DEF FindWait, TypeOK
  <2> QED BY <2>1, <2>2
<1>9. CASE Wake(i)
  <2>1. program' \in [Visits -> Program]
    <3>1. PICK d \in Deliveries :
            program' = [program EXCEPT ![i].pc = "claim", ![i].d = d]
      BY <1>9 DEF Wake
    <3> QED BY <1>0, <3>1 DEF TypeOK, Program, Running
  <2> QED BY <1>9, <2>1 DEF Wake, TypeOK
<1>10. CASE Claim(i)
  <2>1. program' \in [Visits -> Program] /\ faults' \in 0..MaxFaults
    BY <1>10, StepEndsTyped, IsTyped DEF Claim, NoFault, TypeOK, Places, Running
  <2>2. inbox' \in [Deliveries -> [state : {"none", "sent", "claimed", "processed"},
                                   to : Visits, reply : Replies \cup {"none"}]]
    <3>1. inbox \in [Deliveries -> [state : {"none", "sent", "claimed", "processed"},
                                    to : Visits, reply : Replies \cup {"none"}]]
      BY DEF TypeOK
    <3>2. \/ UNCHANGED inbox
          \/ inbox' = [inbox EXCEPT ![program[i].d].state = "claimed"]
      BY <1>10 DEF Claim
    <3> QED BY <3>1, <3>2
  <2> QED BY <1>10, <2>1, <2>2 DEF Claim, TypeOK
<1>11. CASE Reject(i)
  <2>1. program' \in [Visits -> Program]
    BY <1>11, IsTyped DEF Reject, Places, Running
  <2> QED BY <1>11, <2>1 DEF Reject, Audited, TypeOK
<1>12. CASE Consume(i)
  <2>1. program' \in [Visits -> Program] /\ faults' \in 0..MaxFaults
    BY <1>12, StepEndsTyped DEF Consume, Places, Running
  <2>2. /\ program[i].d \in Deliveries
        /\ WaitEdge(program[i].seen.node, inbox[program[i].d].reply) \in Nodes
    BY <1>12 DEF Consume, At, HeldByAddressee, Holding, WaitEdge, Nodes, Waits, Ends
  <2> DEFINE to == WaitEdge(program[i].seen.node, inbox[program[i].d].reply)
             mine == [from |-> program[i].seen.node, to |-> to,
                      visit |-> program[i].seen.visit, by |-> program[i].d]
  <2>3. ledger' \subseteq Transition
    <3>1. mine \in Transition
      BY <1>0, <2>2 DEF Transition, Program, Row
    <3>2. ledger' \subseteq ledger \cup {mine}
      <4> HIDE DEF to
      <4>1. ledger' = ledger \/ ledger' = ledger \cup {mine}
        BY <1>12, Zenon DEF Consume, to
      <4> QED BY <4>1
    <3> QED BY <3>1, <3>2 DEF TypeOK
  <2>4. run' \in Row
    <3>1. run' = run \/ (run.visit < MaxVisit /\ run' = Moved(to))
      BY <1>12 DEF Consume
    <3> QED BY <2>2, <3>1, MovedTyped DEF TypeOK
  <2>5. wait' \in [Visits -> {"none", "awaiting", "canceled", "consumed"}]
    BY <1>12 DEF Consume, TypeOK
  <2>6. audit' \in [Deliveries -> {"none", "resumed", "canceled", "rejected",
                                   "already_consumed"}]
    BY <1>12 DEF Consume, Audited, Decision, TypeOK
  <2>7. UNCHANGED <<attempt, inbox, Outside>>
    BY <1>12 DEF Consume
  <2> QED BY <2>1, <2>3, <2>4, <2>5, <2>6, <2>7 DEF TypeOK
<1>13. CASE Already(i)
  <2>1. program' \in [Visits -> Program]
    BY <1>13, IsTyped DEF Already, Places, Running
  <2> QED BY <1>13, <2>1 DEF Already, Audited, TypeOK
<1>14. CASE Mark(i)
  <2>1. program' \in [Visits -> Program]
    BY <1>14, IsTyped DEF Mark, Places, Running
  <2>2. inbox' \in [Deliveries -> [state : {"none", "sent", "claimed", "processed"},
                                   to : Visits, reply : Replies \cup {"none"}]]
    <3>1. inbox \in [Deliveries -> [state : {"none", "sent", "claimed", "processed"},
                                    to : Visits, reply : Replies \cup {"none"}]]
      BY DEF TypeOK
    <3>2. program[i].d \in Deliveries
      BY <1>14 DEF Mark, At, HeldByAddressee, Holding
    <3>3. inbox' = [inbox EXCEPT ![program[i].d].state = IF @ = "claimed"
                                                         THEN "processed" ELSE @]
      BY <1>14 DEF Mark
    <3> QED BY <3>1, <3>2, <3>3
  <2> QED BY <1>14, <2>1, <2>2 DEF Mark, TypeOK
<1> QED
  BY <1>1, <1>2, <1>3, <1>4, <1>5, <1>6, <1>7, <1>8, <1>9, <1>10, <1>11, <1>12,
     <1>13, <1>14 DEF ProgramStep

LEMMA OperatorStepTyped ==
  ASSUME TypeOK, NEW o \in Operators, OperatorStep(o)
  PROVE  TypeOK'
<1> USE DEF Events, Outside, ByOperator, ByCron
<1>0. operator[o] \in OpState /\ run \in Row /\ intent \in Visits
  BY DEF TypeOK
<1> DEFINE Typed == operator' \in [Operators -> OpState]
<1>a. ASSUME NEW pc \in {"idle", "check", "prepare", "locate", "observe"}, Goes(o, pc)
      PROVE  Typed
  <2>1. Idle \in OpState
    BY StatusFacts DEF Idle, OpState
  <2> QED BY <1>0, <1>a, <2>1 DEF Goes, OpState, TypeOK
<1>b. ASSUME OnlyAsks, Typed
      PROVE  TypeOK'
  BY <1>b DEF OnlyAsks, TypeOK
<1>1. CASE AskRuntime(o)
  <2>1. Typed
    BY <1>0, <1>1 DEF AskRuntime, OpState, Row, TypeOK
  <2> QED BY <1>1, <1>b, <2>1 DEF AskRuntime
<1>2. CASE AskStage(o)
  <2>1. Typed
    BY <1>0, <1>2 DEF AskStage, OpState, Row, TypeOK
  <2> QED BY <1>2, <1>b, <2>1 DEF AskStage
<1>3. CASE Check(o)
  <2>1. Typed
    BY <1>3, <1>a DEF Check
  <2> QED BY <1>3, <1>b, <2>1 DEF Check
<1>4. CASE Repeat(o)
  <2>1. Typed
    BY <1>4, <1>a DEF Repeat
  <2> QED BY <1>4, <1>b, <2>1 DEF Repeat
<1>5. CASE Prepare(o)
  <2>1. Typed
    BY <1>5, <1>a DEF Prepare
  <2>2. CASE ~(RuntimeEligible(o) \/ StageEligible(o))
    BY <1>5, <2>1, <2>2 DEF Prepare, TypeOK
  <2>3. CASE RuntimeEligible(o) \/ StageEligible(o)
    <3>1. /\ run' = [Moved("work") EXCEPT !.bound = operator[o].visit]
          /\ ledger' = Written(run, "work", "operator")
          /\ intent' = IF intent = run.bound THEN operator[o].visit ELSE intent
          /\ wait' = Left(o)
          /\ retry' = [retry EXCEPT ![operator[o].visit] =
                         [kind |-> operator[o].kind, source |-> run.bound,
                          state |-> "pending"]]
      BY <1>5, <2>3 DEF Prepare
    <3>2. operator[o].visit \in Visits /\ run.visit + 1 = operator[o].visit
      BY <1>0, <2>3 DEF RuntimeEligible, StageEligible, OpState
    <3>3. run' \in Row
      <4>1. "work" \in Nodes /\ StatusOf("work") \in Statuses
        BY StatusFacts DEF Nodes
      <4> QED BY <1>0, <3>1, <3>2, <4>1 DEF Moved, Row
    <3>4. ledger' \subseteq Transition
      BY <1>0, <3>1 DEF Written, Transition, Nodes, Row, TypeOK
    <3>5. wait' \in [Visits -> {"none", "awaiting", "canceled", "consumed"}]
      BY <3>1 DEF Left, TypeOK
    <3>6. intent' \in Visits /\ retry' \in
            [Visits -> [kind : {"none", "runtime", "stage"}, source : Visits,
                        state : {"none", "pending", "established"}]]
      BY <1>0, <3>1, <3>2 DEF OpState, Row, TypeOK
    <3> QED BY <1>5, <2>1, <3>3, <3>4, <3>5, <3>6 DEF Prepare, TypeOK
  <2> QED BY <2>2, <2>3
<1>6. CASE Locate(o)
  <2>1. Typed
    BY <1>6, <1>a DEF Locate
  <2>2. program' \in [Visits -> Program]
    <3>1. NewProgram("start") \in Program
      BY NewProgramIsProgram DEF Places, Running
    <3> QED BY <1>6, <3>1 DEF Locate, TypeOK
  <2>3. faults' \in 0..MaxFaults
    BY <1>6, LedgerAssumption DEF Locate, Fault, NoFault, TypeOK
  <2> QED BY <1>6, <2>1, <2>2, <2>3 DEF Locate, TypeOK
<1>7. CASE Observe(o)
  <2>1. Typed
    BY <1>7, <1>a DEF Observe
  <2>2. retry' \in [Visits -> [kind : {"none", "runtime", "stage"}, source : Visits,
                               state : {"none", "pending", "established"}]]
    <3>1. Observed(operator[o].visit) \in {"pending", "established"}
      BY DEF Observed
    <3> HIDE DEF Typed
    <3>2. retry' = [retry EXCEPT ![operator[o].visit].state = Observed(operator[o].visit)]
      BY <1>7, Zenon DEF Observe
    <3>3. retry \in [Visits -> [kind : {"none", "runtime", "stage"}, source : Visits,
                               state : {"none", "pending", "established"}]]
      BY DEF TypeOK
    <3>4. PICK v, s : s \in {"pending", "established"}
                      /\ retry' = [retry EXCEPT ![v].state = s]
      BY <3>1, <3>2
    <3> QED BY <3>3, <3>4
  <2> QED BY <1>7, <2>1, <2>2 DEF Observe, TypeOK
<1> QED BY <1>1, <1>2, <1>3, <1>4, <1>5, <1>6, <1>7 DEF OperatorStep

LEMMA CronStepTyped ==
  ASSUME TypeOK, CronStep
  PROVE  TypeOK'
<1> USE DEF Events, ByOperator
<1>0. /\ run \in Row
      /\ Candidate(FirstRow) \in [node : Nodes, status : Statuses, bound : Visits]
  BY StatusFacts DEF TypeOK, Candidate, Row
<1> DEFINE Typed == cron' \in [pc : {"idle", "get", "reconcile", "notice", "mark"},
                              row : [node : Nodes, status : Statuses, bound : Visits]]
<1>a. ASSUME NEW pc \in {"idle", "get", "reconcile", "notice", "mark"}, CronGoes(pc)
      PROVE  Typed
  BY <1>0, <1>a DEF CronGoes, TypeOK
<1>1. CASE CronRead
  <2>1. Candidate(run) \in [node : Nodes, status : Statuses, bound : Visits]
    BY <1>0 DEF Candidate, Row
  <2> QED BY <1>1, <2>1 DEF CronRead, OnlyLooks, TypeOK
<1>2. CASE CronGet
  <2>1. Typed
    BY <1>2, <1>a DEF CronGet
  <2> QED BY <1>2, <2>1 DEF CronGet, OnlyLooks, TypeOK
<1>3. CASE Reconcile
  <2>1. Typed
    BY <1>3, <1>a DEF Reconcile
  <2>2. run' \in Row
    <3>1. "failed" \in Statuses
      BY StatusFacts DEF Nodes, Ends
    <3> QED BY <1>0, <1>3, <3>1 DEF Reconcile, Row
  <2>3. recon' \in {"none", "conflict", "pending_notice", "notified"}
    BY <1>3 DEF Reconcile, TypeOK
  <2> QED BY <1>3, <2>1, <2>2, <2>3 DEF Reconcile, TypeOK
<1>4. CASE Notice
  <2>1. Typed
    BY <1>4, <1>a DEF Notice
  <2>2. faults' \in 0..MaxFaults
    BY <1>4, LedgerAssumption DEF Notice, Fault, NoFault, TypeOK
  <2> QED BY <1>4, <2>1, <2>2 DEF Notice, OnlyLooks, TypeOK
<1>5. CASE MarkNotified
  <2>1. Typed
    BY <1>5, <1>a DEF MarkNotified
  <2> QED BY <1>5, <2>1 DEF MarkNotified, OnlyLooks, TypeOK
<1> QED BY <1>1, <1>2, <1>3, <1>4, <1>5 DEF CronStep

LEMMA StepTyped ==
  ASSUME TypeOK, HeldByAddressee, [Next]_vars
  PROVE  TypeOK'
<1>1. CASE \E i \in Visits : ProgramStep(i)
  BY <1>1, ProgramStepTyped
<1>2. CASE \E i \in Visits : CompleteEarly(i)
  <2>1. PICK i \in Visits : CompleteEarly(i)
    BY <1>2
  <2>2. program' \in [Visits -> Program]
    BY <2>1, IsTyped DEF CompleteEarly, Places
  <2>3. faults' \in 0..MaxFaults
    BY <2>1, LedgerAssumption DEF CompleteEarly, Fault, TypeOK
  <2> QED BY <2>1, <2>2, <2>3
          DEF CompleteEarly, Events, Outside, ByOperator, ByCron, TypeOK
<1>3. CASE \E o \in Operators : OperatorStep(o)
  BY <1>3, OperatorStepTyped
<1>4. CASE \E d \in Deliveries, reply \in Replies : Send(d, reply)
  <2>1. PICK d \in Deliveries, reply \in Replies : Send(d, reply)
    BY <1>4
  <2>2. run.bound \in Visits
    BY DEF TypeOK, Row
  <2> QED BY <2>1, <2>2 DEF Send, Outside, ByOperator, ByCron, TypeOK
<1>5. CASE CronStep
  BY <1>5, CronStepTyped
<1>6. CASE UNCHANGED vars
  BY <1>6 DEF vars, TypeOK
<1> QED BY <1>1, <1>2, <1>3, <1>4, <1>5, <1>6 DEF Next

-----------------------------------------------------------------------------
(* How a step moves the run's row, its transitions and its waits: not at all,  *)
(* or by one transition out of the visit the run was at.                       *)

Kept == UNCHANGED <<run, ledger>>
\* Waits are closed, never opened, but by a move into one.
Closes == \A v \in Visits : wait'[v] = "awaiting" => wait[v] = "awaiting"

\* A program's commit of an agent's outcome, if the row is still what it saw.
MovedByProgram ==
  /\ run.node = "work"
  /\ \E to \in Nodes :
       /\ run' = Moved(to)
       /\ ledger' = ledger \cup {[from |-> run.node, to |-> to, visit |-> run.visit,
                                  by |-> "program"]}
       /\ \A v \in Visits : /\ wait'[v] = "awaiting" /\ wait[v] # "awaiting"
                            => v = run.visit + 1 /\ to \in Waits

\* An event's, by the program that has claimed it; the run's wait is closed.
MovedByEvent ==
  \E i \in Visits, to \in Nodes :
    /\ program[i].pc = "decide"
    /\ run.node = program[i].seen.node /\ run.visit = program[i].seen.visit
    /\ run' = Moved(to)
    /\ ledger' = ledger \cup {[from |-> run.node, to |-> to, visit |-> run.visit,
                               by |-> program[i].d]}
    /\ Closes
    /\ \E w \in Visits : wait[w] = "awaiting" /\ wait'[w] # "awaiting"

\* An operator's, to a new instance; the run's wait, if it has one, is closed.
MovedByOperator ==
  /\ run.node \in {"work", "failed", "review"}
  /\ \E b \in Visits : run' = [Moved("work") EXCEPT !.bound = b]
  /\ ledger' = ledger \cup {[from |-> run.node, to |-> "work", visit |-> run.visit,
                             by |-> "operator"]}
  /\ Closes
  /\ run.node \in Waits => wait'[run.visit] # "awaiting"

\* The scan's, which leaves the run where it is.
FailedByCron ==
  /\ run.node \notin Ends
  /\ run' = [run EXCEPT !.status = "failed", !.premature = TRUE]
  /\ UNCHANGED <<ledger, wait>>

LEMMA CommitMoves ==
  ASSUME TypeOK, ProgramFits, NEW i \in Visits, Commit(i)
  PROVE  (Kept /\ Closes) \/ MovedByProgram
<1> DEFINE p == program[i]
<1>1. CASE ~(Matches(p.seen) /\ ~Identified(p.seen.visit))
  BY <1>1 DEF Commit, Kept, Closes
<1>2. CASE Matches(p.seen) /\ ~Identified(p.seen.visit)
  <2>1. /\ run' = Moved(p.to)
        /\ ledger' = Written(p.seen, p.to, "program")
        /\ wait' = IF p.to \in Waits
                   THEN [wait EXCEPT ![p.seen.visit + 1] = "awaiting"] ELSE wait
    BY <1>2 DEF Commit
  <2>2. p.seen.node = "work" /\ p.seen.visit = run.visit /\ run.node = p.seen.node
    BY <1>2 DEF Commit, At, ProgramFits, Matches
  <2>3. p.to \in Nodes
    BY DEF TypeOK, Program
  <2>4. \A v \in Visits : /\ wait'[v] = "awaiting" /\ wait[v] # "awaiting"
                         => v = run.visit + 1 /\ p.to \in Waits
    BY <2>1, <2>2 DEF TypeOK
  <2> QED BY <2>1, <2>2, <2>3, <2>4 DEF MovedByProgram, Written
<1> QED BY <1>1, <1>2

LEMMA ConsumeMoves ==
  ASSUME TypeOK, HeldByAddressee, NEW i \in Visits, Consume(i)
  PROVE  (Kept /\ Closes) \/ MovedByEvent
<1> DEFINE p == program[i]
           to == WaitEdge(p.seen.node, inbox[p.d].reply)
           mine == [from |-> p.seen.node, to |-> to, visit |-> p.seen.visit, by |-> p.d]
           eligible == /\ wait[p.wait] = "awaiting"
                       /\ run.node = p.seen.node /\ run.visit = p.seen.visit
                       /\ run.status = StatusOf(p.seen.node)
                       /\ ~Identified(p.seen.visit)
           written == \E t \in ledger' : t.visit = p.seen.visit /\ t.by # "operator"
<1>1. /\ ledger' = IF eligible THEN ledger \cup {mine} ELSE ledger
      /\ IF eligible THEN run.visit < MaxVisit /\ run' = Moved(to)
         ELSE UNCHANGED run
      /\ wait' = IF written /\ wait[p.wait] = "awaiting"
                 THEN [wait EXCEPT ![p.wait] = IF inbox[p.d].reply = "canceled"
                                               THEN "canceled" ELSE "consumed"]
                 ELSE wait
      /\ p.pc = "decide"
  BY Zenon DEF Consume, At
<1>2. Closes
  BY <1>1 DEF Closes, TypeOK
<1>3. p.d \in Deliveries /\ p.d # "operator" /\ to \in Nodes /\ p.wait \in Visits
  <2>1. p.d \in Deliveries
    BY <1>1 DEF HeldByAddressee, Holding
  <2>2. to \in Nodes
    BY DEF WaitEdge, Nodes, Waits, Ends
  <2>3. p.wait \in Visits
    BY DEF TypeOK, Program
  <2> QED BY <2>1, <2>2, <2>3, LedgerAssumption
<1>4. CASE ~eligible
  BY <1>1, <1>2, <1>4 DEF Kept
<1>5. CASE eligible
  <2>1. ledger' = ledger \cup {mine} /\ run' = Moved(to)
    BY <1>1, <1>5
  <2>2. written
    <3>1. mine \in ledger' /\ mine.visit = p.seen.visit /\ mine.by = p.d
      BY <2>1
    <3> QED BY <1>3, <3>1
  <2>3. wait[p.wait] = "awaiting" /\ wait'[p.wait] # "awaiting"
    <3> HIDE DEF written
    <3> QED BY <1>1, <1>3, <1>5, <2>2 DEF TypeOK
  <2>4. mine = [from |-> run.node, to |-> to, visit |-> run.visit, by |-> p.d]
    BY <1>5
  <2> HIDE DEF mine, to
  <2> QED BY <1>1, <1>2, <1>3, <1>5, <2>1, <2>3, <2>4 DEF MovedByEvent
<1> QED BY <1>4, <1>5

LEMMA PrepareMoves ==
  ASSUME TypeOK, OpenWaitIsCurrent, NEW o \in Operators, Prepare(o)
  PROVE  (Kept /\ Closes) \/ MovedByOperator
<1>1. CASE ~(RuntimeEligible(o) \/ StageEligible(o))
  BY <1>1 DEF Prepare, Kept, Closes
<1>2. CASE RuntimeEligible(o) \/ StageEligible(o)
  <2>1. /\ run' = [Moved("work") EXCEPT !.bound = operator[o].visit]
        /\ ledger' = Written(run, "work", "operator")
        /\ wait' = Left(o)
    BY <1>2 DEF Prepare
  <2>2. operator[o].visit \in Visits /\ run.visit \in Visits
    BY DEF TypeOK, OpState, Row
  <2>3. Closes
    BY <2>1 DEF Closes, Left, TypeOK
  <2>4. run.node \in {"work", "failed", "review"}
    BY <1>2 DEF RuntimeEligible, StageEligible
  <2>5. ASSUME run.node \in Waits
        PROVE  wait'[run.visit] # "awaiting"
    <3>1. operator[o].kind = "stage"
      BY <1>2, <2>5 DEF RuntimeEligible, StageEligible, Waits
    <3> QED BY <2>1, <2>2, <3>1 DEF Left, TypeOK
  <2> QED BY <2>1, <2>2, <2>3, <2>4, <2>5 DEF MovedByOperator, Written
<1> QED BY <1>1, <1>2

LEMMA ReconcileFails ==
  ASSUME TypeOK, RowIsSound, CandidateIsOpen, Reconcile
  PROVE  (Kept /\ Closes) \/ FailedByCron
<1>1. CASE recon = "none" /\ StillThere
  <2>1. run.node \notin Ends
    BY <1>1 DEF RowIsSound, CandidateIsOpen, StillThere, Reconcile, CronAt
  <2> QED BY <1>1, <2>1 DEF Reconcile, FailedByCron
<1>2. CASE ~(recon = "none" /\ StillThere)
  BY <1>2 DEF Reconcile, Kept, Closes
<1> QED BY <1>1, <1>2

LEMMA StepMoves ==
  ASSUME TypeOK, RowIsSound, OpenWaitIsCurrent, ProgramFits, CandidateIsOpen,
         HeldByAddressee, [Next]_vars
  PROVE  \/ Kept /\ Closes
         \/ MovedByProgram \/ MovedByEvent \/ MovedByOperator \/ FailedByCron
<1> USE DEF Kept, Closes
<1>1. ASSUME NEW i \in Visits, ProgramStep(i), ~Commit(i), ~Consume(i)
      PROVE  UNCHANGED <<run, ledger, wait>>
  BY <1>1 DEF ProgramStep, Start, Replay, Authority, BeginAgent, EndAgent, Throw,
              FindWait, Wake, Claim, Reject, Already, Mark
<1>2. CASE \E i \in Visits : ProgramStep(i)
  BY <1>1, <1>2, CommitMoves, ConsumeMoves
<1>3. CASE \E i \in Visits : CompleteEarly(i)
  BY <1>3 DEF CompleteEarly
<1>4. ASSUME NEW o \in Operators, OperatorStep(o), ~Prepare(o)
      PROVE  UNCHANGED <<run, ledger, wait>>
  BY <1>4 DEF OperatorStep, AskRuntime, AskStage, Check, Repeat, Locate, Observe,
              OnlyAsks
<1>5. CASE \E o \in Operators : OperatorStep(o)
  BY <1>4, <1>5, PrepareMoves
<1>6. CASE \E d \in Deliveries, reply \in Replies : Send(d, reply)
  BY <1>6 DEF Send
<1>7. CASE CronStep
  BY <1>7, ReconcileFails
     DEF CronStep, CronRead, CronGet, Notice, MarkNotified, OnlyLooks
<1>8. CASE UNCHANGED vars
  BY <1>8 DEF vars
<1> QED BY <1>2, <1>3, <1>5, <1>6, <1>7, <1>8 DEF Next

-----------------------------------------------------------------------------
(* What the moves preserve.                                                   *)

Moves == \/ Kept /\ Closes
         \/ MovedByProgram \/ MovedByEvent \/ MovedByOperator \/ FailedByCron

\* A move writes one transition, out of the visit the run was at.
LEMMA MoveWrites ==
  ASSUME TypeOK, MovedByProgram \/ MovedByEvent \/ MovedByOperator
  PROVE  \E to \in Nodes,
            by \in {"program", "operator"} \cup {program[i].d : i \in Visits} :
           /\ run'.node = to /\ run'.visit = run.visit + 1 /\ run'.status = StatusOf(to)
           /\ ledger' = ledger \cup {[from |-> run.node, to |-> to, visit |-> run.visit,
                                      by |-> by]}
<1>0. run \in Row /\ "work" \in Nodes
  BY DEF TypeOK, Nodes
<1>1. \A to \in Nodes : /\ Moved(to).node = to /\ Moved(to).visit = run.visit + 1
                        /\ Moved(to).status = StatusOf(to)
  BY <1>0 DEF Moved, Row
<1>2. CASE MovedByProgram
  BY <1>1, <1>2 DEF MovedByProgram
<1>3. CASE MovedByEvent
  <2>1. PICK i \in Visits, to \in Nodes :
          /\ run' = Moved(to)
          /\ ledger' = ledger \cup {[from |-> run.node, to |-> to, visit |-> run.visit,
                                     by |-> program[i].d]}
    BY <1>3 DEF MovedByEvent
  <2>2. program[i].d \in {program[j].d : j \in Visits}
    OBVIOUS
  <2> QED BY <1>1, <2>1, <2>2
<1>4. CASE MovedByOperator
  <2>1. PICK b \in Visits : run' = [Moved("work") EXCEPT !.bound = b]
    BY <1>4 DEF MovedByOperator
  <2>2. run'.node = "work" /\ run'.visit = run.visit + 1 /\ run'.status = StatusOf("work")
    BY <1>0, <2>1 DEF Moved, Row
  <2> QED BY <1>0, <1>4, <2>2 DEF MovedByOperator
<1> QED BY <1>2, <1>3, <1>4

LEMMA RowStep ==
  ASSUME TypeOK, RowIsSound, Moves
  PROVE  RowIsSound'
<1>1. CASE Kept
  BY <1>1 DEF Kept, RowIsSound
<1>2. CASE MovedByProgram \/ MovedByEvent \/ MovedByOperator
  <2>1. PICK to \in Nodes : run'.node = to /\ run'.visit = run.visit + 1
                           /\ run'.status = StatusOf(to)
    BY <1>2, MoveWrites
  <2>2. run.visit \in Nat /\ run.visit >= 1
    BY LedgerAssumption DEF TypeOK, Row, Visits
  <2> QED BY <2>1, <2>2, StatusFacts DEF RowIsSound
<1>3. CASE FailedByCron
  <2>1. run'.node = run.node /\ run'.visit = run.visit
    BY <1>3 DEF FailedByCron, TypeOK, Row
  <2> QED BY <1>3, <2>1 DEF FailedByCron, RowIsSound
<1> QED BY <1>1, <1>2, <1>3 DEF Moves

LEMMA WalkStep ==
  ASSUME TypeOK, RowIsSound, LedgerIsWalk, Moves
  PROVE  LedgerIsWalk'
<1>0. /\ run.visit \in Nat /\ run.visit >= 1
      /\ \A t \in ledger : t.visit \in Nat /\ t.visit >= 1
  <2>1. run.visit \in Visits
    BY DEF TypeOK, Row
  <2>2. \A t \in ledger : t.visit \in Visits
    BY DEF TypeOK, Transition
  <2> QED BY <2>1, <2>2, LedgerAssumption DEF Visits
<1>1. CASE Kept
  BY <1>1 DEF Kept, LedgerIsWalk
<1>2. CASE MovedByProgram \/ MovedByEvent \/ MovedByOperator
  <2>1. PICK to \in Nodes,
             by \in {"program", "operator"} \cup {program[i].d : i \in Visits} :
          /\ run'.node = to /\ run'.visit = run.visit + 1
          /\ ledger' = ledger \cup {[from |-> run.node, to |-> to, visit |-> run.visit,
                                     by |-> by]}
    BY <1>2, MoveWrites
  <2> DEFINE new == [from |-> run.node, to |-> to, visit |-> run.visit, by |-> by]
  <2>2. new.from = run.node /\ new.to = to /\ new.visit = run.visit /\ new \in ledger'
    BY <2>1
  <2>3. \A t \in ledger' : t \in ledger \/ t = new
    BY <2>1
  <2> HIDE DEF new
  <2>4. \A t \in ledger' : /\ t.visit < run'.visit
                           /\ t.visit = 1 => t.from = "work"
                           /\ t.visit + 1 = run'.visit => t.to = run'.node
    BY <1>0, <2>1, <2>2, <2>3 DEF LedgerIsWalk, RowIsSound
  <2>5. \A v \in 1..(run'.visit - 1) : \E t \in ledger' : t.visit = v
    <3>1. ASSUME NEW v \in 1..(run'.visit - 1)
          PROVE  \E t \in ledger' : t.visit = v
      <4>1. v \in 1..(run.visit - 1) \/ v = run.visit
        BY <1>0, <2>1
      <4> QED BY <2>1, <2>2, <4>1 DEF LedgerIsWalk
    <3> QED BY <3>1
  <2>6. \A t, u \in ledger' : /\ t.visit = u.visit => t = u
                              /\ t.visit + 1 = u.visit => t.to = u.from
    BY <1>0, <2>2, <2>3 DEF LedgerIsWalk
  <2> QED BY <2>4, <2>5, <2>6 DEF LedgerIsWalk
<1>3. CASE FailedByCron
  <2>1. run'.node = run.node /\ run'.visit = run.visit
    BY <1>3 DEF FailedByCron, TypeOK, Row
  <2> QED BY <1>3, <2>1 DEF FailedByCron, LedgerIsWalk
<1> QED BY <1>1, <1>2, <1>3 DEF Moves

LEMMA WaitStep ==
  ASSUME TypeOK, TypeOK', OpenWaitIsCurrent, Moves
  PROVE  OpenWaitIsCurrent'
<1>0. run \in Row
  BY DEF TypeOK
<1>1. CASE Kept /\ Closes
  BY <1>1 DEF Kept, Closes, OpenWaitIsCurrent
<1>2. CASE MovedByProgram
  <2>1. PICK to \in Nodes :
          /\ run' = Moved(to)
          /\ \A v \in Visits : /\ wait'[v] = "awaiting" /\ wait[v] # "awaiting"
                               => v = run.visit + 1 /\ to \in Waits
    BY <1>2 DEF MovedByProgram
  <2>2. run'.node = to /\ run'.visit = run.visit + 1
    BY <1>0, <2>1 DEF Moved, Row
  <2>3. \A v \in Visits : wait[v] # "awaiting"
    BY <1>2 DEF MovedByProgram, OpenWaitIsCurrent, Waits
  <2> QED BY <2>1, <2>2, <2>3 DEF OpenWaitIsCurrent
<1>3. CASE MovedByEvent
  <2>1. PICK w \in Visits : wait[w] = "awaiting" /\ wait'[w] # "awaiting"
    BY <1>3 DEF MovedByEvent
  <2>2. \A v \in Visits : wait'[v] # "awaiting"
    BY <1>3, <2>1 DEF MovedByEvent, Closes, OpenWaitIsCurrent
  <2> QED BY <2>2 DEF OpenWaitIsCurrent
<1>4. CASE MovedByOperator
  <2>1. \A v \in Visits : wait'[v] # "awaiting"
    BY <1>4 DEF MovedByOperator, Closes, OpenWaitIsCurrent
  <2> QED BY <2>1 DEF OpenWaitIsCurrent
<1>5. CASE FailedByCron
  <2>1. run'.node = run.node /\ run'.visit = run.visit
    BY <1>0, <1>5 DEF FailedByCron, Row
  <2> QED BY <1>5, <2>1 DEF FailedByCron, OpenWaitIsCurrent
<1> QED BY <1>1, <1>2, <1>3, <1>4, <1>5 DEF Moves

LEMMA FinalStep ==
  ASSUME TypeOK, LedgerIsWalk, Moves, RowIsSound, ProgramFits,
         run.node \in Ends, run' # run
  PROVE  run.node = "failed" /\ \E t \in ledger' \ ledger : t.by = "operator"
<1>1. ~Kept /\ ~FailedByCron
  BY DEF Kept, FailedByCron
<1>2. ~MovedByProgram
  BY DEF MovedByProgram, Ends
<1>3. ~MovedByEvent
  <2>1. \A i \in Visits : program[i].pc = "decide" => program[i].seen.node \notin Ends
    BY DEF ProgramFits, Waits, Ends
  <2> QED BY <2>1 DEF MovedByEvent
<1>4. MovedByOperator
  BY <1>1, <1>2, <1>3 DEF Moves
<1> DEFINE new == [from |-> run.node, to |-> "work", visit |-> run.visit,
                   by |-> "operator"]
<1>5. new \notin ledger
  <2>1. run.visit \in Visits
    BY DEF TypeOK, Row
  <2>2. run.visit \in Nat /\ \A t \in ledger : t.visit < run.visit
    BY <2>1, LedgerAssumption DEF Visits, LedgerIsWalk
  <2>3. new.visit = run.visit
    OBVIOUS
  <2> HIDE DEF new
  <2> QED BY <2>2, <2>3
<1>6. run.node = "failed"
  BY <1>4 DEF MovedByOperator, Ends
<1>7. new \in ledger' /\ new.by = "operator"
  BY <1>4 DEF MovedByOperator
<1> HIDE DEF new
<1> QED BY <1>5, <1>6, <1>7

-----------------------------------------------------------------------------
(* What the programs and the scan remember.                                   *)

\* A program that is moved on with no memory holds nothing.
LEMMA IsFits ==
  ASSUME TypeOK, ProgramFits, NEW i \in Visits, NEW pc \in Places, Is(i, pc),
         \/ pc \in {"authority", "errored", "complete"}
         \/ pc \in {"claim", "decide", "already", "mark"} /\ program[i].pc \in Holding
  PROVE  ProgramFits'
<1>1. CASE pc \in {"authority", "errored", "complete"}
  <2>1. program' = [program EXCEPT ![i] = NewProgram(pc)]
    BY <1>1 DEF Is
  <2>2. \A j \in Visits : program'[j] = IF j = i THEN NewProgram(pc) ELSE program[j]
    BY <2>1 DEF TypeOK
  <2>3. NewProgram(pc).pc = pc
    BY DEF NewProgram
  <2> QED BY <1>1, <2>2, <2>3 DEF ProgramFits
<1>2. CASE pc \notin {"authority", "errored", "complete"}
  <2>1. program' = [program EXCEPT ![i].pc = pc]
    BY <1>2 DEF Is
  <2>2. \A j \in Visits : /\ program'[j].pc = IF j = i THEN pc ELSE program[j].pc
                         /\ program'[j].seen = program[j].seen
    BY <2>1 DEF TypeOK, Program
  <2> QED BY <1>2, <2>2 DEF ProgramFits, Holding
<1> QED BY <1>1, <1>2

LEMMA FitsStep ==
  ASSUME TypeOK, ProgramFits, [Next]_vars
  PROVE  ProgramFits'
<1>0. ASSUME UNCHANGED program
      PROVE  ProgramFits'
  BY <1>0 DEF ProgramFits
<1>1. ASSUME NEW i \in Visits, ProgramStep(i)
      PROVE  ProgramFits'
  <2> USE DEF Places, Running, Holding
  <2>1. CASE Start(i)
    BY <2>1, IsFits DEF Start
  <2>2. CASE Replay(i)
    BY <2>2, IsFits DEF Replay
  <2>3. CASE Authority(i)
    <3>1. CASE run.node \in Ends
      BY <2>3, <3>1, IsFits DEF Authority
    <3>2. CASE run.node \notin Ends
      <4> DEFINE to == IF run.node = "work" THEN "agent" ELSE "find_wait"
      <4>1. program' = [program EXCEPT ![i].seen = run, ![i].pc = to]
        BY <2>3, <3>2 DEF Authority
      <4>2. \A j \in Visits :
              /\ program'[j].pc = IF j = i THEN to ELSE program[j].pc
              /\ program'[j].seen = IF j = i THEN run ELSE program[j].seen
        BY <4>1 DEF TypeOK, Program
      <4>3. run.node \in {"work"} \cup Waits
        BY <3>2 DEF TypeOK, Row, Nodes
      <4> QED BY <4>2, <4>3 DEF ProgramFits, Waits
    <3> QED BY <3>1, <3>2
  <2>4. CASE BeginAgent(i)
    BY <2>4, IsFits DEF BeginAgent
  <2>5. CASE EndAgent(i)
    <3>1. PICK n : program' = [program EXCEPT ![i].pc = "commit", ![i].to = n]
      BY <2>5 DEF EndAgent
    <3>2. \A j \in Visits :
            /\ program'[j].pc = IF j = i THEN "commit" ELSE program[j].pc
            /\ program'[j].seen = program[j].seen
      BY <3>1 DEF TypeOK, Program
    <3>3. program[i].pc = "agent"
      BY <2>5 DEF EndAgent, At
    <3> QED BY <3>2, <3>3 DEF ProgramFits
  <2>6. CASE Throw(i)
    BY <2>6, IsFits DEF Throw
  <2>7. CASE Commit(i)
    BY <2>7, <1>0, IsFits DEF Commit, StepEnds
  <2>8. CASE FindWait(i)
    <3>1. CASE Is(i, "errored")
      BY <3>1, IsFits
    <3>2. CASE ~Is(i, "errored")
      <4>1. PICK v : program' = [program EXCEPT ![i].pc = "sleep", ![i].wait = v]
        BY <2>8, <3>2 DEF FindWait
      <4>2. \A j \in Visits :
              /\ program'[j].pc = IF j = i THEN "sleep" ELSE program[j].pc
              /\ program'[j].seen = program[j].seen
        BY <4>1 DEF TypeOK, Program
      <4>3. program[i].pc = "find_wait"
        BY <2>8 DEF FindWait, At
      <4> QED BY <4>2, <4>3 DEF ProgramFits
    <3> QED BY <3>1, <3>2
  <2>9. CASE Wake(i)
    <3>1. PICK d : program' = [program EXCEPT ![i].pc = "claim", ![i].d = d]
      BY <2>9 DEF Wake
    <3>2. \A j \in Visits :
            /\ program'[j].pc = IF j = i THEN "claim" ELSE program[j].pc
            /\ program'[j].seen = program[j].seen
      BY <3>1 DEF TypeOK, Program
    <3>3. program[i].pc = "sleep"
      BY <2>9 DEF Wake, At
    <3> QED BY <3>2, <3>3 DEF ProgramFits
  <2>10. CASE Claim(i)
    BY <2>10, <1>0, IsFits DEF Claim, StepEnds, At
  <2>11. CASE Reject(i)
    BY <2>11, IsFits DEF Reject, At
  <2>12. CASE Consume(i)
    <3>1. program[i].pc = "decide" /\ \E pc \in {"mark", "already"} : StepEnds(i, pc)
      BY <2>12 DEF Consume, At
    <3> QED BY <3>1, <1>0, IsFits DEF StepEnds
  <2>13. CASE Already(i)
    BY <2>13, IsFits DEF Already, At
  <2>14. CASE Mark(i)
    BY <2>14, IsFits DEF Mark
  <2> QED
    BY <1>1, <2>1, <2>2, <2>3, <2>4, <2>5, <2>6, <2>7, <2>8, <2>9, <2>10, <2>11,
       <2>12, <2>13, <2>14 DEF ProgramStep
<1>2. ASSUME NEW i \in Visits, CompleteEarly(i)
      PROVE  ProgramFits'
  BY <1>2, IsFits DEF CompleteEarly, Places
<1>3. ASSUME NEW o \in Operators, OperatorStep(o)
      PROVE  ProgramFits'
  <2>1. CASE Locate(o)
    <3>1. \/ UNCHANGED program
          \/ program' = [program EXCEPT ![operator[o].visit] = NewProgram("start")]
      BY <2>1 DEF Locate
    <3>2. NewProgram("start").pc = "start"
      BY DEF NewProgram
    <3> QED BY <1>0, <3>1, <3>2 DEF ProgramFits, TypeOK
  <2>2. CASE ~Locate(o)
    BY <1>0, <1>3, <2>2
       DEF OperatorStep, AskRuntime, AskStage, Check, Repeat, Prepare, Observe, OnlyAsks
  <2> QED BY <2>1, <2>2
<1>4. CASE \E d \in Deliveries, reply \in Replies : Send(d, reply)
  BY <1>0, <1>4 DEF Send
<1>5. CASE CronStep
  BY <1>0, <1>5
     DEF CronStep, CronRead, CronGet, Reconcile, Notice, MarkNotified, OnlyLooks
<1>6. CASE UNCHANGED vars
  BY <1>0, <1>6 DEF vars
<1> QED BY <1>1, <1>2, <1>3, <1>4, <1>5, <1>6 DEF Next

LEMMA CandidateStep ==
  ASSUME TypeOK, CandidateIsOpen, [Next]_vars
  PROVE  CandidateIsOpen'
<1>1. ASSUME UNCHANGED cron
      PROVE  CandidateIsOpen'
  BY <1>1 DEF CandidateIsOpen
<1>2. ASSUME NEW pc \in {"reconcile", "idle", "notice", "mark"}, CronGoes(pc),
             pc = "reconcile" => cron.pc = "get"
      PROVE  CandidateIsOpen'
  BY <1>2 DEF CronGoes, CandidateIsOpen, TypeOK
<1>3. CASE CronStep
  <2>1. CASE CronRead
    BY <2>1 DEF CronRead, Candidate, CandidateIsOpen
  <2>2. CASE CronGet
    BY <1>2, <2>2 DEF CronGet, CronAt
  <2>3. CASE Reconcile
    BY <1>2, <2>3 DEF Reconcile
  <2>4. CASE Notice
    BY <1>2, <2>4 DEF Notice
  <2>5. CASE MarkNotified
    BY <1>2, <2>5 DEF MarkNotified
  <2> QED BY <1>3, <2>1, <2>2, <2>3, <2>4, <2>5 DEF CronStep
<1>4. CASE \E i \in Visits : ProgramStep(i)
  BY <1>1, <1>4
     DEF ProgramStep, Start, Replay, Authority, BeginAgent, EndAgent, Throw, Commit,
         FindWait, Wake, Claim, Reject, Consume, Already, Mark, Outside, ByCron
<1>5. CASE \E i \in Visits : CompleteEarly(i)
  BY <1>1, <1>5 DEF CompleteEarly, Outside, ByCron
<1>6. CASE \E o \in Operators : OperatorStep(o)
  BY <1>1, <1>6
     DEF OperatorStep, AskRuntime, AskStage, Check, Repeat, Prepare, Locate, Observe,
         OnlyAsks, ByCron
<1>7. CASE \E d \in Deliveries, reply \in Replies : Send(d, reply)
  BY <1>1, <1>7 DEF Send, Outside, ByCron
<1>8. CASE UNCHANGED vars
  BY <1>1, <1>8 DEF vars
<1> QED BY <1>3, <1>4, <1>5, <1>6, <1>7, <1>8 DEF Next

-----------------------------------------------------------------------------
(* How a step changes the events and the programs that hold them.             *)

EventStep ==
  /\ \A d \in Deliveries : inbox[d].state # "none"
       => inbox'[d].to = inbox[d].to /\ inbox'[d].state # "none"
  /\ \A d \in Deliveries : inbox[d].state \in {"claimed", "processed"}
       => inbox'[d].state \in {"claimed", "processed"}
  /\ \A j \in Visits : program'[j].pc \in Holding
       => \/ program[j].pc \in Holding /\ program'[j].d = program[j].d
          \/ /\ program'[j].d \in Deliveries /\ inbox'[program'[j].d].to = j
             /\ inbox'[program'[j].d].state # "none"
  /\ \A j \in Visits : program'[j].pc = "decide"
       => /\ program[j].pc \in Holding
          /\ program'[j].d = program[j].d /\ program'[j].seen = program[j].seen
          /\ inbox'[program[j].d].state = "claimed"
          /\ \/ program[j].pc = "decide"
             \/ inbox[program[j].d].state = "sent" /\ ledger' = ledger

LEMMA EventSteps ==
  ASSUME TypeOK, HeldByAddressee, AppliedWasClaimed, [Next]_vars
  PROVE  EventStep
<1>0. ASSUME UNCHANGED <<program, inbox>>
      PROVE  EventStep
  BY <1>0 DEF EventStep, AppliedWasClaimed, Holding
\* A program that lets go of its event, if it had one.
<1>a. ASSUME UNCHANGED inbox, NEW i \in Visits, program'[i].pc \notin Holding,
             \A j \in Visits \ {i} : program'[j] = program[j]
      PROVE  EventStep
  BY <1>a DEF EventStep, AppliedWasClaimed, Holding
\* A program that has decided on its event.
<1>b. ASSUME UNCHANGED inbox, NEW i \in Visits, NEW pc \in {"mark", "already"},
             Is(i, pc), program[i].pc \in Holding
      PROVE  EventStep
  <2>1. program' = [program EXCEPT ![i].pc = pc]
    BY <1>b DEF Is
  <2>2. \A j \in Visits : /\ program'[j].pc = IF j = i THEN pc ELSE program[j].pc
                         /\ program'[j].d = program[j].d
                         /\ program'[j].seen = program[j].seen
    BY <2>1 DEF TypeOK, Program
  <2> QED BY <1>b, <2>2 DEF EventStep, AppliedWasClaimed, Holding
<1>c. ASSUME NEW i \in Visits, NEW pc \in {"authority", "errored", "complete"}, Is(i, pc)
      PROVE  /\ program'[i].pc \notin Holding
             /\ \A j \in Visits \ {i} : program'[j] = program[j]
  <2>1. program' = [program EXCEPT ![i] = NewProgram(pc)]
    BY <1>c DEF Is
  <2> QED BY <2>1 DEF TypeOK, NewProgram, Holding
<1>1. ASSUME NEW i \in Visits, ProgramStep(i)
      PROVE  EventStep
  <2> USE DEF Events
  <2>1. CASE Start(i)
    <3>1. \E pc \in {"authority", "errored"} : Is(i, pc)
      BY <2>1 DEF Start
    <3> QED BY <2>1, <3>1, <1>a, <1>c DEF Start
  <2>2. CASE Replay(i)
    BY <2>2, <1>a, <1>c DEF Replay
  <2>3. CASE Authority(i)
    <3>1. CASE run.node \in Ends
      BY <2>3, <3>1, <1>a, <1>c DEF Authority
    <3>2. CASE run.node \notin Ends
      <4> DEFINE to == IF run.node = "work" THEN "agent" ELSE "find_wait"
      <4>1. program' = [program EXCEPT ![i].seen = run, ![i].pc = to]
        BY <2>3, <3>2 DEF Authority
      <4>2. program'[i].pc = to /\ \A j \in Visits \ {i} : program'[j] = program[j]
        BY <4>1 DEF TypeOK, Program
      <4> QED BY <2>3, <4>2, <1>a DEF Authority, Holding
    <3> QED BY <3>1, <3>2
  <2>4. CASE BeginAgent(i)
    BY <2>4, <1>a, <1>c DEF BeginAgent
  <2>5. CASE EndAgent(i)
    <3>1. PICK n : program' = [program EXCEPT ![i].pc = "commit", ![i].to = n]
      BY <2>5 DEF EndAgent
    <3>2. program'[i].pc = "commit" /\ \A j \in Visits \ {i} : program'[j] = program[j]
      BY <3>1 DEF TypeOK, Program
    <3> QED BY <2>5, <3>2, <1>a DEF EndAgent, Holding
  <2>6. CASE Throw(i)
    BY <2>6, <1>a, <1>c DEF Throw
  <2>7. CASE Commit(i)
    BY <2>7, <1>0, <1>a, <1>c DEF Commit, StepEnds
  <2>8. CASE FindWait(i)
    <3>1. CASE Is(i, "errored")
      BY <2>8, <3>1, <1>a, <1>c DEF FindWait
    <3>2. CASE ~Is(i, "errored")
      <4>1. PICK v : program' = [program EXCEPT ![i].pc = "sleep", ![i].wait = v]
        BY <2>8, <3>2 DEF FindWait
      <4>2. program'[i].pc = "sleep" /\ \A j \in Visits \ {i} : program'[j] = program[j]
        BY <4>1 DEF TypeOK, Program
      <4> QED BY <2>8, <4>2, <1>a DEF FindWait, Holding
    <3> QED BY <3>1, <3>2
  <2>9. CASE Wake(i)
    <3>1. PICK d \in Deliveries :
            /\ inbox[d].to = i /\ inbox[d].state # "none"
            /\ program' = [program EXCEPT ![i].pc = "claim", ![i].d = d]
      BY <2>9 DEF Wake
    <3>2. /\ program'[i].pc = "claim" /\ program'[i].d = d
          /\ \A j \in Visits \ {i} : program'[j] = program[j]
      BY <3>1 DEF TypeOK, Program
    <3>3. UNCHANGED inbox
      BY <2>9 DEF Wake
    <3>4. \A j \in Visits : program'[j].pc = "decide"
            => j # i /\ program'[j] = program[j] /\ inbox[program[j].d].state = "claimed"
      BY <3>2 DEF AppliedWasClaimed
    <3>5. \A j \in Visits : j # i => program'[j] = program[j]
      BY <3>2
    <3> QED BY <3>1, <3>2, <3>3, <3>4, <3>5 DEF EventStep, Holding
  <2>10. CASE Claim(i)
    <3> DEFINE d == program[i].d
    <3>1. CASE Claimable(d)
      <4>1. d \in Deliveries /\ inbox[d].to = i /\ inbox[d].state = "sent"
        BY <2>10, <3>1 DEF Claim, At, HeldByAddressee, Holding, Claimable
      <4>2. inbox' = [inbox EXCEPT ![d].state = "claimed"] /\ StepEnds(i, "decide")
        BY <2>10, <3>1 DEF Claim
      <4>3. \A e \in Deliveries :
              /\ inbox'[e].to = inbox[e].to
              /\ inbox'[e].state = IF e = d THEN "claimed" ELSE inbox[e].state
        BY <4>2 DEF TypeOK
      <4>4. \A j \in Visits :
              /\ program'[j].d = program[j].d /\ program'[j].seen = program[j].seen
              /\ program'[j].pc # program[j].pc => j = i
        BY <4>2 DEF StepEnds, Is, TypeOK, Program
      <4>5. \A j \in Visits \ {i} : program[j].pc \in Holding
              => program[j].d # d /\ program[j].d \in Deliveries
        BY <4>1 DEF HeldByAddressee
      <4>6. ledger' = ledger /\ program[i].pc = "claim"
        BY <2>10 DEF Claim, At
      <4> HIDE DEF d
      <4>7. program[i].d = d
        BY DEF d
      <4>8. \A j \in Visits : program'[j].pc = "decide"
              => /\ program[j].pc \in Holding
                 /\ inbox'[program[j].d].state = "claimed"
                 /\ \/ program[j].pc = "decide"
                    \/ inbox[program[j].d].state = "sent" /\ ledger' = ledger
        BY <4>1, <4>3, <4>4, <4>5, <4>6, <4>7 DEF AppliedWasClaimed, Holding
      <4>9. \A j \in Visits : program'[j].pc \in Holding => program[j].pc \in Holding
        BY <4>4, <4>6 DEF Holding
      <4> QED BY <4>1, <4>3, <4>4, <4>8, <4>9 DEF EventStep
    <3>2. CASE ~Claimable(d)
      BY <2>10, <3>2, <1>a, <1>c DEF Claim
    <3> QED BY <3>1, <3>2
  <2>11. CASE Reject(i)
    BY <2>11, <1>b DEF Reject, At, Holding
  <2>12. CASE Consume(i)
    <3>1. /\ program[i].pc = "decide" /\ UNCHANGED inbox
          /\ \E pc \in {"mark", "already"} : StepEnds(i, pc)
      BY <2>12 DEF Consume, At
    <3> QED BY <3>1, <1>0, <1>b DEF StepEnds, Holding
  <2>13. CASE Already(i)
    BY <2>13, <1>b DEF Already, At, Holding
  <2>14. CASE Mark(i)
    <3> DEFINE d == program[i].d
    <3>1. d \in Deliveries /\ inbox[d].to = i
      BY <2>14 DEF Mark, At, HeldByAddressee, Holding
    <3>2. inbox' = [inbox EXCEPT ![d].state = IF @ = "claimed" THEN "processed" ELSE @]
      BY <2>14 DEF Mark
    <3>3. \A e \in Deliveries :
            /\ inbox'[e].to = inbox[e].to
            /\ inbox'[e].state = IF e = d /\ inbox[e].state = "claimed"
                                 THEN "processed" ELSE inbox[e].state
      BY <3>1, <3>2 DEF TypeOK
    <3>4. /\ program'[i].pc \notin Holding
          /\ \A j \in Visits \ {i} : program'[j] = program[j]
      BY <2>14, <1>c DEF Mark
    <3>5. \A j \in Visits \ {i} : program[j].pc \in Holding
            => program[j].d # d /\ program[j].d \in Deliveries
      BY <3>1 DEF HeldByAddressee
    <3> HIDE DEF d
    <3>6. \A j \in Visits : program'[j].pc \in Holding
            => /\ j # i /\ program'[j] = program[j] /\ program[j].pc \in Holding
               /\ inbox'[program[j].d].state = inbox[program[j].d].state
      BY <3>3, <3>4, <3>5
    <3> QED BY <3>3, <3>6 DEF EventStep, AppliedWasClaimed, Holding
  <2> QED
    BY <1>1, <2>1, <2>2, <2>3, <2>4, <2>5, <2>6, <2>7, <2>8, <2>9, <2>10, <2>11,
       <2>12, <2>13, <2>14 DEF ProgramStep
<1>2. ASSUME NEW i \in Visits, CompleteEarly(i)
      PROVE  EventStep
  BY <1>2, <1>a, <1>c DEF CompleteEarly, Events
<1>3. ASSUME NEW o \in Operators, OperatorStep(o)
      PROVE  EventStep
  <2>1. CASE Locate(o)
    <3>1. /\ UNCHANGED inbox
          /\ \/ UNCHANGED program
             \/ program' = [program EXCEPT ![operator[o].visit] = NewProgram("start")]
      BY <2>1 DEF Locate, Events
    <3>2. NewProgram("start").pc \notin Holding
      BY DEF NewProgram, Holding
    <3>3. operator[o].visit \in Visits
      BY DEF TypeOK, OpState
    <3> QED BY <1>0, <1>a, <3>1, <3>2, <3>3 DEF TypeOK
  <2>2. CASE ~Locate(o)
    BY <1>0, <1>3, <2>2
       DEF OperatorStep, AskRuntime, AskStage, Check, Repeat, Prepare, Observe,
           OnlyAsks, Events
  <2> QED BY <2>1, <2>2
<1>4. ASSUME NEW d \in Deliveries, NEW reply \in Replies, Send(d, reply)
      PROVE  EventStep
  <2>1. \A e \in Deliveries : e # d => inbox'[e] = inbox[e]
    BY <1>4 DEF Send, TypeOK
  <2>2. inbox[d].state = "none" /\ UNCHANGED program
    BY <1>4 DEF Send
  <2>3. \A j \in Visits : program[j].pc \in Holding
          => program[j].d \in Deliveries /\ program[j].d # d
    BY <2>2 DEF HeldByAddressee
  <2> QED BY <2>1, <2>2, <2>3 DEF EventStep, AppliedWasClaimed, Holding
<1>5. CASE CronStep
  BY <1>0, <1>5
     DEF CronStep, CronRead, CronGet, Reconcile, Notice, MarkNotified, OnlyLooks, Events
<1>6. CASE UNCHANGED vars
  BY <1>0, <1>6 DEF vars
<1> QED BY <1>1, <1>2, <1>3, <1>4, <1>5, <1>6 DEF Next

LEMMA HeldStep ==
  ASSUME HeldByAddressee, EventStep
  PROVE  HeldByAddressee'
BY DEF HeldByAddressee, EventStep

LEMMA AppliedStep ==
  ASSUME TypeOK, HeldByAddressee, AppliedWasClaimed, EventStep, Moves
  PROVE  AppliedWasClaimed'
<1>1. \A t \in ledger' \ ledger : t.by \in Deliveries
        => \E i \in Visits : /\ program[i].pc = "decide" /\ t.by = program[i].d
                            /\ t.visit = program[i].seen.visit
  <2>1. CASE MovedByEvent
    BY <2>1 DEF MovedByEvent
  <2>2. CASE ~MovedByEvent
    BY <2>2, LedgerAssumption
       DEF Moves, Kept, MovedByProgram, MovedByOperator, FailedByCron
  <2> QED BY <2>1, <2>2
<1>2. \A t \in ledger' : t.by \in Deliveries
        => inbox'[t.by].state \in {"claimed", "processed"}
  BY <1>1 DEF AppliedWasClaimed, EventStep
<1>3. ASSUME NEW j \in Visits, program'[j].pc = "decide"
      PROVE  /\ inbox'[program'[j].d].state = "claimed"
             /\ \A t \in ledger' : t.by = program'[j].d
                                  => t.visit = program'[j].seen.visit
  <2>1. /\ program[j].pc \in Holding
        /\ program'[j].d = program[j].d /\ program'[j].seen = program[j].seen
        /\ inbox'[program[j].d].state = "claimed"
        /\ \/ program[j].pc = "decide"
           \/ inbox[program[j].d].state = "sent" /\ ledger' = ledger
    BY <1>3 DEF EventStep
  <2>2. program[j].d \in Deliveries /\ inbox[program[j].d].to = j
    BY <2>1 DEF HeldByAddressee
  <2>3. CASE program[j].pc = "decide"
    <3>1. \A i \in Visits : program[i].pc = "decide" /\ program[i].d = program[j].d
            => i = j
      BY <2>2 DEF HeldByAddressee, Holding
    <3> QED BY <1>1, <2>1, <2>2, <2>3, <3>1 DEF AppliedWasClaimed
  <2>4. CASE inbox[program[j].d].state = "sent" /\ ledger' = ledger
    BY <2>1, <2>2, <2>4 DEF AppliedWasClaimed
  <2> QED BY <2>1, <2>3, <2>4
<1> QED BY <1>2, <1>3 DEF AppliedWasClaimed

LEMMA OnceStep ==
  ASSUME TypeOK, LedgerIsWalk, AppliedWasClaimed, EventAppliesOnce, Moves
  PROVE  EventAppliesOnce'
<1>1. CASE MovedByEvent
  <2>1. PICK i \in Visits, to \in Nodes :
          /\ program[i].pc = "decide" /\ run.visit = program[i].seen.visit
          /\ ledger' = ledger \cup {[from |-> run.node, to |-> to, visit |-> run.visit,
                                     by |-> program[i].d]}
    BY <1>1 DEF MovedByEvent
  <2> DEFINE new == [from |-> run.node, to |-> to, visit |-> run.visit,
                     by |-> program[i].d]
  <2>2. new.visit = run.visit /\ new.by = program[i].d
    OBVIOUS
  <2>3. \A t \in ledger' : t \in ledger \/ t = new
    BY <2>1
  <2> HIDE DEF new
  <2>4. run.visit \in Nat /\ \A t \in ledger : t.visit < run.visit
    <3>1. run.visit \in Visits
      BY DEF TypeOK, Row
    <3> QED BY <3>1, LedgerAssumption DEF Visits, LedgerIsWalk
  <2>5. \A t \in ledger : t.by # new.by
    BY <2>1, <2>2, <2>4 DEF AppliedWasClaimed
  <2> QED BY <2>3, <2>5 DEF EventAppliesOnce
<1>2. CASE ~MovedByEvent
  BY <1>2, LedgerAssumption
     DEF Moves, Kept, MovedByProgram, MovedByOperator, FailedByCron, EventAppliesOnce
<1> QED BY <1>1, <1>2

-----------------------------------------------------------------------------

LEMMA LedgerInit == Init => IInv
<1> SUFFICES ASSUME Init
             PROVE  IInv
  OBVIOUS
<1> USE DEF Init
<1>1. program \in [Visits -> Program]
        /\ \A i \in Visits : program[i].pc \in {"start", "off"}
  <2>1. \A pc \in {"start", "off"} : NewProgram(pc) \in Program /\ NewProgram(pc).pc = pc
    BY NewProgramIsProgram DEF Places, Running, NewProgram
  <2> QED BY <2>1
<1>2. TypeOK
  <2>1. Idle \in OpState /\ NoRetry \in [kind : {"none", "runtime", "stage"},
                          source : Visits, state : {"none", "pending", "established"}]
    BY StatusFacts DEF Idle, OpState, NoRetry
  <2>2. Candidate(FirstRow) \in [node : Nodes, status : Statuses, bound : Visits]
    BY StatusFacts DEF Candidate, Row
  <2>3. 0 \in 0..MaxFaults
    BY LedgerAssumption
  <2> QED BY <1>1, <2>1, <2>2, <2>3, StatusFacts DEF TypeOK
<1>3. run.visit = 1 /\ run.node = "work"
  BY DEF FirstRow
<1>4. RowIsSound /\ LedgerIsWalk /\ OpenWaitIsCurrent /\ EventAppliesOnce
  BY <1>3 DEF RowIsSound, LedgerIsWalk, OpenWaitIsCurrent, EventAppliesOnce, Ends
<1>5. ProgramFits /\ HeldByAddressee /\ AppliedWasClaimed
  BY <1>1 DEF ProgramFits, HeldByAddressee, AppliedWasClaimed, Holding
<1>6. CandidateIsOpen
  BY DEF CandidateIsOpen
<1> QED BY <1>2, <1>4, <1>5, <1>6 DEF IInv

LEMMA LedgerNext == IInv /\ [Next]_vars => IInv'
<1> SUFFICES ASSUME IInv, [Next]_vars
             PROVE  IInv'
  OBVIOUS
<1> USE DEF IInv
<1>1. TypeOK'
  BY StepTyped
<1>2. Moves /\ EventStep
  BY StepMoves, EventSteps DEF Moves
<1>3. RowIsSound' /\ LedgerIsWalk' /\ OpenWaitIsCurrent'
  BY <1>1, <1>2, RowStep, WalkStep, WaitStep
<1>4. ProgramFits' /\ CandidateIsOpen'
  BY FitsStep, CandidateStep
<1>5. HeldByAddressee' /\ AppliedWasClaimed' /\ EventAppliesOnce'
  BY <1>2, HeldStep, AppliedStep, OnceStep
<1> QED BY <1>1, <1>3, <1>4, <1>5

\* The invariant holds of every behaviour.
THEOREM LedgerInvariance == Spec => []IInv
BY LedgerInit, LedgerNext, PTL DEF Spec

\* Every value the run's row, its rows and the programs take has its type.
THEOREM LedgerTypeCorrect == Spec => []TypeOK
BY LedgerInvariance, PTL DEF IInv

\* The transitions are one walk from the first node to the present one, whoever
\* writes them and however often a step is repeated.
THEOREM LedgerWalk == Spec => []LedgerIsWalk
BY LedgerInvariance, PTL DEF IInv

\* No wait of an earlier visit is left open for an event to find.
THEOREM LedgerOpenWait == Spec => []OpenWaitIsCurrent
BY LedgerInvariance, PTL DEF IInv

\* An event moves the run at most once.
THEOREM LedgerEventOnce == Spec => []EventAppliesOnce
BY LedgerInvariance, PTL DEF IInv

\* A run at an end of the graph is moved only by an operator's retry, from failed.
THEOREM LedgerFinalStands == Spec => FinalStands
<1>1. IInv /\ [Next]_vars
      => [run.node \in Ends /\ run' # run
          => run.node = "failed" /\ \E t \in ledger' \ ledger : t.by = "operator"]_vars
  <2> SUFFICES ASSUME IInv, [Next]_vars, run.node \in Ends, run' # run
               PROVE  run.node = "failed" /\ \E t \in ledger' \ ledger : t.by = "operator"
    OBVIOUS
  <2>1. Moves
    BY StepMoves DEF Moves, IInv
  <2> QED BY <2>1, FinalStep DEF IInv
<1> QED BY <1>1, LedgerInvariance, PTL DEF Spec, FinalStands
=============================================================================
