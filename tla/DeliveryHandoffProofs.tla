------------------------ MODULE DeliveryHandoffProofs ------------------------
(***************************************************************************)
(* The safety properties of DeliveryHandoff for any deliveries, payloads   *)
(* and tasks.  The inductive invariant adds to the properties what a task  *)
(* that is about to send or to mark has to remember about the row.         *)
(***************************************************************************)
EXTENDS DeliveryHandoff, FiniteSetTheorems, TLAPS

\* A stored row carries the payload of a receipt classified relevant.
RowMatchesReceipt ==
  \A d \in Delivery : handoff[d].state # "absent" =>
    /\ handoff[d].body \in Body
    /\ receipt[d] = [body |-> handoff[d].body, class |-> "relevant"]

AbsentHasNoBody == \A d \in Delivery : handoff[d].state = "absent" => handoff[d].body = NoBody

\* Only a pending row is leased.
LeasedIsPending == \A d \in Delivery : handoff[d].lease # NoTask => handoff[d].state = "pending"

\* A task sends, and has sent, the payload of the row it read.
TaskCarriesRow ==
  \A t \in Task : task[t].pc \in {"send", "mark"} =>
    /\ handoff[task[t].id].state # "absent"
    /\ task[t].body = handoff[task[t].id].body

MarkedWasQueued == \A t \in Task : task[t].pc = "mark" => task[t].body \in queue[task[t].id]

\* The Queue only ever held the payload of the stored row.
QueueHoldsRow ==
  \A d \in Delivery : \A b \in queue[d] : handoff[d].state # "absent" /\ b = handoff[d].body

IInv == /\ TypeOK
        /\ RowMatchesReceipt
        /\ AbsentHasNoBody
        /\ LeasedIsPending
        /\ TaskCarriesRow
        /\ MarkedWasQueued
        /\ QueueHoldsRow
        /\ SentWasQueued

\* Ranks are natural numbers: the outbox holds finitely many deliveries.
LEMMA RankType == Cardinality(StoredHandoffs) \in Nat
  BY DeliveryFinite, FS_Subset, FS_CardinalityType DEF StoredHandoffs

\* The empty database satisfies the invariant.
LEMMA InitIInv == Init => IInv
  BY NoTaskIsNoTask DEF Init, IInv, TypeOK, RowMatchesReceipt, AbsentHasNoBody, LeasedIsPending,
     TaskCarriesRow, MarkedWasQueued, QueueHoldsRow, SentWasQueued, NoReceipt, NoHandoff, Receipt, Request,
     Handoff, TaskState

\* A commit stores at most one row, a fresh pending one; its rank is some number.
NewRow(q, n) == [NoHandoff EXCEPT !.state = "pending", !.body = q.body, !.rank = n]

\* The row that a commit stores has the type of a row and is not leased.
LEMMA NewRowType ==
  ASSUME NEW q \in Request, NEW n \in Nat
  PROVE  /\ NewRow(q, n) \in Handoff
         /\ NewRow(q, n).state = "pending"
         /\ NewRow(q, n).body = q.body
         /\ NewRow(q, n).lease = NoTask
  BY DEF NewRow, NoHandoff, Handoff, Request

\* The batch of a POST keeps the invariant: a row appears only with its receipt.
LEMMA CommitIInv == ASSUME IInv, NEW q \in Request, Commit(q) PROVE IInv'
<1> USE DEF IInv
<1>q. q.id \in Delivery /\ q.body \in Body
  BY DEF Request
<1>1. ReceiptAfter(q) \in Receipt
  BY <1>q DEF ReceiptAfter, TypeOK, Receipt
<1>2. PICK row \in Handoff :
        /\ row.state = "pending" /\ row.body = q.body /\ row.lease = NoTask
        /\ handoff' = IF StoresHandoff(q) THEN [handoff EXCEPT ![q.id] = row] ELSE handoff
  <2>1. handoff' = IF StoresHandoff(q)
                   THEN [handoff EXCEPT ![q.id] = NewRow(q, Cardinality(StoredHandoffs))]
                   ELSE handoff
    BY DEF Commit, NewRow
  <2> QED BY <2>1, RankType, NewRowType
<1>3. ASSUME NEW d \in Delivery, handoff[d].state # "absent"
      PROVE  handoff'[d] = handoff[d] /\ receipt'[d] = receipt[d]
  BY <1>2, <1>3, <1>q DEF Commit, StoresHandoff, ReceiptAfter, RowMatchesReceipt, TypeOK
<1>4. TypeOK'
  <2>1. receipt' \in [Delivery -> Receipt]
    BY <1>1, <1>q DEF Commit, TypeOK
  <2>2. handoff' \in [Delivery -> Handoff]
    BY <1>2, <1>q DEF TypeOK
  <2> QED BY <2>1, <2>2 DEF Commit, TypeOK
<1>5. RowMatchesReceipt'
  BY <1>2, <1>3, <1>q DEF Commit, StoresHandoff, RowMatchesReceipt, TypeOK
<1>6. LeasedIsPending'
  BY <1>2, <1>q DEF LeasedIsPending, TypeOK
<1>7. TaskCarriesRow' /\ MarkedWasQueued' /\ QueueHoldsRow'
  <2>1. task' = task /\ queue' = queue
    BY DEF Commit
  <2>2. \A t \in Task : task[t].id \in Delivery
    BY DEF TypeOK, TaskState
  <2> QED BY <1>3, <2>1, <2>2 DEF TaskCarriesRow, MarkedWasQueued, QueueHoldsRow
<1>8. SentWasQueued'
  BY <1>2, <1>q DEF Commit, SentWasQueued, TypeOK
<1>9. AbsentHasNoBody'
  BY <1>2, <1>q DEF AbsentHasNoBody, TypeOK
<1> QED BY <1>4, <1>5, <1>6, <1>7, <1>8, <1>9
-----------------------------------------------------------------------------
(* The steps of one dispatch() call, and the expiry of a lease.             *)

\* A step that leaves every row's payload alone, keeps leases on pending rows,
\* closes only what the Queue took and gives it only what a row holds.
RowsStep ==
  /\ handoff' \in [Delivery -> Handoff]
  /\ queue' \in [Delivery -> SUBSET Body]
  /\ \A d \in Delivery :
       /\ (handoff'[d].state = "absent") <=> (handoff[d].state = "absent")
       /\ handoff'[d].body = handoff[d].body
       /\ handoff'[d].lease # NoTask => handoff'[d].state = "pending"
       /\ handoff'[d].state = "sent" => queue'[d] # {}
       /\ queue[d] \subseteq queue'[d]
       /\ \A b \in queue'[d] \ queue[d] : handoff[d].state # "absent" /\ b = handoff[d].body

\* Such a step, which gives task t what it must remember, keeps the invariant.
LEMMA TaskStepIInv ==
  ASSUME IInv, NEW t \in Task, NEW s \in TaskState,
         task' = [task EXCEPT ![t] = s],
         UNCHANGED <<receipt, request>>,
         RowsStep,
         s.pc \in {"send", "mark"} =>
            handoff[s.id].state # "absent" /\ s.body = handoff[s.id].body,
         s.pc = "mark" => s.body \in queue'[s.id]
  PROVE  IInv'
<1> USE DEF IInv, RowsStep
<1>1. TypeOK'
  BY DEF TypeOK
<1>2. RowMatchesReceipt' /\ AbsentHasNoBody' /\ LeasedIsPending' /\ SentWasQueued' /\ QueueHoldsRow'
  BY DEF RowMatchesReceipt, AbsentHasNoBody, LeasedIsPending, SentWasQueued, QueueHoldsRow
<1>3. \A u \in Task : task'[u] = IF u = t THEN s ELSE task[u]
  BY DEF TypeOK
<1>4. s.id \in Delivery /\ \A u \in Task : task[u].id \in Delivery
  BY DEF TypeOK, TaskState
<1>5. TaskCarriesRow'
  BY <1>3, <1>4 DEF TaskCarriesRow
<1>6. MarkedWasQueued'
  BY <1>3, <1>4 DEF MarkedWasQueued
<1> QED BY <1>1, <1>2, <1>5, <1>6

\* What every task action needs to know of the task and of its row.
LEMMA TaskFacts ==
  ASSUME IInv, NEW t \in Task
  PROVE  /\ task[t] \in TaskState
         /\ task[t].id \in Delivery
         /\ handoff[task[t].id] \in Handoff
         /\ Holds(t) => handoff[task[t].id].state = "pending"
  BY NoTaskIsNoTask DEF IInv, TypeOK, TaskState, LeasedIsPending, Holds

\* Moving a task is an update of its record.
LEMMA GoToIsUpdate ==
  ASSUME IInv, NEW t \in Task, NEW pc, GoTo(t, pc),
         pc \in {"idle", "claim", "read", "send", "mark", "release"}
  PROVE  \E s \in TaskState : /\ task' = [task EXCEPT ![t] = s]
                              /\ s.pc = pc /\ s.id = task[t].id /\ s.body = task[t].body
<1> DEFINE s == [task[t] EXCEPT !.pc = pc]
<1>1. s \in TaskState /\ s.pc = pc /\ s.id = task[t].id /\ s.body = task[t].body
  BY TaskFacts DEF TaskState
<1>2. task' = [task EXCEPT ![t] = s]
  BY DEF GoTo
<1> QED BY <1>1, <1>2

\* The rows after a lease was given back.
LEMMA FreedRows ==
  ASSUME IInv, NEW d \in Delivery
  PROVE  /\ Freed(d) \in [Delivery -> Handoff]
         /\ \A e \in Delivery : /\ Freed(d)[e].state = handoff[e].state
                                /\ Freed(d)[e].body = handoff[e].body
                                /\ Freed(d)[e].lease # NoTask => Freed(d)[e].lease = handoff[e].lease
                                /\ e # d => Freed(d)[e] = handoff[e]
         /\ Freed(d)[d].lease = NoTask
  BY DEF IInv, TypeOK, Handoff, Freed

\* The rows after the sender closed its own.
LEMMA MarkedRows ==
  ASSUME IInv, NEW t \in Task, Holds(t)
  PROVE  /\ Marked(t) \in [Delivery -> Handoff]
         /\ Marked(t)[task[t].id].state = "sent"
         /\ Marked(t)[task[t].id].lease = NoTask
         /\ Marked(t)[task[t].id].body = handoff[task[t].id].body
         /\ \A e \in Delivery \ {task[t].id} : Marked(t)[e] = handoff[e]
<1> DEFINE d == task[t].id
           row == [Freed(d)[d] EXCEPT !.state = "sent"]
<1>1. d \in Delivery
  BY TaskFacts
<1>2. Freed(d)[d] \in Handoff /\ Freed(d)[d].lease = NoTask /\ Freed(d)[d].body = handoff[d].body
  BY <1>1, FreedRows
<1>3. row \in Handoff /\ row.state = "sent" /\ row.lease = NoTask /\ row.body = handoff[d].body
  BY <1>2 DEF Handoff
<1>4. Marked(t) = [Freed(d) EXCEPT ![d] = row]
  BY DEF Marked
<1> QED BY <1>1, <1>3, <1>4, FreedRows

\* Every step of a dispatching task keeps the invariant.
LEMMA TaskIInv == ASSUME IInv, NEW t \in Task, Dispatch(t) PROVE IInv'
<1> DEFINE d == task[t].id
<1> USE DEF IInv
<1>0. /\ d \in Delivery /\ handoff \in [Delivery -> Handoff] /\ queue \in [Delivery -> SUBSET Body]
      /\ \A e \in Delivery : handoff[e] \in Handoff
  BY TaskFacts DEF TypeOK
<1>1. ASSUME handoff' = handoff, queue' = queue, UNCHANGED <<receipt, request>>,
             NEW s \in TaskState, task' = [task EXCEPT ![t] = s], s.pc \notin {"send", "mark"}
      PROVE  IInv'
  <2>1. RowsStep
    BY <1>0, <1>1 DEF RowsStep, LeasedIsPending, SentWasQueued
  <2> QED BY <1>1, <2>1, TaskStepIInv
<1>2. ASSUME NEW e \in Delivery, Start(t, e) PROVE IInv'
  <2>1. [pc |-> "claim", id |-> e, body |-> NoBody] \in TaskState
    BY DEF TaskState
  <2> QED BY <1>1, <1>2, <2>1 DEF Start
<1>3. CASE Claim(t) /\ Claims(t)
  <2> DEFINE row == [handoff[d] EXCEPT !.lease = t, !.expired = FALSE]
  <2>1. handoff[d].state = "pending"
    BY <1>3 DEF Claims, Claimable
  <2>2. row \in Handoff /\ row.state = "pending" /\ row.body = handoff[d].body
    BY <1>0, <2>1 DEF Handoff
  <2>3. handoff' = [handoff EXCEPT ![d] = row]
    BY <1>3, <1>0 DEF Claim, Handoff
  <2>4. PICK s \in TaskState : task' = [task EXCEPT ![t] = s] /\ s.pc = "read"
    BY <1>3, GoToIsUpdate DEF Claim
  <2>5. RowsStep
    BY <1>0, <1>3, <2>1, <2>2, <2>3 DEF Claim, RowsStep, LeasedIsPending, SentWasQueued
  <2> QED BY <1>3, <2>4, <2>5, TaskStepIInv DEF Claim
<1>4. CASE Claim(t) /\ ~Claims(t)
  <2>1. PICK s \in TaskState : task' = [task EXCEPT ![t] = s] /\ s.pc = "idle"
    BY <1>4, GoToIsUpdate DEF Claim
  <2> QED BY <1>1, <1>4, <2>1 DEF Claim
<1>5. CASE Read(t)
  <2> DEFINE s == [task[t] EXCEPT !.pc = IF Holds(t) THEN "send" ELSE "release",
                                  !.body = IF Holds(t) THEN handoff[d].body ELSE NoBody]
  <2>1. s \in TaskState /\ s.id = d
    BY <1>0, TaskFacts DEF TaskState, Handoff
  <2>2. task' = [task EXCEPT ![t] = s]
    BY <1>5 DEF Read
  <2>3. s.pc \in {"send", "mark"} => handoff[d].state # "absent" /\ s.body = handoff[d].body
    BY TaskFacts
  <2>4. s.pc # "mark"
    BY TaskFacts DEF TaskState
  <2> HIDE DEF s
  <2>5. RowsStep
    BY <1>0, <1>5 DEF Read, RowsStep, LeasedIsPending, SentWasQueued
  <2> QED BY <1>5, <2>1, <2>2, <2>3, <2>4, <2>5, TaskStepIInv DEF Read
<1>6. CASE (SendOk(t) \/ SendFails(t))
  <2>1. task[t].pc = "send" /\ UNCHANGED <<receipt, request, handoff>>
    BY <1>6 DEF SendOk, SendFails
  <2>2. handoff[d].state # "absent" /\ task[t].body = handoff[d].body /\ handoff[d].body \in Body
    BY <1>0, <2>1 DEF TaskCarriesRow, RowMatchesReceipt
  <2>3. queue' = queue \/ queue' = [queue EXCEPT ![d] = @ \cup {task[t].body}]
    BY <1>6 DEF SendOk, SendFails
  <2>4. PICK s \in TaskState :
          /\ task' = [task EXCEPT ![t] = s]
          /\ s.pc \in {"mark", "release"} /\ s.id = d /\ s.body = task[t].body
          /\ s.pc = "mark" => queue' = [queue EXCEPT ![d] = @ \cup {task[t].body}]
    BY <1>6, GoToIsUpdate DEF SendOk, SendFails
  <2>5. queue' \in [Delivery -> SUBSET Body]
    BY <1>0, <2>2, <2>3
  <2>6. \A e \in Delivery : /\ queue[e] \subseteq queue'[e]
                            /\ \A b \in queue'[e] \ queue[e] : e = d /\ b = handoff[d].body
    BY <1>0, <2>2, <2>3
  <2>7. s.pc = "mark" => s.body \in queue'[s.id]
    BY <1>0, <2>4
  <2>8. RowsStep
    BY <1>0, <2>1, <2>2, <2>5, <2>6 DEF RowsStep, LeasedIsPending, SentWasQueued
  <2> QED BY <2>1, <2>2, <2>4, <2>7, <2>8, TaskStepIInv
<1>7. CASE (Mark(t) \/ MarkFails(t))
  <2>1. PICK s \in TaskState : task' = [task EXCEPT ![t] = s] /\ s.pc \in {"idle", "release"}
    BY <1>7, GoToIsUpdate DEF Mark, MarkFails
  <2>2. task[t].pc = "mark" /\ UNCHANGED <<receipt, request, queue>>
    BY <1>7 DEF Mark, MarkFails
  <2>3. CASE handoff' = handoff
    BY <1>1, <2>1, <2>2, <2>3
  <2>4. CASE Holds(t) /\ handoff' = Marked(t)
    <3>1. queue[d] # {} /\ handoff[d].state = "pending"
      BY <2>2, <2>4, TaskFacts DEF MarkedWasQueued
    <3>2. RowsStep
      BY <1>0, <2>2, <2>4, <3>1, MarkedRows DEF RowsStep, LeasedIsPending, SentWasQueued
    <3> QED BY <2>1, <2>2, <3>2, TaskStepIInv
  <2> QED BY <1>7, <2>3, <2>4 DEF Mark, MarkFails, Marked
<1>8. CASE Release(t)
  <2>1. PICK s \in TaskState : task' = [task EXCEPT ![t] = s] /\ s.pc = "idle"
    BY <1>8, GoToIsUpdate DEF Release
  <2>2. CASE handoff' = handoff
    BY <1>1, <1>8, <2>1, <2>2 DEF Release
  <2>3. CASE handoff' = Freed(d)
    <3>1. RowsStep
      BY <1>0, <1>8, <2>3, FreedRows DEF Release, RowsStep, LeasedIsPending, SentWasQueued
    <3> QED BY <1>8, <2>1, <3>1, TaskStepIInv DEF Release
  <2> QED BY <1>8, <2>2, <2>3 DEF Release, Released
<1>9. CASE Cancel(t)
  <2>1. PICK s \in TaskState : task' = [task EXCEPT ![t] = s] /\ s.pc = "idle"
    BY <1>9, GoToIsUpdate DEF Cancel
  <2> QED BY <1>1, <1>9, <2>1 DEF Cancel
<1> QED BY <1>2, <1>3, <1>4, <1>5, <1>6, <1>7, <1>8, <1>9
        DEF Dispatch, Running, WaitUntil, Replay

\* The expiry of a lease keeps the invariant.
LEMMA ExpireIInv == ASSUME IInv, NEW d \in Delivery, Expire(d) PROVE IInv'
<1> DEFINE row == [handoff[d] EXCEPT !.expired = TRUE]
<1> USE DEF IInv
<1>1. handoff \in [Delivery -> Handoff]
  BY DEF TypeOK
<1>2. /\ row \in Handoff /\ row.state = handoff[d].state
      /\ row.body = handoff[d].body /\ row.lease = handoff[d].lease
  BY <1>1 DEF Handoff
<1>3. handoff' = [handoff EXCEPT ![d] = row]
  BY DEF Expire
<1>4. /\ handoff' \in [Delivery -> Handoff]
      /\ \A e \in Delivery : /\ handoff'[e].state = handoff[e].state
                             /\ handoff'[e].body = handoff[e].body
                             /\ handoff'[e].lease = handoff[e].lease
  BY <1>1, <1>2, <1>3
<1>5. TypeOK'
  BY <1>4 DEF Expire, TypeOK
<1>6. \A t \in Task : task[t].id \in Delivery
  BY DEF TypeOK, TaskState
<1> QED BY <1>4, <1>5, <1>6 DEF Expire, RowMatchesReceipt, AbsentHasNoBody, LeasedIsPending, TaskCarriesRow,
        MarkedWasQueued, QueueHoldsRow, SentWasQueued
-----------------------------------------------------------------------------
\* Every step of the ingress keeps the invariant.
LEMMA NextIInv == IInv /\ [Next]_vars => IInv'
<1> SUFFICES ASSUME IInv, [Next]_vars PROVE IInv'
  OBVIOUS
<1>1. ASSUME NEW p \in Post, NEW d \in Delivery, NEW b \in Body, NEW r \in BOOLEAN,
             Receive(p, d, b, r)
      PROVE IInv'
  BY <1>1 DEF Receive, IInv, TypeOK, Request, RowMatchesReceipt, AbsentHasNoBody, LeasedIsPending,
     TaskCarriesRow, MarkedWasQueued, QueueHoldsRow, SentWasQueued
<1>2. ASSUME NEW q \in Request, Abandon(q) PROVE IInv'
  BY <1>2 DEF Abandon, IInv, TypeOK, RowMatchesReceipt, AbsentHasNoBody, LeasedIsPending,
     TaskCarriesRow, MarkedWasQueued, QueueHoldsRow, SentWasQueued
<1>3. CASE UNCHANGED vars
  BY <1>3 DEF vars, IInv, TypeOK, RowMatchesReceipt, AbsentHasNoBody, LeasedIsPending,
     TaskCarriesRow, MarkedWasQueued, QueueHoldsRow, SentWasQueued
<1> QED BY <1>1, <1>2, <1>3, CommitIInv, TaskIInv, ExpireIInv DEF Next, Ingress

\* The strengthened invariant holds in every state of every behaviour.
THEOREM Invariance == Spec => []IInv
  BY InitIInv, NextIInv, PTL DEF Spec

\* Every variable keeps its type.
THEOREM TypeCorrect == Spec => []TypeOK
<1>1. IInv => TypeOK
  BY DEF IInv
<1> QED BY <1>1, Invariance, PTL

\* What the Queue holds for a delivery is the payload of its receipt, which was
\* classified relevant: concurrent POSTs of one delivery cannot mix payloads.
THEOREM Payload == Spec => []QueuedMatchesReceipt
<1>1. IInv => QueuedMatchesReceipt
  BY DEF IInv, QueueHoldsRow, RowMatchesReceipt, QueuedMatchesReceipt
<1> QED BY <1>1, Invariance, PTL

\* A closed row was published: no error or cancellation loses a stored delivery.
THEOREM NothingLost == Spec => []SentWasQueued
<1>1. IInv => SentWasQueued
  BY DEF IInv
<1> QED BY <1>1, Invariance, PTL
-----------------------------------------------------------------------------
(* The lease, and the outbox that the lease protocol implements.            *)

LeaseStep ==
  \A t \in Task, d \in Delivery :
    (handoff[d].lease = t /\ handoff'[d].lease # t) =>
      handoff[d].expired \/ (task[t].id = d /\ task'[t].pc # task[t].pc)

\* Under the invariant each step respects the lease.
LEMMA NextLeaseStep == IInv /\ [Next]_vars => LeaseStep
<1> SUFFICES ASSUME IInv, [Next]_vars, NEW t \in Task, NEW d \in Delivery,
                    handoff[d].lease = t, handoff'[d].lease # t
             PROVE  handoff[d].expired \/ (task[t].id = d /\ task'[t].pc # task[t].pc)
  BY DEF LeaseStep
<1>0. /\ handoff \in [Delivery -> Handoff] /\ task \in [Task -> TaskState]
      /\ handoff[d].state = "pending"
  BY NoTaskIsNoTask DEF IInv, TypeOK, LeasedIsPending
<1>1. ASSUME NEW q \in Request, Commit(q) PROVE FALSE
  BY <1>0, <1>1 DEF Commit, StoresHandoff, Request
<1>2. ASSUME NEW u \in Task, Dispatch(u)
      PROVE  handoff[d].expired \/ (task[t].id = d /\ task'[t].pc # task[t].pc)
  <2>1. CASE Claim(u)
    BY <1>0, <2>1, NoTaskIsNoTask DEF Claim, Claims, Claimable, GoTo
  <2>2. CASE (Mark(u) \/ MarkFails(u) \/ Release(u))
    <3>1. handoff' # handoff /\ Holds(u)
      BY <1>0, <2>2 DEF Mark, MarkFails, Release, Marked, Released
    <3>2. handoff' = Marked(u) \/ handoff' = Freed(task[u].id)
      BY <2>2, <3>1 DEF Mark, MarkFails, Release, Released
    <3>3. task[u].id = d
      BY <1>0, <3>1, <3>2, MarkedRows, FreedRows, TaskFacts
    <3>4. u = t
      BY <3>1, <3>3 DEF Holds
    <3>5. PICK p \in {"idle", "release"} : GoTo(t, p) /\ task[t].pc # p
      BY <2>2, <3>4 DEF Mark, MarkFails, Release
    <3>6. task'[t] = [task[t] EXCEPT !.pc = p]
      BY <1>0, <3>5 DEF GoTo
    <3>7. task'[t].pc = p
      BY <1>0, <3>6 DEF TaskState
    <3> QED BY <3>3, <3>4, <3>5, <3>7
  <2> QED BY <1>2, <2>1, <2>2 DEF Dispatch, Running, WaitUntil, Replay, Start, Read, SendOk,
             SendFails, Cancel
<1>3. ASSUME NEW e \in Delivery, Expire(e) PROVE FALSE
  BY <1>0, <1>3 DEF Expire, Handoff
<1> QED BY <1>1, <1>2, <1>3 DEF Next, Ingress, Receive, Abandon, vars

\* A task loses its lease only to expiry or by its own step.
THEOREM Lease == Spec => LeaseRespected
<1>1. IInv /\ [Next]_vars => [LeaseStep]_vars
  BY NextLeaseStep
<1>2. LeaseRespected <=> [][LeaseStep]_vars
  BY DEF LeaseRespected, LeaseStep
<1> QED BY <1>1, <1>2, Invariance, PTL DEF Spec

\* Under the invariant each step is a step of the outbox or leaves it alone.
LEMMA NextOutbox == IInv /\ IInv' /\ [Next]_vars => [Out!Next]_Out!vars
<1> DEFINE stored == [d \in Delivery |-> handoff[d].body]
           closed == {d \in Delivery : handoff[d].state = "sent"}
<1> SUFFICES ASSUME IInv, IInv', [Next]_vars PROVE [Out!Next]_Out!vars
  OBVIOUS
<1>0. /\ handoff \in [Delivery -> Handoff] /\ task \in [Task -> TaskState]
      /\ queue \in [Delivery -> SUBSET Body] /\ handoff' \in [Delivery -> Handoff]
  BY DEF IInv, TypeOK
<1>1. ASSUME stored' = stored, closed' = closed, queue' = queue PROVE UNCHANGED Out!vars
  BY <1>1 DEF Out!vars
<1>2. ASSUME NEW q \in Request, Commit(q) PROVE [Out!Next]_Out!vars
  <2> DEFINE d == q.id
  <2>0. d \in Delivery /\ q.body \in Body
    BY DEF Request
  <2>1. CASE StoresHandoff(q)
    <3>1. handoff[d].body = NoBody /\ handoff[d].state = "absent"
      BY <2>0, <2>1 DEF StoresHandoff, IInv, AbsentHasNoBody
    <3>2. PICK row \in Handoff : row.state = "pending" /\ row.body = q.body
                                 /\ handoff' = [handoff EXCEPT ![d] = row]
      <4>1. handoff' = [handoff EXCEPT ![d] = NewRow(q, Cardinality(StoredHandoffs))]
        BY <1>2, <2>1 DEF Commit, NewRow
      <4> QED BY <4>1, RankType, NewRowType
    <3>3. stored' = [stored EXCEPT ![d] = q.body]
      BY <1>0, <2>0, <3>2
    <3>4. closed' = closed
      BY <1>0, <2>0, <3>1, <3>2
    <3>5. Out!Store(d, q.body)
      BY <1>2, <2>0, <3>1, <3>3, <3>4 DEF Out!Store, Commit
    <3> QED BY <2>0, <3>5 DEF Out!Next
  <2>2. CASE ~StoresHandoff(q)
    BY <1>1, <1>2, <2>2 DEF Commit
  <2> QED BY <2>1, <2>2
<1>3. ASSUME NEW t \in Task, Dispatch(t) PROVE [Out!Next]_Out!vars
  <2> DEFINE d == task[t].id
  <2>0. d \in Delivery
    BY TaskFacts
  <2>1. CASE (SendOk(t) \/ SendFails(t))
    <3>1. task[t].pc = "send" /\ handoff' = handoff
      BY <2>1 DEF SendOk, SendFails
    <3>2. stored[d] = task[t].body /\ stored[d] # NoBody
      BY <2>0, <3>1, NoBodyIsNoBody DEF IInv, TaskCarriesRow, RowMatchesReceipt
    <3>3. CASE queue' = queue
      BY <1>1, <3>1, <3>3
    <3>4. CASE queue' = [queue EXCEPT ![d] = @ \cup {task[t].body}]
      BY <2>0, <3>1, <3>2, <3>4 DEF Out!Publish, Out!Next
    <3> QED BY <2>1, <3>3, <3>4 DEF SendOk, SendFails
  <2>2. CASE (Mark(t) \/ MarkFails(t)) /\ Holds(t) /\ handoff' = Marked(t)
    <3>1. task[t].pc = "mark" /\ queue' = queue
      BY <2>2 DEF Mark, MarkFails
    <3>2. queue[d] # {}
      BY <3>1 DEF IInv, MarkedWasQueued
    <3>3. stored' = stored
      BY <1>0, <2>0, <2>2, MarkedRows
    <3>4. closed' = closed \cup {d}
      BY <1>0, <2>0, <2>2, MarkedRows
    <3> QED BY <2>0, <3>1, <3>2, <3>3, <3>4 DEF Out!Close, Out!Next
  <2>3. CASE Release(t)
    BY <1>0, <1>1, <2>0, <2>3, FreedRows DEF Release, Released
  <2>4. CASE Claim(t)
    <3>1. \A e \in Delivery : handoff'[e].body = handoff[e].body /\ handoff'[e].state = handoff[e].state
      BY <1>0, <2>4 DEF Claim, Handoff
    <3> QED BY <1>1, <2>4, <3>1 DEF Claim
  <2>5. CASE handoff' = handoff /\ queue' = queue
    BY <1>1, <2>5
  <2> QED BY <1>3, <2>1, <2>2, <2>3, <2>4, <2>5 DEF Dispatch, Running, WaitUntil, Replay, Start,
             Read, Mark, MarkFails, Marked, Cancel
<1>4. ASSUME NEW e \in Delivery, Expire(e) PROVE [Out!Next]_Out!vars
  <2>1. \A d \in Delivery : handoff'[d].body = handoff[d].body /\ handoff'[d].state = handoff[d].state
    BY <1>0, <1>4 DEF Expire, Handoff
  <2> QED BY <1>1, <1>4, <2>1 DEF Expire
<1>5. CASE handoff' = handoff /\ queue' = queue
  BY <1>1, <1>5
<1> QED BY <1>2, <1>3, <1>4, <1>5 DEF Next, Ingress, Receive, Abandon, vars

\* The receipts, leases, tasks and replays implement the plain outbox.
THEOREM Refinement == Spec => ImplementsOutbox
<1>1. Init => Out!Init
  BY DEF Init, NoHandoff, Out!Init
<1> QED BY <1>1, NextOutbox, Invariance, PTL DEF Spec, ImplementsOutbox, Out!Spec
=============================================================================
