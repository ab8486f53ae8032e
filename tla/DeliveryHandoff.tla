--------------------------- MODULE DeliveryHandoff ---------------------------
(***************************************************************************)
(* The Python ingress (src/src/entry.py, src/src/deos/delivery_handoff.py) *)
(* stores a verified Linear delivery and its Queue message in one D1       *)
(* batch, answers 200, and publishes the message afterwards from           *)
(* waitUntil tasks and from a scheduled replay.  Tasks compete through a   *)
(* lease on the row.  A task can be cancelled between any two awaits, the  *)
(* Queue can take a message and still answer with an error, and one        *)
(* delivery can be posted several times, concurrently.                     *)
(***************************************************************************)
EXTENDS Integers, FiniteSets

CONSTANTS Delivery,     \* Linear-Delivery identifiers
          Post,         \* concurrent HTTP requests
          Body,         \* payloads (their SHA-256 digests)
          NoBody,
          Task,         \* concurrent calls of dispatch(); a task is its uuid lease
          NoTask,
          ReplayLimit   \* LIMIT of the scheduled replay's query

ASSUME DeliveryFinite == IsFiniteSet(Delivery)
ASSUME NoBodyIsNoBody == NoBody \notin Body
ASSUME NoTaskIsNoTask == NoTask \notin Task
ASSUME ReplayLimitPositive == ReplayLimit \in Nat \ {0}

VARIABLES receipt,      \* receipt[d]: the deliveries row [body, class], class "absent" if none
          request,      \* POSTs that saw no receipt and have not committed
          handoff,      \* handoff[d]: the delivery_handoffs row
          task,         \* task[t]: where a call of dispatch() stands
          queue         \* history: queue[d], the payloads Queue.send stored for d

vars == <<receipt, request, handoff, task, queue>>

Receipt == [body : Body \cup {NoBody}, class : {"absent", "relevant", "irrelevant"}]
Request == [post : Post, id : Delivery, body : Body, relevant : BOOLEAN]
Handoff == [state : {"absent", "pending", "sent"}, body : Body \cup {NoBody},
            lease : Task \cup {NoTask}, expired : BOOLEAN, rank : Nat]
TaskState == [pc : {"idle", "claim", "read", "send", "mark", "release"},
              id : Delivery, body : Body \cup {NoBody}]

NoReceipt == [body |-> NoBody, class |-> "absent"]
NoHandoff == [state |-> "absent", body |-> NoBody, lease |-> NoTask,
              expired |-> FALSE, rank |-> 0]

TypeOK == /\ receipt \in [Delivery -> Receipt]
          /\ request \in SUBSET Request
          /\ handoff \in [Delivery -> Handoff]
          /\ task \in [Task -> TaskState]
          /\ queue \in [Delivery -> SUBSET Body]

Init == /\ receipt = [d \in Delivery |-> NoReceipt]
        /\ request = {}
        /\ handoff = [d \in Delivery |-> NoHandoff]
        /\ task \in [Task -> {[pc |-> "idle", id |-> d, body |-> NoBody] : d \in Delivery}]
        /\ queue = [d \in Delivery |-> {}]
-----------------------------------------------------------------------------
(* The HTTP handler.  The duplicate check and the route lookup are awaits   *)
(* that precede the batch; which route the lookup finds is the operator's   *)
(* choice of the moment, so two requests of one delivery may disagree.      *)

Receive(p, d, b, relevant) ==
  /\ receipt[d].class = "absent"
  /\ request' = request \cup {[post |-> p, id |-> d, body |-> b, relevant |-> relevant]}
  /\ UNCHANGED <<receipt, handoff, task, queue>>

\* Both INSERT OR IGNOREs of the batch.  The second one is guarded by the
\* receipt that won: same payload hash, classified relevant.
ReceiptAfter(q) == IF receipt[q.id].class # "absent" THEN receipt[q.id]
                   ELSE [body |-> q.body,
                         class |-> IF q.relevant THEN "relevant" ELSE "irrelevant"]

\* Mutants: without the EXISTS guard; INSERT OR REPLACE.
StoresHandoffUnguarded(q) == q.relevant /\ handoff[q.id].state = "absent"

StoresHandoffAgain(q) == q.relevant /\ ReceiptAfter(q) = [body |-> q.body, class |-> "relevant"]

StoresHandoff(q) ==
  /\ q.relevant
  /\ handoff[q.id].state = "absent"
  /\ ReceiptAfter(q) = [body |-> q.body, class |-> "relevant"]

StoredHandoffs == {d \in Delivery : handoff[d].state # "absent"}

Commit(q) ==
  /\ q \in request
  /\ request' = request \ {q}
  /\ receipt' = [receipt EXCEPT ![q.id] = ReceiptAfter(q)]
  /\ handoff' = IF StoresHandoff(q)
                THEN [handoff EXCEPT ![q.id] =
                        [NoHandoff EXCEPT !.state = "pending", !.body = q.body,
                                          !.rank = Cardinality(StoredHandoffs)]]
                ELSE handoff
  /\ UNCHANGED <<task, queue>>

\* The process is lost, or the batch fails and the caller gets a 500.
Abandon(q) == /\ q \in request
              /\ request' = request \ {q}
              /\ UNCHANGED <<receipt, handoff, task, queue>>
-----------------------------------------------------------------------------
(* dispatch(): claim the row, read it, send it, mark it or release it.      *)

GoTo(t, pc) == task' = [task EXCEPT ![t].pc = pc]
Holds(t) == handoff[task[t].id].lease = t

\* A call draws a fresh uuid.  An idle task's name stands for it even if a row
\* still carries that name: a call looks at its lease only after its own claim.
Start(t, d) == /\ task[t].pc = "idle"
               /\ task' = [task EXCEPT ![t] = [pc |-> "claim", id |-> d, body |-> NoBody]]
               /\ UNCHANGED <<receipt, request, handoff, queue>>

\* waitUntil(dispatch(...)) of a committed or of a repeated POST.
WaitUntil(t, d) == receipt[d].class # "absent" /\ Start(t, d)

Claimable(d) == /\ handoff[d].state = "pending"
                /\ handoff[d].lease = NoTask \/ handoff[d].expired

\* The rows one scheduled replay selects: the oldest ReplayLimit claimable ones.
Oldest == {d \in Delivery :
             /\ Claimable(d)
             /\ Cardinality({e \in Delivery : Claimable(e) /\ handoff[e].rank < handoff[d].rank})
                  < ReplayLimit}

Replay(t, d) == d \in Oldest /\ Start(t, d)

\* Mutant: a lease is never taken over.
ClaimsNoExpiry(t) == handoff[task[t].id].state = "pending" /\ handoff[task[t].id].lease = NoTask
Claims(t) == Claimable(task[t].id)

Claim(t) ==
  /\ task[t].pc = "claim"
  /\ IF Claims(t)
     THEN /\ handoff' = [handoff EXCEPT ![task[t].id].lease = t, ![task[t].id].expired = FALSE]
          /\ GoTo(t, "read")
     ELSE handoff' = handoff /\ GoTo(t, "idle")
  /\ UNCHANGED <<receipt, request, queue>>

\* The row is read again by its lease; without it row_value(None) makes the
\* send raise before anything reaches the Queue.
Read(t) ==
  /\ task[t].pc = "read"
  /\ task' = [task EXCEPT ![t].pc = IF Holds(t) THEN "send" ELSE "release",
                          ![t].body = IF Holds(t) THEN handoff[task[t].id].body ELSE NoBody]
  /\ UNCHANGED <<receipt, request, handoff, queue>>

SendOk(t) ==
  /\ task[t].pc = "send"
  /\ queue' = [queue EXCEPT ![task[t].id] = @ \cup {task[t].body}]
  /\ GoTo(t, "mark")
  /\ UNCHANGED <<receipt, request, handoff>>

\* Mutant: an error of the Queue is swallowed.
SendFailsSilently(t) ==
  /\ task[t].pc = "send"
  /\ GoTo(t, "mark")
  /\ UNCHANGED <<receipt, request, handoff, queue>>

\* The Queue answers with an error, whether or not it took the message.
SendFails(t) ==
  /\ task[t].pc = "send"
  /\ \/ queue' = queue
     \/ queue' = [queue EXCEPT ![task[t].id] = @ \cup {task[t].body}]
  /\ GoTo(t, "release")
  /\ UNCHANGED <<receipt, request, handoff>>

Freed(d) == [handoff EXCEPT ![d].lease = NoTask, ![d].expired = FALSE]

MarkedDelivered(t) == [handoff EXCEPT ![task[t].id].state = "delivered"]    \* mutant
Marked(t) == IF Holds(t) THEN [Freed(task[t].id) EXCEPT ![task[t].id].state = "sent"]
             ELSE handoff

Mark(t) == /\ task[t].pc = "mark"
           /\ handoff' = Marked(t)
           /\ GoTo(t, "idle")
           /\ UNCHANGED <<receipt, request, queue>>

\* D1 answers with an error, whether or not the update was made; the same
\* except clause handles it.
MarkFails(t) == /\ task[t].pc = "mark"
                /\ handoff' \in {handoff, Marked(t)}
                /\ GoTo(t, "release")
                /\ UNCHANGED <<receipt, request, queue>>

\* Mutant: the release does not compare the lease.
ReleasedByAnyone(t) == Freed(task[t].id)
Released(t) == IF Holds(t) THEN Freed(task[t].id) ELSE handoff

\* Errors are recorded and the lease is given back, or that batch fails too.
Release(t) == /\ task[t].pc = "release"
              /\ handoff' \in {handoff, Released(t)}
              /\ GoTo(t, "idle")
              /\ UNCHANGED <<receipt, request, queue>>

Cancel(t) == /\ task[t].pc # "idle"
             /\ GoTo(t, "idle")
             /\ UNCHANGED <<receipt, request, handoff, queue>>

\* A minute passes: lease_until <= now.
Expire(d) == /\ handoff[d].lease # NoTask /\ ~handoff[d].expired
             /\ handoff' = [handoff EXCEPT ![d].expired = TRUE]
             /\ UNCHANGED <<receipt, request, task, queue>>
-----------------------------------------------------------------------------
Ingress == \/ \E p \in Post, d \in Delivery, b \in Body, r \in BOOLEAN : Receive(p, d, b, r)
           \/ \E q \in Request : Commit(q) \/ Abandon(q)

Running(t) == \/ Claim(t) \/ Read(t) \/ SendOk(t) \/ SendFails(t)
              \/ Mark(t) \/ MarkFails(t) \/ Release(t) \/ Cancel(t)

Dispatch(t) == Running(t) \/ \E d \in Delivery : WaitUntil(t, d) \/ Replay(t, d)

Next == Ingress \/ (\E t \in Task : Dispatch(t)) \/ (\E d \in Delivery : Expire(d))

Spec == Init /\ [][Next]_vars

\* A call ends, the cron trigger keeps firing and time keeps passing, and calls
\* that are tried again and again are not all cancelled or failed
\* (strong fairness): a Queue that never accepts would excuse everything.
Fairness ==
  /\ \A t \in Task : WF_vars(Running(t))
  /\ \A d \in Delivery : /\ WF_vars(Expire(d))
                         /\ SF_vars(\E t \in Task : Replay(t, d))
                         /\ SF_vars(\E t \in Task : task[t].id = d /\ Claim(t) /\ Claims(t))
                         /\ SF_vars(\E t \in Task : task[t].id = d /\ Holds(t) /\ Read(t))
                         /\ SF_vars(\E t \in Task : task[t].id = d /\ Holds(t) /\ SendOk(t))
                         /\ SF_vars(\E t \in Task : task[t].id = d /\ Holds(t) /\ Mark(t))

FairSpec == Spec /\ Fairness
-----------------------------------------------------------------------------
\* What reaches the Queue for a delivery is the payload of its receipt, and the
\* receipt was classified relevant, whatever concurrent POSTs carried
\* (the EXISTS guard of the second insert in entry.py).
QueuedMatchesReceipt ==
  \A d \in Delivery : \A b \in queue[d] : receipt[d] = [body |-> b, class |-> "relevant"]

\* A row is closed only once the Queue has taken its message: an error or a
\* cancelled task never loses a delivery (delivery_handoff.py dispatch).
SentWasQueued == \A d \in Delivery : handoff[d].state = "sent" => queue[d] # {}

\* A lease is lost only to its expiry or by its own holder's step: a task that
\* wakes up after its lease was taken over cannot close or free the row.
LeaseRespected ==
  [][\A t \in Task, d \in Delivery :
       (handoff[d].lease = t /\ handoff'[d].lease # t) =>
         handoff[d].expired \/ (task[t].id = d /\ task'[t].pc # task[t].pc)]_vars

\* Scheduled replay recovers cancellation, process loss and ambiguous sends:
\* a stored message is eventually marked sent (entry.py, the comment at
\* the waitUntil of the accepted request).
StoredIsSent ==
  \A d \in Delivery : (handoff[d].state = "pending") ~> (handoff[d].state = "sent")

Out == INSTANCE Outbox WITH
         stored <- [d \in Delivery |-> handoff[d].body],
         published <- queue,
         closed <- {d \in Delivery : handoff[d].state = "sent"}

\* The lease protocol implements the plain outbox.
ImplementsOutbox == Out!Spec
=============================================================================
