---------------------------- MODULE QueueDispatch ----------------------------
(***************************************************************************)
(* The Queue consumer (src/src/queue-consumer-core.ts) over D1             *)
(* (src/src/orchestration-store.ts) for one Linear issue: several workers  *)
(* take batches of at-least-once messages and turn each delivery into a    *)
(* run with a Workflow instance, an event for the active run, or a         *)
(* recorded refusal.  Every D1 or provider call is a step of its own, so   *)
(* workers, route edits and the end of a run interleave between any two.   *)
(***************************************************************************)
EXTENDS Integers, FiniteSets

CONSTANTS Delivery,     \* source_delivery_ids of the issue's events
          StartDelivery,\* those whose transition is the route's start state
          NoDelivery,
          Worker,       \* concurrent consumer invocations
          MaxRun,       \* bound on run_sequence
          MaxRevision,  \* bound on route_revision
          MaxAttempts,  \* 1 + max_retries of the consumer's Queue
          BatchSize     \* max_batch_size

ASSUME StartsAreDeliveries == StartDelivery \subseteq Delivery
ASSUME NoDeliveryIsNone == NoDelivery \notin Delivery
ASSUME Bounds == {MaxRun, MaxRevision, MaxAttempts, BatchSize} \subseteq Nat \ {0}

VARIABLES policy,   \* project_workflow_policies row of the issue's project
          queued,   \* deliveries the Queue still has a copy of to hand out
          attempts, \* attempts[d]: how often it was handed out
          proof,    \* proof[d]: route_revision stamped into the message; 0 = not sent yet
          acked,    \* history: deliveries whose batch ended without an error
          runs,     \* runs[r]: the orchestration_runs row with run_sequence r
          intent,   \* intent[r]: its dispatch_intents row
          instances,\* runs whose workflow_instance_id exists at the provider
          inbox,    \* inbox[d]: the workflow_event_inbox row
          sentTo,   \* sentTo[d]: runs whose instance was sent d's event
          refused,  \* deliveries with a route_dispatch_results row
          worker    \* worker[w]: where processQueueBatch stands

vars == <<policy, queued, attempts, proof, acked, runs, intent, instances,
          inbox, sentTo, refused, worker>>
database == <<policy, runs, intent, inbox, refused>>
messages == <<queued, attempts, proof, acked>>
provider == <<instances, sentTo>>

Run == 1 .. MaxRun
NoRun == 0
Revision == 1 .. MaxRevision

Policy == [enabled : BOOLEAN, installed : BOOLEAN, revision : Revision]
RunRow == [status : {"absent", "pending_dispatch", "active", "final"},
           selection : Delivery \cup {NoDelivery}, revision : Revision \cup {0}]
Intent == [state : {"absent", "pending", "established", "failed"},
           source : Delivery \cup {NoDelivery}]
InboxRow == [state : {"absent", "unmatched", "pending", "sent", "claimed", "processed"},
             run : Run \cup {NoRun}]
Steps == {"idle", "next", "lookup", "policy", "active", "owner", "unmatched", "stale", "refuse",
          "access", "allocate", "recheck", "insert", "winner", "intent", "locate", "mark_intent", "mark_run",
          "mark_failed", "inbox", "locate_later", "send", "mark_sent"}
WorkerState == [pc : Steps, batch : SUBSET Delivery, todo : SUBSET Delivery,
                d : Delivery \cup {NoDelivery}, run : Run \cup {NoRun},
                policy : Policy \cup {NoDelivery}]

NoRow == [status |-> "absent", selection |-> NoDelivery, revision |-> 0]
NoIntent == [state |-> "absent", source |-> NoDelivery]
NoInbox == [state |-> "absent", run |-> NoRun]
Idle == [pc |-> "idle", batch |-> {}, todo |-> {}, d |-> NoDelivery,
         run |-> NoRun, policy |-> NoDelivery]

TypeOK == /\ policy \in Policy
          /\ queued \subseteq Delivery
          /\ attempts \in [Delivery -> 0 .. MaxAttempts]
          /\ proof \in [Delivery -> Revision \cup {0}]
          /\ acked \subseteq Delivery
          /\ runs \in [Run -> RunRow]
          /\ intent \in [Run -> Intent]
          /\ instances \subseteq Run
          /\ inbox \in [Delivery -> InboxRow]
          /\ sentTo \in [Delivery -> SUBSET Run]
          /\ refused \subseteq Delivery
          /\ worker \in [Worker -> WorkerState]

Init == /\ policy = [enabled |-> TRUE, installed |-> TRUE, revision |-> 1]
        /\ queued = {} /\ acked = {} /\ instances = {} /\ refused = {}
        /\ attempts = [d \in Delivery |-> 0]
        /\ proof = [d \in Delivery |-> 0]
        /\ runs = [r \in Run |-> NoRow]
        /\ intent = [r \in Run |-> NoIntent]
        /\ inbox = [d \in Delivery |-> NoInbox]
        /\ sentTo = [d \in Delivery |-> {}]
        /\ worker = [w \in Worker |-> Idle]
-----------------------------------------------------------------------------
(* What the SQL statements of the store select.                             *)

ActiveStatus == {"pending_dispatch", "active"}
ActiveRuns == {r \in Run : runs[r].status \in ActiveStatus}
UsedRuns == {r \in Run : runs[r].status # "absent"}

\* findActiveRun: ORDER BY run_sequence DESC LIMIT 1.
ActiveRun == IF ActiveRuns = {} THEN NoRun
             ELSE CHOOSE r \in ActiveRuns : \A q \in ActiveRuns : q <= r

\* findRunByDelivery.
RunsOf(d) == {r \in Run : runs[r].selection = d}
RunOf(d) == IF RunsOf(d) = {} THEN NoRun ELSE CHOOSE r \in RunsOf(d) : TRUE

\* COALESCE(MAX(run_sequence), 0) + 1.
NextSequence == 1 + Cardinality(UsedRuns)
-----------------------------------------------------------------------------
(* Around the consumer: ingress, operator, Queue, the running instances.    *)

\* entry.py _find_route_proof: an active run's frozen revision, or the enabled
\* route's current one for a start event.
Enqueue(d) ==
  /\ proof[d] = 0
  /\ ActiveRun = NoRun => policy.enabled /\ d \in StartDelivery
  /\ proof' = [proof EXCEPT ![d] = IF ActiveRun = NoRun THEN policy.revision
                                   ELSE runs[ActiveRun].revision]
  /\ queued' = queued \cup {d}
  /\ UNCHANGED <<attempts, acked, database, provider, worker>>

\* RouteAdmin or a new deployment changes the route: its revision advances.
EditRoute ==
  /\ policy.revision < MaxRevision
  /\ \E e, i \in BOOLEAN :
       policy' = [enabled |-> e, installed |-> i, revision |-> policy.revision + 1]
  /\ UNCHANGED <<messages, runs, intent, inbox, refused, provider, worker>>

\* The run's own instance ends it.
EndRun(r) ==
  /\ r \in instances /\ runs[r].status \in ActiveStatus
  /\ runs' = [runs EXCEPT ![r].status = "final"]
  /\ UNCHANGED <<messages, policy, intent, inbox, refused, provider, worker>>

\* The run's instance moves the row out of pending_dispatch at its first
\* transition, whether or not the consumer has marked it.
BeginRun(r) ==
  /\ r \in instances /\ runs[r].status = "pending_dispatch"
  /\ runs' = [runs EXCEPT ![r].status = "active"]
  /\ UNCHANGED <<messages, policy, intent, inbox, refused, provider, worker>>

\* claimInboxEvent and then markInboxState(claimed, processed) by that instance.
Consume(d) ==
  /\ inbox[d].run \in sentTo[d]
  /\ \/ inbox[d].state \in {"pending", "sent"} /\ runs[inbox[d].run].status \in ActiveStatus
        /\ inbox' = [inbox EXCEPT ![d].state = "claimed"]
     \/ inbox[d].state = "claimed" /\ inbox' = [inbox EXCEPT ![d].state = "processed"]
  /\ UNCHANGED <<messages, policy, runs, intent, refused, provider, worker>>
-----------------------------------------------------------------------------
(* A worker's batch.  Errors nack the whole batch (processQueueBatch awaits *)
(* the messages in turn and rethrows), after MaxAttempts a message is gone. *)

GoTo(w, pc) == worker' = [worker EXCEPT ![w].pc = pc]
GoToRun(w, pc, r) == worker' = [worker EXCEPT ![w].pc = pc, ![w].run = r]

\* Mutant: a Queue without max_retries.
ReceiveUnlimited(w, batch) ==
  /\ worker[w].pc = "idle" /\ batch # {} /\ batch \subseteq queued
  /\ attempts' = [d \in Delivery |-> attempts[d] + IF d \in batch THEN 1 ELSE 0]
  /\ queued' = queued
  /\ worker' = [worker EXCEPT ![w] = [Idle EXCEPT !.pc = "next", !.batch = batch,
                                                  !.todo = batch]]
  /\ UNCHANGED <<proof, acked, database, provider>>

\* The Queue is at least once: a copy may stay behind for another worker.
Receive(w, batch) ==
  /\ worker[w].pc = "idle"
  /\ batch # {} /\ batch \subseteq queued /\ Cardinality(batch) <= BatchSize
  /\ \A d \in batch : attempts[d] < MaxAttempts
  /\ attempts' = [d \in Delivery |-> attempts[d] + IF d \in batch THEN 1 ELSE 0]
  /\ \E copies \in SUBSET {d \in batch : attempts'[d] < MaxAttempts} : queued' = (queued \ batch) \cup copies
  /\ worker' = [worker EXCEPT ![w] = [Idle EXCEPT !.pc = "next", !.batch = batch,
                                                  !.todo = batch]]
  /\ UNCHANGED <<proof, acked, database, provider>>

TakeMessage(w) ==
  /\ worker[w].pc = "next"
  /\ \E d \in worker[w].todo :
       worker' = [worker EXCEPT ![w].pc = "lookup", ![w].d = d, ![w].todo = @ \ {d}]
  /\ UNCHANGED <<messages, database, provider>>

AckBatch(w) ==
  /\ worker[w].pc = "next" /\ worker[w].todo = {}
  /\ acked' = acked \cup worker[w].batch
  /\ worker' = [worker EXCEPT ![w] = Idle]
  /\ UNCHANGED <<queued, attempts, proof, database, provider>>

\* The message is handled; the worker forgets what it had read for it.
Finished(w) == [worker EXCEPT ![w] = [Idle EXCEPT !.pc = "next", !.batch = worker[w].batch,
                                                  !.todo = worker[w].todo]]
Finish(w) == worker' = Finished(w)

\* Any call may fail and any invocation may be lost.
Nack(w) ==
  /\ queued' = queued \cup {d \in worker[w].batch : attempts[d] < MaxAttempts}
  /\ worker' = [worker EXCEPT ![w] = Idle]
  /\ UNCHANGED <<attempts, proof, acked>>

Fail(w) == /\ worker[w].pc # "idle"
           /\ Nack(w)
           /\ UNCHANGED <<database, provider>>
-----------------------------------------------------------------------------
(* processQueueMessage.                                                     *)

At(w, pc) == worker[w].pc = pc

FindRunByDelivery(w) ==
  /\ At(w, "lookup")
  /\ LET r == RunOf(worker[w].d) IN
       IF r = NoRun THEN GoTo(w, "policy")
       ELSE IF runs[r].status = "pending_dispatch" THEN GoToRun(w, "intent", r)
       ELSE Finish(w)
  /\ UNCHANGED <<messages, database, provider>>

FindPolicy(w) ==
  /\ At(w, "policy")
  /\ worker' = [worker EXCEPT ![w].pc = "active", ![w].policy = policy]
  /\ UNCHANGED <<messages, database, provider>>

\* The branches after findActiveRun decide on the policy read before it.
FindActiveRun(w) ==
  LET d == worker[w].d
      p == worker[w].policy
      start == p.enabled /\ d \in StartDelivery
  IN /\ At(w, "active")
     /\ IF ActiveRun # NoRun THEN GoToRun(w, "owner", ActiveRun)
        ELSE GoTo(w, CASE ~start -> "unmatched"
                       [] start /\ p.revision # proof[d] -> "stale"
                       [] OTHER -> IF p.installed THEN "access" ELSE "refuse")
     /\ UNCHANGED <<messages, database, provider>>

\* recordRouteDispatchResult; a route that was stale at once also leaves the
\* event in the inbox.
Refuse(w) ==
  /\ At(w, "refuse") \/ At(w, "stale")
  /\ refused' = refused \cup {worker[w].d}
  /\ IF At(w, "stale") THEN GoTo(w, "unmatched") ELSE Finish(w)
  /\ UNCHANGED <<messages, policy, runs, intent, inbox, provider>>

\* INSERT OR IGNORE of an event without a run.
InsertUnmatched(w) ==
  /\ At(w, "unmatched")
  /\ inbox' = IF inbox[worker[w].d] = NoInbox
              THEN [inbox EXCEPT ![worker[w].d].state = "unmatched"] ELSE inbox
  /\ Finish(w)
  /\ UNCHANGED <<messages, policy, runs, intent, refused, provider>>

FindIntent(w) ==
  /\ At(w, "owner")
  /\ GoTo(w, IF intent[worker[w].run].source = worker[w].d THEN "intent" ELSE "inbox")
  /\ UNCHANGED <<messages, database, provider>>

\* checkRepository, then saveRouteAccessResult guarded by the stamped revision;
\* a refusal disables the route and advances its revision.
CheckAccess(w) ==
  LET current == policy.revision = proof[worker[w].d] IN
  /\ At(w, "access")
  /\ \/ ~current /\ policy' = policy /\ GoTo(w, "refuse")
     \/ current /\ policy' = policy /\ GoTo(w, "allocate")
     \/ /\ current /\ policy.revision < MaxRevision
        /\ policy' = [policy EXCEPT !.enabled = FALSE, !.revision = @ + 1]
        /\ GoTo(w, "refuse")
  /\ UNCHANGED <<messages, runs, intent, inbox, refused, provider>>

\* allocateRun reads the active run and the next sequence, ...
Allocate(w) ==
  /\ At(w, "allocate")
  /\ IF ActiveRun # NoRun THEN GoToRun(w, "intent", ActiveRun)
     ELSE NextSequence <= MaxRun /\ GoToRun(w, "recheck", NextSequence)
  /\ UNCHANGED <<messages, database, provider>>

\* ... reads the policy again ...
RecheckPolicy(w) ==
  /\ At(w, "recheck")
  /\ GoTo(w, IF policy.enabled /\ policy.revision = proof[worker[w].d] THEN "insert" ELSE "refuse")
  /\ UNCHANGED <<messages, database, provider>>

\* ... then inserts.  RowSelected is the WHERE of its INSERT ... SELECT, and
\* the indexes are UNIQUE(run_sequence) and one_active_issue.
RouteUnchanged(d) == policy.enabled /\ policy.installed /\ policy.revision = proof[d]
NotSelected(d) == RunsOf(d) = {}
RowSelected(d) == RouteUnchanged(d) /\ NotSelected(d)
SequenceIsFree(r) == runs[r] = NoRow
NoneActive(r) == ActiveRuns = {}    \* mutant: UNIQUE(run_sequence) is missing
IndexesAllow(r) == SequenceIsFree(r) /\ ActiveRuns = {}

InsertRun(w) ==
  LET d == worker[w].d
      r == worker[w].run
  IN /\ At(w, "insert")
     /\ IF RowSelected(d) /\ IndexesAllow(r)
        THEN /\ runs' = [runs EXCEPT ![r] = [status |-> "pending_dispatch",
                            selection |-> d, revision |-> proof[d]]]
             /\ GoTo(w, "intent")
        ELSE /\ runs' = runs
             /\ IF RowSelected(d) THEN GoTo(w, "winner")
                ELSE IF RunOf(d) # NoRun THEN GoToRun(w, "intent", RunOf(d))
                ELSE GoTo(w, "refuse")
     /\ UNCHANGED <<messages, policy, intent, inbox, refused, provider>>

\* A constraint error looks for the winner and fails if it has ended already.
FindWinner(w) ==
  /\ At(w, "winner")
  /\ IF ActiveRun # NoRun
     THEN GoToRun(w, "intent", ActiveRun) /\ UNCHANGED messages
     ELSE Nack(w)
  /\ UNCHANGED <<database, provider>>
-----------------------------------------------------------------------------
(* establishDispatch.                                                       *)

\* createDispatchIntent: INSERT OR IGNORE under PRIMARY KEY(run_id) and
\* UNIQUE(source_delivery_id), then a read-back that must find d's own intent.
IntentAfter(r, d) ==
  IF intent[r] = NoIntent /\ \A q \in Run : intent[q].source # d
  THEN [intent EXCEPT ![r] = [state |-> "pending", source |-> d]]
  ELSE intent

CreateIntent(w) ==
  LET r == worker[w].run IN
  /\ At(w, "intent")
  /\ intent' = IntentAfter(r, worker[w].d)
  /\ IF intent'[r].source = worker[w].d
     THEN GoTo(w, "locate") /\ UNCHANGED messages
     ELSE Nack(w)
  /\ UNCHANGED <<policy, runs, inbox, refused, provider>>

\* locateOrCreateInstance: get, createBatch with the same id, get.  A failure
\* leaves the instance created or not.
Located(w) == instances' = instances \cup {worker[w].run}
LocateFails(w) == instances' = instances \/ Located(w)

\* Mutant: a provider error is logged and swallowed.
LocateSwallowing(w) ==
  /\ At(w, "locate")
  /\ LocateFails(w)
  /\ Finish(w)
  /\ UNCHANGED <<messages, database, sentTo>>

\* An established intent returns after the instance is located.
Locate(w) ==
  LET established == intent[worker[w].run].state = "established" IN
  /\ At(w, "locate")
  /\ \/ /\ Located(w)
        /\ IF established THEN Finish(w) ELSE GoTo(w, "mark_intent")
        /\ UNCHANGED messages
     \/ /\ LocateFails(w)
        /\ IF established THEN Nack(w) ELSE GoTo(w, "mark_failed") /\ UNCHANGED messages
  /\ UNCHANGED <<database, sentTo>>

\* markDispatchAttempt(established) is two statements, ...
MarkIntent(w) ==
  /\ At(w, "mark_intent")
  /\ intent' = [intent EXCEPT ![worker[w].run].state = "established"]
  /\ \/ GoTo(w, "mark_run")
     \/ GoTo(w, "mark_failed")    \* an error after the commit
  /\ UNCHANGED <<messages, policy, runs, inbox, refused, provider>>

\* ... the second one guarded by status = pending_dispatch.
MarkRun(w) ==
  /\ At(w, "mark_run")
  /\ runs' = IF runs[worker[w].run].status = "pending_dispatch"
             THEN [runs EXCEPT ![worker[w].run].status = "active"] ELSE runs
  /\ Finish(w)
  /\ UNCHANGED <<messages, policy, intent, inbox, refused, provider>>

\* markDispatchAttempt(failed), then the error is rethrown.
MarkFailed(w) ==
  /\ At(w, "mark_failed")
  /\ intent' = [intent EXCEPT ![worker[w].run].state = "failed"]
  /\ Nack(w)
  /\ UNCHANGED <<policy, runs, inbox, refused, provider>>
-----------------------------------------------------------------------------
(* routeLaterEvent.                                                         *)

InboxAfter(w) ==
  IF inbox[worker[w].d] = NoInbox
  THEN [inbox EXCEPT ![worker[w].d] = [state |-> "pending", run |-> worker[w].run]]
  ELSE inbox

\* Mutant: the row read back is not compared with the run.
InsertInboxUnchecked(w) ==
  LET d == worker[w].d IN
  /\ At(w, "inbox")
  /\ inbox' = InboxAfter(w)
  /\ IF inbox'[d].state = "pending" THEN GoTo(w, "locate_later") ELSE Finish(w)
  /\ UNCHANGED <<messages, policy, runs, intent, refused, provider>>

InsertInbox(w) ==
  LET d == worker[w].d IN
  /\ At(w, "inbox")
  /\ inbox' = InboxAfter(w)
  /\ IF inbox'[d].run # worker[w].run THEN Nack(w)
     ELSE /\ IF inbox'[d].state = "pending" THEN GoTo(w, "locate_later") ELSE Finish(w)
          /\ UNCHANGED messages
  /\ UNCHANGED <<policy, runs, intent, refused, provider>>

LocateLater(w) ==
  /\ At(w, "locate_later")
  /\ \/ Located(w) /\ GoTo(w, "send") /\ UNCHANGED messages
     \/ LocateFails(w) /\ Nack(w)
  /\ UNCHANGED <<database, sentTo>>

\* An instance that has ended takes no event; an error may follow a delivery.
SendEvent(w) ==
  LET d == worker[w].d
      r == worker[w].run
  IN /\ At(w, "send")
     /\ \/ /\ runs[r].status \in ActiveStatus
           /\ sentTo' = [sentTo EXCEPT ![d] = @ \cup {r}]
           /\ \/ GoTo(w, "mark_sent") /\ UNCHANGED messages
              \/ Nack(w)
        \/ sentTo' = sentTo /\ Nack(w)
     /\ UNCHANGED <<database, instances>>

\* markInboxState from pending to sent: a row that moved on is left alone.
MarkSent(w) ==
  /\ At(w, "mark_sent")
  /\ inbox' = IF inbox[worker[w].d].state = "pending"
              THEN [inbox EXCEPT ![worker[w].d].state = "sent"] ELSE inbox
  /\ Finish(w)
  /\ UNCHANGED <<messages, policy, runs, intent, refused, provider>>
-----------------------------------------------------------------------------
Consumer(w) ==
  \/ \E batch \in SUBSET Delivery : Receive(w, batch)
  \/ TakeMessage(w) \/ AckBatch(w) \/ Fail(w)
  \/ FindRunByDelivery(w) \/ FindPolicy(w) \/ FindActiveRun(w) \/ FindIntent(w)
  \/ Refuse(w) \/ InsertUnmatched(w)
  \/ CheckAccess(w) \/ Allocate(w) \/ RecheckPolicy(w) \/ InsertRun(w) \/ FindWinner(w)
  \/ CreateIntent(w) \/ Locate(w) \/ MarkIntent(w) \/ MarkRun(w) \/ MarkFailed(w)
  \/ InsertInbox(w) \/ LocateLater(w) \/ SendEvent(w) \/ MarkSent(w)

Environment == \/ EditRoute
               \/ \E d \in Delivery : Enqueue(d) \/ Consume(d)
               \/ \E r \in Run : BeginRun(r) \/ EndRun(r)

Next == Environment \/ \E w \in Worker : Consumer(w)

Spec == Init /\ [][Next]_vars
-----------------------------------------------------------------------------
\* A new run opens only when the issue has no active one, at the route revision
\* that its delivery carried and that the enabled route still has: no edit that
\* lands between the access check and the insert goes unnoticed (allocateRun).
RunsOpenOnCurrentRoute ==
  [][\A r \in Run : (runs[r] = NoRow /\ runs'[r] # NoRow) =>
       /\ ActiveRuns = {}
       /\ policy.enabled /\ policy.installed
       /\ runs'[r].revision = policy.revision
       /\ runs'[r].selection \in StartDelivery
       /\ proof[runs'[r].selection] = policy.revision]_vars

\* The Queue is not told that a delivery succeeded before it was refused, is
\* kept in the inbox, or has a run with an instance: the run it opened or the
\* winner's run that its dispatch intent names (workflow-dispatch spec, "Durable
\* dispatch cannot be established").
HasInstance(d) == \E r \in instances : d \in {intent[r].source, runs[r].selection}
AckedStartHasInstance ==
  \A d \in acked : d \in refused \/ inbox[d] # NoInbox \/ HasInstance(d)

\* An event is only ever sent to the run its inbox row names, and a row that
\* says sent really was sent, even if the issue's active run changed between
\* two attempts (routeLaterEvent).
EventReachesItsRun ==
  \A d \in Delivery : /\ sentTo[d] \subseteq {inbox[d].run}
                      /\ inbox[d].state \in {"sent", "claimed", "processed"}
                           => inbox[d].run \in sentTo[d]

Issue == INSTANCE IssueRuns WITH
           opener <- [r \in Run |-> runs[r].selection],
           started <- instances,
           ended <- {r \in Run : runs[r].status = "final"}

\* Dispatch implements the abstract life of an issue's runs.
ImplementsIssueRuns == Issue!Spec
=============================================================================
