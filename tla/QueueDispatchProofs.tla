------------------------- MODULE QueueDispatchProofs -------------------------
(***************************************************************************)
(* What QueueDispatch.tla promises of an issue's deliveries, runs and       *)
(* events, proved for every set of deliveries and workers, every batch size *)
(* and every bound on runs, revisions and attempts.                         *)
(***************************************************************************)
EXTENDS QueueDispatch, FiniteSetTheorems, TLAPS

\* A run has a row exactly when a delivery opened it.
RowsAreOpened ==
  \A r \in Run : /\ runs[r].status = "absent" => runs[r] = NoRow
                 /\ runs[r].selection = NoDelivery => runs[r].status = "absent"

\* The sequence numbers that are used have no gap.
NoGap == \E k \in 0 .. MaxRun : UsedRuns = 1 .. k

\* At most one run of the issue is active (one_active_issue).
OneActive == \A r, q \in ActiveRuns : r = q

\* A run that has begun or ended has an instance.
BegunHasInstance ==
  \A r \in Run : runs[r].status \in {"active", "final"} => r \in instances

\* Instances are only created for runs that have a row.
InstanceHasRow == instances \subseteq UsedRuns

\* What a delivery that its worker has left behind has come to.
Settled(d) == d \in refused \/ inbox[d] # NoInbox \/ HasInstance(d)

\* A worker has a message exactly while it handles one.
HoldsMessage(s) ==
  IF s.pc \in {"idle", "next"} THEN s.d = NoDelivery ELSE s.d \in Delivery

\* It starts a run only for a start delivery, numbered after the used ones.
StartsRun(s) ==
  /\ s.pc = "active" => s.policy \in Policy
  /\ s.pc \in {"access", "allocate", "recheck", "insert"} => s.d \in StartDelivery
  /\ s.pc \in {"recheck", "insert"}
       => s.run \in Run /\ \A q \in Run : q < s.run => q \in UsedRuns

\* It dispatches a run that has a row, under an intent of its own delivery.
DispatchesRun(s) ==
  /\ s.pc \in {"owner", "intent", "locate", "mark_intent", "mark_run", "mark_failed",
               "inbox", "locate_later", "send", "mark_sent"} => s.run \in UsedRuns
  /\ s.pc \in {"locate", "mark_intent", "mark_run"} => intent[s.run].source = s.d
  /\ s.pc \in {"mark_intent", "mark_run"} => s.run \in instances

\* It sends an event to the run that the inbox row names.
SendsEvent(s) ==
  /\ s.pc \in {"locate_later", "send", "mark_sent"} => inbox[s.d].run = s.run
  /\ s.pc = "mark_sent" => s.run \in sentTo[s.d]

\* It leaves no message of its batch behind unsettled.
LeavesSettled(s) == \A d \in s.batch \ (s.todo \cup {s.d}) : Settled(d)

WorkerFits(s) == /\ HoldsMessage(s) /\ StartsRun(s) /\ DispatchesRun(s)
                 /\ SendsEvent(s) /\ LeavesSettled(s)

WorkersFit == \A w \in Worker : WorkerFits(worker[w])

IInv == /\ TypeOK
        /\ RowsAreOpened /\ NoGap /\ OneActive
        /\ BegunHasInstance /\ InstanceHasRow
        /\ WorkersFit
        /\ AckedStartHasInstance /\ EventReachesItsRun
-----------------------------------------------------------------------------
(* Facts about the constants, the selections and the rows.                  *)

LEMMA ConstantFacts ==
  /\ Run \subseteq Nat \ {0} /\ NoRun \notin Run /\ NoDelivery \notin Delivery
  /\ StartDelivery \subseteq Delivery /\ 1 \in Revision
  /\ MaxRun \in Nat \ {0} /\ MaxRevision \in Nat \ {0} /\ MaxAttempts \in Nat \ {0}
BY StartsAreDeliveries, NoDeliveryIsNone, Bounds DEF Run, NoRun, Revision

LEMMA IdleTyped ==
  /\ Idle \in WorkerState
  /\ \A b, t \in SUBSET Delivery :
       [Idle EXCEPT !.pc = "next", !.batch = b, !.todo = t] \in WorkerState
BY DEF Idle, WorkerState, Steps, NoRun

\* findActiveRun finds the active run, if there is one.
LEMMA ActiveRunIs ==
  ASSUME OneActive
  PROVE  \/ ActiveRuns = {} /\ ActiveRun = NoRun
         \/ ActiveRun \in ActiveRuns /\ ActiveRun # NoRun
<1>1. CASE ActiveRuns = {}
  BY <1>1 DEF ActiveRun
<1>2. CASE ActiveRuns # {}
  <2>1. PICK r \in ActiveRuns : TRUE
    BY <1>2
  <2>2. ActiveRuns \subseteq Run
    BY DEF ActiveRuns
  <2>3. \A q \in ActiveRuns : q <= r
    BY <2>1, <2>2, ConstantFacts DEF OneActive
  <2>4. ActiveRun \in ActiveRuns
    BY <1>2, <2>1, <2>3 DEF ActiveRun
  <2> QED BY <2>2, <2>4, ConstantFacts
<1> QED BY <1>1, <1>2

LEMMA ActiveRunTyped == OneActive => ActiveRun \in Run \cup {NoRun}
BY ActiveRunIs DEF ActiveRuns

LEMMA RunOfTyped ==
  ASSUME NEW d PROVE RunOf(d) # NoRun => RunOf(d) \in Run /\ runs[RunOf(d)].selection = d
<1>1. CASE RunsOf(d) = {}
  BY <1>1 DEF RunOf
<1>2. CASE RunsOf(d) # {}
  <2>1. RunOf(d) \in RunsOf(d)
    BY <1>2 DEF RunOf
  <2> QED BY <2>1 DEF RunsOf
<1> QED BY <1>1, <1>2

\* Every number below the next sequence number is used.
LEMMA NextSequenceIs ==
  ASSUME NoGap
  PROVE  /\ NextSequence \in Nat \ {0}
         /\ \A q \in Run : q < NextSequence => q \in UsedRuns
<1>1. PICK k \in 0 .. MaxRun : UsedRuns = 1 .. k
  BY DEF NoGap
<1>2. k \in Nat
  BY <1>1, ConstantFacts
<1>3. Cardinality(1 .. k) = k
  BY <1>2, FS_Interval
<1>4. NextSequence = 1 + k
  BY <1>1, <1>3 DEF NextSequence
<1> QED BY <1>1, <1>2, <1>4, ConstantFacts
-----------------------------------------------------------------------------
(* Types.                                                                   *)

\* Every step of a worker replaces its own state.
LEMMA GoToTyped ==
  ASSUME TypeOK, NEW w \in Worker, NEW pc \in Steps, NEW r \in Run \cup {NoRun},
         GoTo(w, pc) \/ GoToRun(w, pc, r)
  PROVE  worker' \in [Worker -> WorkerState]
<1>1. worker \in [Worker -> WorkerState]
  BY DEF TypeOK
<1>2. CASE GoTo(w, pc)
  BY <1>1, <1>2 DEF WorkerState, GoTo
<1>3. CASE GoToRun(w, pc, r)
  BY <1>1, <1>3 DEF WorkerState, GoToRun
<1> QED BY <1>2, <1>3

LEMMA FinishTyped ==
  ASSUME TypeOK, NEW w \in Worker, Finish(w)
  PROVE  worker' \in [Worker -> WorkerState]
<1>1. worker[w].batch \in SUBSET Delivery /\ worker[w].todo \in SUBSET Delivery
  BY DEF TypeOK, WorkerState
<1> QED BY <1>1, IdleTyped DEF TypeOK, Finish, Finished

LEMMA NackTyped ==
  ASSUME TypeOK, NEW w \in Worker, Nack(w)
  PROVE  /\ worker' \in [Worker -> WorkerState]
         /\ queued' \subseteq Delivery /\ UNCHANGED <<attempts, proof, acked>>
<1>1. worker[w].batch \subseteq Delivery
  BY DEF TypeOK, WorkerState
<1> QED BY <1>1, IdleTyped DEF TypeOK, Nack

LEMMA WorkerTyped ==
  ASSUME IInv, NEW w \in Worker, Consumer(w)
  PROVE  worker' \in [Worker -> WorkerState]
<1> USE DEF Steps
<1>0. TypeOK /\ OneActive /\ NoGap /\ WorkerFits(worker[w]) /\ worker[w] \in WorkerState
  BY DEF IInv, WorkersFit, TypeOK
<1>1. ASSUME NEW batch \in SUBSET Delivery, Receive(w, batch)
      PROVE  worker' \in [Worker -> WorkerState]
  BY <1>0, <1>1, IdleTyped DEF Receive, TypeOK
<1>2. CASE TakeMessage(w)
  <2>1. PICK d \in worker[w].todo :
          worker' = [worker EXCEPT ![w].pc = "lookup", ![w].d = d, ![w].todo = @ \ {d}]
    BY <1>2 DEF TakeMessage
  <2> QED BY <1>0, <2>1 DEF TypeOK, WorkerState
<1>3. CASE AckBatch(w)
  BY <1>0, <1>3, IdleTyped DEF AckBatch, TypeOK
<1>4. CASE Fail(w) \/ MarkFailed(w)
  BY <1>0, <1>4, NackTyped DEF Fail, MarkFailed
<1>5. CASE FindRunByDelivery(w)
  BY <1>0, <1>5, RunOfTyped, GoToTyped, FinishTyped, Zenon DEF FindRunByDelivery
<1>6. CASE FindPolicy(w)
  BY <1>0, <1>6 DEF FindPolicy, TypeOK, WorkerState
<1>7. CASE FindActiveRun(w)
  BY <1>0, <1>7, ActiveRunTyped, GoToTyped DEF FindActiveRun
<1>8. CASE FindIntent(w) \/ CheckAccess(w) \/ RecheckPolicy(w)
  BY <1>0, <1>8, GoToTyped DEF FindIntent, CheckAccess, RecheckPolicy
<1>9. CASE Refuse(w) \/ InsertUnmatched(w) \/ MarkRun(w) \/ MarkSent(w)
  BY <1>0, <1>9, GoToTyped, FinishTyped DEF Refuse, InsertUnmatched, MarkRun, MarkSent
<1>10. CASE Allocate(w)
  <2>1. NextSequence <= MaxRun => NextSequence \in Run
    BY <1>0, NextSequenceIs, ConstantFacts DEF Run
  <2> QED BY <1>0, <1>10, <2>1, ActiveRunTyped, GoToTyped DEF Allocate
<1>11. CASE InsertRun(w)
  BY <1>0, <1>11, RunOfTyped, GoToTyped DEF InsertRun
<1>12. CASE FindWinner(w)
  BY <1>0, <1>12, ActiveRunTyped, GoToTyped, NackTyped DEF FindWinner
<1>13. CASE CreateIntent(w) \/ Locate(w) \/ MarkIntent(w) \/ LocateLater(w)
  BY <1>0, <1>13, GoToTyped, FinishTyped, NackTyped
     DEF CreateIntent, Locate, MarkIntent, LocateLater
<1>14. CASE InsertInbox(w) \/ SendEvent(w)
  BY <1>0, <1>14, GoToTyped, FinishTyped, NackTyped DEF InsertInbox, SendEvent
<1> QED
  BY <1>1, <1>2, <1>3, <1>4, <1>5, <1>6, <1>7, <1>8, <1>9, <1>10, <1>11, <1>12, <1>13,
     <1>14 DEF Consumer

LEMMA ConsumerTyped ==
  ASSUME IInv, NEW w \in Worker, Consumer(w)
  PROVE  TypeOK'
<1>0. /\ TypeOK /\ OneActive /\ WorkerFits(worker[w]) /\ worker[w] \in WorkerState
      /\ worker' \in [Worker -> WorkerState]
  BY WorkerTyped DEF IInv, WorkersFit, TypeOK
<1> DEFINE d == worker[w].d
           r == worker[w].run
<1>1. ASSUME NEW batch \in SUBSET Delivery, Receive(w, batch) PROVE TypeOK'
  <2>1. attempts' \in [Delivery -> 0 .. MaxAttempts]
    BY <1>0, <1>1, ConstantFacts DEF TypeOK, Receive
  <2>2. queued' \subseteq Delivery
    BY <1>0, <1>1 DEF TypeOK, Receive
  <2> QED BY <1>0, <1>1, <2>1, <2>2 DEF TypeOK, Receive, database, provider
<1>2. CASE TakeMessage(w)
  BY <1>0, <1>2 DEF TakeMessage, TypeOK, messages, database, provider
<1>3. CASE AckBatch(w)
  <2>1. acked' \subseteq Delivery
    BY <1>0, <1>3 DEF TypeOK, AckBatch, WorkerState
  <2> QED BY <1>0, <1>3, <2>1 DEF TypeOK, AckBatch, database, provider
<1>4. CASE Fail(w)
  BY <1>0, <1>4, NackTyped DEF Fail, TypeOK, database, provider
<1>5. CASE FindRunByDelivery(w) \/ FindPolicy(w) \/ FindActiveRun(w) \/ FindIntent(w)
           \/ Allocate(w) \/ RecheckPolicy(w)
  BY <1>0, <1>5 DEF FindRunByDelivery, FindPolicy, FindActiveRun, FindIntent, Allocate,
     RecheckPolicy, TypeOK, messages, database, provider
<1>6. CASE Refuse(w)
  <2>1. d \in Delivery
    BY <1>0, <1>6 DEF Refuse, At, WorkerFits, HoldsMessage
  <2> QED BY <1>0, <1>6, <2>1 DEF Refuse, TypeOK, messages, provider
<1>7. ASSUME InsertUnmatched(w) \/ InsertInbox(w) \/ MarkSent(w) PROVE TypeOK'
  <2>1. d \in Delivery /\ r \in Run \cup {NoRun}
    BY <1>0, <1>7 DEF InsertUnmatched, InsertInbox, MarkSent, At, WorkerFits, HoldsMessage,
       WorkerState
  <2>2. inbox' \in [Delivery -> InboxRow]
    BY <1>0, <1>7, <2>1 DEF InsertUnmatched, InsertInbox, MarkSent, InboxAfter, TypeOK, InboxRow
  <2>3. CASE InsertInbox(w)
    BY <1>0, <2>2, <2>3, NackTyped DEF InsertInbox, TypeOK, messages, provider
  <2>4. CASE InsertUnmatched(w) \/ MarkSent(w)
    BY <1>0, <2>2, <2>4 DEF InsertUnmatched, MarkSent, TypeOK, messages, provider
  <2> QED BY <1>7, <2>3, <2>4
<1>8. CASE CheckAccess(w)
  <2>1. policy \in Policy
    BY <1>0 DEF TypeOK
  <2>2. policy.revision < MaxRevision
        => [policy EXCEPT !.enabled = FALSE, !.revision = @ + 1] \in Policy
    <3>1. policy.revision \in 1 .. MaxRevision
      BY <2>1 DEF Policy, Revision
    <3>2. policy.revision < MaxRevision => policy.revision + 1 \in Revision
      BY <3>1, ConstantFacts DEF Revision
    <3> QED BY <2>1, <3>2, ConstantFacts DEF Policy
  <2>3. policy' \in Policy
    BY <1>8, <2>1, <2>2 DEF CheckAccess
  <2> QED BY <1>0, <1>8, <2>3 DEF CheckAccess, TypeOK, messages, provider
<1>9. ASSUME InsertRun(w) \/ MarkRun(w) PROVE TypeOK'
  <2>1. d \in Delivery
    BY <1>0, <1>9 DEF InsertRun, MarkRun, At, WorkerFits, HoldsMessage
  <2>2. proof[d] \in Revision \cup {0}
    BY <1>0, <2>1 DEF TypeOK
  <2>3. runs' \in [Run -> RunRow]
    BY <1>0, <1>9, <2>1, <2>2 DEF InsertRun, MarkRun, TypeOK, RunRow
  <2> QED BY <1>0, <1>9, <2>3 DEF InsertRun, MarkRun, TypeOK, messages, provider
<1>10. CASE FindWinner(w)
  BY <1>0, <1>10, NackTyped DEF FindWinner, TypeOK, messages, database, provider
<1>11. ASSUME CreateIntent(w) \/ MarkIntent(w) \/ MarkFailed(w) PROVE TypeOK'
  <2>1. d \in Delivery
    BY <1>0, <1>11 DEF CreateIntent, MarkIntent, MarkFailed, At, WorkerFits, HoldsMessage
  <2>2. intent' \in [Run -> Intent]
    BY <1>0, <1>11, <2>1 DEF CreateIntent, MarkIntent, MarkFailed, IntentAfter, TypeOK, Intent
  <2>3. queued' \subseteq Delivery /\ UNCHANGED <<attempts, proof, acked>>
    BY <1>0, <1>11, NackTyped DEF CreateIntent, MarkIntent, MarkFailed, messages, TypeOK
  <2> QED BY <1>0, <1>11, <2>2, <2>3 DEF CreateIntent, MarkIntent, MarkFailed, TypeOK, provider
<1>12. ASSUME Locate(w) \/ LocateLater(w) PROVE TypeOK'
  <2>1. r \in Run
    BY <1>0, <1>12 DEF Locate, LocateLater, At, WorkerFits, DispatchesRun, UsedRuns
  <2>2. instances' \subseteq Run
    BY <1>0, <1>12, <2>1 DEF Locate, LocateLater, LocateFails, Located, TypeOK
  <2>3. queued' \subseteq Delivery /\ UNCHANGED <<attempts, proof, acked>>
    BY <1>0, <1>12, NackTyped DEF Locate, LocateLater, messages, TypeOK
  <2> QED BY <1>0, <1>12, <2>2, <2>3 DEF Locate, LocateLater, TypeOK, database
<1>13. CASE SendEvent(w)
  <2>1. r \in Run
    BY <1>0, <1>13 DEF SendEvent, At, WorkerFits, DispatchesRun, UsedRuns
  <2>2. sentTo' \in [Delivery -> SUBSET Run]
    BY <1>0, <1>13, <2>1 DEF SendEvent, TypeOK
  <2>3. queued' \subseteq Delivery /\ UNCHANGED <<attempts, proof, acked>>
    BY <1>0, <1>13, NackTyped DEF SendEvent, messages, TypeOK
  <2> QED BY <1>0, <1>13, <2>2, <2>3 DEF SendEvent, TypeOK, database
<1> QED
  BY <1>1, <1>2, <1>3, <1>4, <1>5, <1>6, <1>7, <1>8, <1>9, <1>10, <1>11, <1>12, <1>13
     DEF Consumer

LEMMA EnvironmentTyped ==
  ASSUME IInv, Environment PROVE TypeOK'
<1>0. TypeOK /\ OneActive
  BY DEF IInv
<1>1. CASE EditRoute
  <2>1. policy' \in Policy
    BY <1>0, <1>1, ConstantFacts DEF EditRoute, TypeOK, Policy, Revision
  <2> QED BY <1>0, <1>1, <2>1 DEF EditRoute, TypeOK, messages, provider
<1>2. ASSUME NEW d \in Delivery, Enqueue(d) PROVE TypeOK'
  <2>1. IF ActiveRun = NoRun THEN policy.revision \in Revision
                             ELSE runs[ActiveRun].revision \in Revision \cup {0}
    BY <1>0, ActiveRunTyped DEF TypeOK, Policy, RunRow
  <2>2. proof' \in [Delivery -> Revision \cup {0}]
    BY <1>0, <1>2, <2>1 DEF Enqueue, TypeOK
  <2> QED BY <1>0, <1>2, <2>2 DEF Enqueue, TypeOK, database, provider
<1>3. ASSUME NEW d \in Delivery, Consume(d) PROVE TypeOK'
  <2>1. inbox' \in [Delivery -> InboxRow]
    BY <1>0, <1>3 DEF Consume, TypeOK, InboxRow
  <2> QED BY <1>0, <1>3, <2>1 DEF Consume, TypeOK, messages, provider
<1>4. ASSUME NEW r \in Run, BeginRun(r) \/ EndRun(r) PROVE TypeOK'
  <2>1. runs' \in [Run -> RunRow]
    BY <1>0, <1>4 DEF BeginRun, EndRun, TypeOK, RunRow
  <2> QED BY <1>0, <1>4, <2>1 DEF BeginRun, EndRun, TypeOK, messages, provider
<1> QED BY <1>1, <1>2, <1>3, <1>4 DEF Environment
-----------------------------------------------------------------------------
(* What is written stays: rows, instances, sources, refusals and receipts.  *)

Grows ==
  /\ UsedRuns \subseteq UsedRuns' /\ instances \subseteq instances'
  /\ refused \subseteq refused'
  /\ \A r \in Run :
       /\ intent[r].source # NoDelivery => intent'[r].source = intent[r].source
       /\ runs[r].selection # NoDelivery => runs'[r].selection = runs[r].selection
  /\ \A d \in Delivery :
       /\ inbox[d] # NoInbox => inbox'[d] # NoInbox
       /\ inbox[d].run # NoRun => inbox'[d].run = inbox[d].run
       /\ sentTo[d] \subseteq sentTo'[d]

\* A step that moves a run's row on keeps it.
LEMMA RunsGrow ==
  ASSUME IInv, TypeOK', NEW r \in Run, NEW s \in {"active", "final"},
         runs[r].status \in ActiveStatus, runs' = [runs EXCEPT ![r].status = s]
  PROVE  /\ UsedRuns = UsedRuns'
         /\ \A q \in Run : runs'[q].selection = runs[q].selection
BY DEF IInv, TypeOK, RunRow, UsedRuns, ActiveStatus

LEMMA NextGrows ==
  ASSUME IInv, TypeOK', Next
  PROVE  Grows
<1>0. TypeOK /\ RowsAreOpened
  BY DEF IInv
<1>1. CASE UNCHANGED <<runs, intent, instances, inbox, sentTo, refused>>
  BY <1>1 DEF Grows, UsedRuns
<1>2. ASSUME NEW r \in Run, BeginRun(r) \/ EndRun(r) PROVE Grows
  <2>1. /\ UsedRuns = UsedRuns'
        /\ \A q \in Run : runs'[q].selection = runs[q].selection
    BY <1>2, RunsGrow DEF BeginRun, EndRun, ActiveStatus
  <2> QED BY <1>2, <2>1 DEF BeginRun, EndRun, Grows, provider
<1>3. ASSUME NEW d \in Delivery, Consume(d) PROVE Grows
  <2>1. \A e \in Delivery : /\ inbox[e] # NoInbox => inbox'[e] # NoInbox
                            /\ inbox[e].run = inbox'[e].run
    BY <1>0, <1>3 DEF Consume, TypeOK, InboxRow, NoInbox
  <2> QED BY <1>3, <2>1 DEF Consume, Grows, UsedRuns, provider
<1>4. ASSUME NEW d \in Delivery, Enqueue(d) PROVE Grows
  BY <1>1, <1>4 DEF Enqueue, database, provider
<1>5. ASSUME EditRoute PROVE Grows
  BY <1>1, <1>5 DEF EditRoute, provider
<1>6. ASSUME NEW w \in Worker, Consumer(w) PROVE Grows
  <2> DEFINE d == worker[w].d
             r == worker[w].run
  <2>0. WorkerFits(worker[w]) /\ worker[w] \in WorkerState
    BY <1>0 DEF IInv, WorkersFit, TypeOK
  <2>1. CASE Refuse(w)
    BY <2>1 DEF Refuse, Grows, UsedRuns, provider
  <2>2. ASSUME InsertUnmatched(w) \/ InsertInbox(w) \/ MarkSent(w) PROVE Grows
    <3>1. d \in Delivery /\ r \in Run \cup {NoRun}
      BY <2>0, <2>2 DEF InsertUnmatched, InsertInbox, MarkSent, At, WorkerFits, HoldsMessage,
         WorkerState
    <3>2. \A e \in Delivery : /\ inbox[e] # NoInbox => inbox'[e] # NoInbox
                              /\ inbox[e].run # NoRun => inbox'[e].run = inbox[e].run
      BY <1>0, <2>2, <3>1 DEF InsertUnmatched, InsertInbox, MarkSent, InboxAfter, TypeOK,
         InboxRow, NoInbox
    <3> QED BY <2>2, <3>2 DEF InsertUnmatched, InsertInbox, MarkSent, Grows, UsedRuns, provider
  <2>3. CASE InsertRun(w)
    <3>1. \A q \in Run : runs'[q] = runs[q] \/ (runs[q] = NoRow /\ runs'[q].status = "pending_dispatch")
      BY <1>0, <2>3 DEF InsertRun, IndexesAllow, SequenceIsFree, TypeOK
    <3> QED BY <2>3, <3>1 DEF InsertRun, Grows, UsedRuns, NoRow, provider
  <2>4. CASE MarkRun(w)
    <3>1. r \in Run
      BY <2>0, <2>4 DEF MarkRun, At, WorkerFits, DispatchesRun, UsedRuns
    <3>2. /\ UsedRuns = UsedRuns'
          /\ \A q \in Run : runs'[q].selection = runs[q].selection
      <4>1. CASE runs[r].status = "pending_dispatch"
        BY <2>4, <3>1, <4>1, RunsGrow DEF MarkRun, ActiveStatus
      <4>2. CASE runs[r].status # "pending_dispatch"
        BY <2>4, <4>2 DEF MarkRun, UsedRuns
      <4> QED BY <4>1, <4>2
    <3> QED BY <2>4, <3>2 DEF MarkRun, Grows, provider
  <2>5. ASSUME CreateIntent(w) \/ MarkIntent(w) \/ MarkFailed(w) PROVE Grows
    <3>1. \A q \in Run : intent[q].source # NoDelivery => intent'[q].source = intent[q].source
      BY <1>0, <2>5 DEF CreateIntent, MarkIntent, MarkFailed, IntentAfter, NoIntent, TypeOK, Intent
    <3> QED BY <2>5, <3>1 DEF CreateIntent, MarkIntent, MarkFailed, Grows, UsedRuns, provider
  <2>6. CASE Locate(w) \/ LocateLater(w)
    BY <2>6 DEF Locate, LocateLater, LocateFails, Located, Grows, UsedRuns, database
  <2>7. CASE SendEvent(w)
    <3>1. \A e \in Delivery : sentTo[e] \subseteq sentTo'[e]
      BY <1>0, <2>7 DEF SendEvent, TypeOK
    <3> QED BY <2>7, <3>1 DEF SendEvent, Grows, UsedRuns, database
  <2>8. CASE CheckAccess(w)
    BY <1>1, <2>8 DEF CheckAccess, provider
  <2>9. CASE UNCHANGED <<database, provider>>
    BY <1>1, <2>9 DEF database, provider
  <2> QED
    BY <1>6, <2>1, <2>2, <2>3, <2>4, <2>5, <2>6, <2>7, <2>8, <2>9
       DEF Consumer, Receive, TakeMessage, AckBatch, Fail, FindRunByDelivery, FindPolicy,
           FindActiveRun, FindIntent, Allocate, RecheckPolicy, FindWinner
<1> QED BY <1>2, <1>3, <1>4, <1>5, <1>6 DEF Next, Environment

\* What a delivery has come to stays.
LEMMA SettledStays ==
  ASSUME TypeOK, Grows, NEW d \in Delivery, Settled(d)
  PROVE  Settled(d)'
<1>1. CASE d \in refused \/ inbox[d] # NoInbox
  BY <1>1 DEF Grows, Settled
<1>2. CASE HasInstance(d)
  <2>1. PICK r \in instances : d \in {intent[r].source, runs[r].selection}
    BY <1>2 DEF HasInstance
  <2>2. r \in Run /\ r \in instances'
    BY <2>1 DEF TypeOK, Grows
  <2>3. d \in {intent'[r].source, runs'[r].selection}
    BY <2>1, <2>2, ConstantFacts DEF Grows
  <2> QED BY <2>2, <2>3 DEF Settled, HasInstance
<1> QED BY <1>1, <1>2 DEF Settled

\* What a worker relies on stays, whatever the others do.
LEMMA FitsStays ==
  ASSUME TypeOK, Grows
  PROVE  \A s \in WorkerState : WorkerFits(s) => WorkerFits(s)'
<1> SUFFICES ASSUME NEW s \in WorkerState, WorkerFits(s) PROVE WorkerFits(s)'
  OBVIOUS
<1>1. HoldsMessage(s)'
  BY DEF WorkerFits, HoldsMessage
<1>2. StartsRun(s)'
  BY DEF WorkerFits, StartsRun, Grows
<1>3. DispatchesRun(s)'
  <2>1. s.pc \in {"locate", "mark_intent", "mark_run"} => s.d # NoDelivery /\ s.run \in Run
    BY ConstantFacts DEF WorkerFits, HoldsMessage, DispatchesRun, UsedRuns
  <2> QED BY <2>1 DEF WorkerFits, DispatchesRun, Grows
<1>4. SendsEvent(s)'
  <2>1. s.pc \in {"locate_later", "send", "mark_sent"}
        => s.d \in Delivery /\ s.run \in Run /\ s.run # NoRun
    BY ConstantFacts DEF WorkerFits, HoldsMessage, DispatchesRun, UsedRuns
  <2> QED BY <2>1 DEF WorkerFits, SendsEvent, Grows
<1>5. LeavesSettled(s)'
  <2>1. s.batch \subseteq Delivery
    BY DEF WorkerState
  <2> QED BY <2>1, SettledStays DEF WorkerFits, LeavesSettled
<1> QED BY <1>1, <1>2, <1>3, <1>4, <1>5 DEF WorkerFits
-----------------------------------------------------------------------------
(* The workers.                                                             *)

LEMMA IdleFits == WorkerFits(Idle)'
BY DEF Idle, WorkerFits, HoldsMessage, StartsRun, DispatchesRun, SendsEvent, LeavesSettled

LEMMA FinishedFits ==
  ASSUME NEW s \in WorkerState, HoldsMessage(s), LeavesSettled(s)',
         Settled(s.d)' \/ s.d = NoDelivery,
         NEW t, t = [Idle EXCEPT !.pc = "next", !.batch = s.batch, !.todo = s.todo]
  PROVE  WorkerFits(t)'
<1>1. t.pc = "next" /\ t.d = NoDelivery /\ t.batch = s.batch /\ t.todo = s.todo
  BY DEF Idle
<1>2. \A d \in s.batch \ s.todo : Settled(d)'
  <2>1. NoDelivery \notin s.batch
    BY ConstantFacts DEF WorkerState
  <2> QED BY <2>1 DEF LeavesSettled
<1>3. HoldsMessage(t)' /\ StartsRun(t)' /\ DispatchesRun(t)' /\ SendsEvent(t)'
  BY <1>1 DEF HoldsMessage, StartsRun, DispatchesRun, SendsEvent
<1>4. LeavesSettled(t)'
  BY <1>1, <1>2 DEF LeavesSettled
<1> QED BY <1>3, <1>4 DEF WorkerFits

\* A worker that stays with its message keeps what it has done for its batch.
LEMMA MoveFits ==
  ASSUME NEW s \in WorkerState, LeavesSettled(s)', s.d \in Delivery,
         NEW t, t.d = s.d, t.batch = s.batch, t.todo = s.todo, t.pc \notin {"idle", "next"},
         StartsRun(t)', DispatchesRun(t)', SendsEvent(t)'
  PROVE  WorkerFits(t)'
BY DEF WorkerFits, HoldsMessage, LeavesSettled

\* The state a worker is left in by GoTo, GoToRun, Finish and Nack.
LEMMA GoToIs ==
  ASSUME TypeOK, NEW w \in Worker, NEW s \in WorkerState, s = worker[w]
  PROVE  /\ \A pc : GoTo(w, pc) => worker'[w] = [s EXCEPT !.pc = pc]
         /\ \A pc, r : GoToRun(w, pc, r) => worker'[w] = [s EXCEPT !.pc = pc, !.run = r]
         /\ Finish(w) => worker'[w] = [Idle EXCEPT !.pc = "next", !.batch = s.batch,
                                                   !.todo = s.todo]
         /\ Nack(w) => worker'[w] = Idle
<1>1. worker \in [Worker -> WorkerState]
  BY DEF TypeOK
<1> QED BY <1>1 DEF GoTo, GoToRun, Finish, Finished, Nack, WorkerState

LEMMA MovedIs ==
  ASSUME TypeOK, NEW w \in Worker, NEW s \in WorkerState, s = worker[w],
         NEW pc, NEW r, GoToRun(w, pc, r) \/ (GoTo(w, pc) /\ r = s.run)
  PROVE  \E t : /\ t.pc = pc /\ t.run = r /\ t.d = s.d /\ t.batch = s.batch /\ t.todo = s.todo
                /\ worker'[w] = t
<1> DEFINE t == [s EXCEPT !.pc = pc, !.run = r]
<1>1. t.pc = pc /\ t.run = r /\ t.d = s.d /\ t.batch = s.batch /\ t.todo = s.todo
  BY DEF WorkerState
<1>2. CASE GoToRun(w, pc, r)
  <2>1. worker'[w] = t
    BY <1>2, GoToIs
  <2> QED BY <1>1, <2>1
<1>3. CASE GoTo(w, pc) /\ r = s.run
  <2>1. worker'[w] = [s EXCEPT !.pc = pc]
    BY <1>3, GoToIs
  <2>2. [s EXCEPT !.pc = pc] = t
    BY <1>3 DEF WorkerState
  <2> QED BY <1>1, <2>1, <2>2
<1> QED BY <1>2, <1>3

LEMMA SelectedIsUsed ==
  ASSUME RowsAreOpened, NEW r \in Run, runs[r].selection # NoDelivery
  PROVE  r \in UsedRuns
<1>1. NoRow.selection = NoDelivery
  BY DEF NoRow
<1> QED BY <1>1 DEF RowsAreOpened, UsedRuns

LEMMA ConsumerFits ==
  ASSUME IInv, TypeOK', Grows, NEW w \in Worker, Consumer(w)
  PROVE  WorkerFits(worker[w])'
<1>0. TypeOK /\ OneActive /\ NoGap /\ RowsAreOpened /\ BegunHasInstance
  BY DEF IInv
<1>1. PICK s \in WorkerState : s = worker[w]
  BY <1>0 DEF TypeOK
<1>2. WorkerFits(s) /\ WorkerFits(s)'
  BY <1>0, <1>1, FitsStays DEF IInv, WorkersFit
<1>3. HoldsMessage(s) /\ LeavesSettled(s)'
  BY <1>2 DEF WorkerFits
<1>4. /\ \A pc : GoTo(w, pc) => worker'[w] = [s EXCEPT !.pc = pc]
      /\ \A pc, r : GoToRun(w, pc, r) => worker'[w] = [s EXCEPT !.pc = pc, !.run = r]
      /\ Finish(w) => worker'[w] = [Idle EXCEPT !.pc = "next", !.batch = s.batch,
                                                !.todo = s.todo]
      /\ Nack(w) => worker'[w] = Idle
  BY <1>0, <1>1, GoToIs
<1>5. ASSUME Nack(w) PROVE WorkerFits(worker[w])'
  BY <1>4, <1>5, IdleFits
<1>6. ASSUME Finish(w), Settled(s.d)' PROVE WorkerFits(worker[w])'
  BY <1>3, <1>4, <1>6, FinishedFits
<1>11. ASSUME NEW batch \in SUBSET Delivery, Receive(w, batch)
       PROVE  WorkerFits(worker[w])'
  <2>1. worker'[w] = [Idle EXCEPT !.pc = "next", !.batch = batch, !.todo = batch]
    BY <1>0, <1>11 DEF Receive, TypeOK
  <2>2. WorkerFits([Idle EXCEPT !.pc = "next", !.batch = batch, !.todo = batch])'
    BY DEF Idle, WorkerFits, HoldsMessage, StartsRun, DispatchesRun, SendsEvent, LeavesSettled
  <2> QED BY <2>1, <2>2
<1>12. CASE TakeMessage(w)
  <2>1. PICK d \in s.todo :
          worker' = [worker EXCEPT ![w].pc = "lookup", ![w].d = d, ![w].todo = @ \ {d}]
    BY <1>1, <1>12 DEF TakeMessage
  <2>2. PICK t : t = [s EXCEPT !.pc = "lookup", !.d = d, !.todo = @ \ {d}]
    OBVIOUS
  <2>3. s.d = NoDelivery /\ d \in Delivery /\ s.batch \subseteq Delivery
    BY <1>1, <1>3, <1>12 DEF TakeMessage, HoldsMessage, WorkerState
  <2>4. /\ t.pc = "lookup" /\ t.d = d /\ t.batch = s.batch /\ t.todo = s.todo \ {d}
    BY <2>2 DEF WorkerState
  <2>5. LeavesSettled(t)'
    BY <1>3, <2>3, <2>4, ConstantFacts DEF LeavesSettled
  <2>6. WorkerFits(t)'
    BY <2>3, <2>4, <2>5 DEF WorkerFits, HoldsMessage, StartsRun, DispatchesRun, SendsEvent
  <2>7. worker'[w] = t
    BY <1>0, <1>1, <2>1, <2>2 DEF TypeOK, WorkerState
  <2> QED BY <2>6, <2>7
<1>13. CASE AckBatch(w)
  BY <1>0, <1>13, IdleFits DEF AckBatch, TypeOK
<1>14. CASE Fail(w) \/ MarkFailed(w)
  BY <1>5, <1>14 DEF Fail, MarkFailed
<1>15. /\ s.pc \notin {"idle", "next"} => s.d \in Delivery
       /\ s.run \in Run \cup {NoRun}
  BY <1>3 DEF HoldsMessage, WorkerState
\* A step that only needs the message.
<1>16. ASSUME NEW pc \in {"policy", "unmatched", "stale", "refuse", "winner"}, GoTo(w, pc),
              s.d \in Delivery
       PROVE  WorkerFits(worker[w])'
  <2>1. PICK r : r = s.run /\ (GoToRun(w, pc, r) \/ (GoTo(w, pc) /\ r = s.run))
    BY <1>16
  <2>2. PICK t : /\ t.pc = pc /\ t.run = r
                 /\ t.d = s.d /\ t.batch = s.batch /\ t.todo = s.todo
                 /\ worker'[w] = t
    BY <1>0, <1>1, <2>1, MovedIs
  <2>3. StartsRun(t)' /\ DispatchesRun(t)' /\ SendsEvent(t)'
    BY <1>16, <2>2 DEF StartsRun, DispatchesRun, SendsEvent
  <2> QED BY <1>3, <1>16, <2>2, <2>3, MoveFits
\* A step with a run that has a row.
<1>17. ASSUME NEW pc \in {"owner", "intent", "inbox", "mark_failed"}, NEW r \in UsedRuns',
              GoToRun(w, pc, r) \/ (GoTo(w, pc) /\ r = s.run), s.d \in Delivery
       PROVE  WorkerFits(worker[w])'
  <2>2. PICK t : /\ t.pc = pc /\ t.run = r
                 /\ t.d = s.d /\ t.batch = s.batch /\ t.todo = s.todo
                 /\ worker'[w] = t
    BY <1>0, <1>1, <1>17, MovedIs
  <2>3. StartsRun(t)' /\ DispatchesRun(t)' /\ SendsEvent(t)'
    BY <1>17, <2>2 DEF StartsRun, DispatchesRun, SendsEvent
  <2> QED BY <1>3, <1>17, <2>2, <2>3, MoveFits
<1>18. UsedRuns \subseteq UsedRuns' /\ instances \subseteq instances'
  BY DEF Grows
<1>19. ActiveRun # NoRun => ActiveRun \in UsedRuns
  BY <1>0, ActiveRunIs DEF ActiveRuns, ActiveStatus, UsedRuns
<1>20. ASSUME s.pc \in {"owner", "intent", "locate", "mark_intent", "mark_run", "mark_failed",
                        "inbox", "locate_later", "send", "mark_sent"}
       PROVE  /\ s.run \in UsedRuns /\ s.run \in UsedRuns' /\ s.run \in Run
              /\ s.run # NoRun /\ s.d \in Delivery
  BY <1>2, <1>15, <1>18, <1>20, ConstantFacts DEF WorkerFits, DispatchesRun, UsedRuns
<1>21. CASE FindRunByDelivery(w)
  <2> DEFINE r == RunOf(s.d)
  <2>0. s.pc = "lookup" /\ s.d \in Delivery
    BY <1>1, <1>15, <1>21 DEF FindRunByDelivery, At
  <2>1. CASE r = NoRun
    BY <1>1, <1>16, <1>21, <2>0, <2>1 DEF FindRunByDelivery
  <2>2. ASSUME r # NoRun, runs[r].status = "pending_dispatch" PROVE WorkerFits(worker[w])'
    <3>1. r \in UsedRuns'
      BY <1>18, <2>2, RunOfTyped DEF UsedRuns
    <3> QED BY <1>1, <1>17, <1>21, <2>0, <2>2, <3>1 DEF FindRunByDelivery
  <2>3. ASSUME r # NoRun, runs[r].status # "pending_dispatch" PROVE WorkerFits(worker[w])'
    <3>1. r \in Run /\ runs[r].selection = s.d
      BY <2>3, RunOfTyped
    <3>2. runs[r].status \in {"active", "final"}
      <4>1. r \in UsedRuns
        BY <1>0, <2>0, <3>1, SelectedIsUsed, ConstantFacts
      <4> QED BY <1>0, <2>3, <3>1, <4>1 DEF UsedRuns, TypeOK, RunRow
    <3>3. r \in instances
      BY <1>0, <3>1, <3>2 DEF BegunHasInstance
    <3>4. Settled(s.d)'
      BY <1>0, <2>0, <3>1, <3>3, SettledStays DEF Settled, HasInstance
    <3> QED BY <1>1, <1>6, <1>21, <2>3, <3>4 DEF FindRunByDelivery
  <2> QED BY <2>1, <2>2, <2>3
<1>22. CASE FindPolicy(w)
  <2>1. PICK t : t = [s EXCEPT !.pc = "active", !.policy = policy]
    OBVIOUS
  <2>2. /\ t.pc = "active" /\ t.d = s.d /\ t.batch = s.batch /\ t.todo = s.todo
        /\ t.policy \in Policy /\ worker'[w] = t
    BY <1>0, <1>1, <1>22, <2>1 DEF FindPolicy, TypeOK, WorkerState
  <2>3. StartsRun(t)' /\ DispatchesRun(t)' /\ SendsEvent(t)'
    BY <2>2 DEF StartsRun, DispatchesRun, SendsEvent
  <2>4. s.d \in Delivery
    BY <1>1, <1>15, <1>22 DEF FindPolicy, At
  <2> QED BY <1>3, <2>2, <2>3, <2>4, MoveFits
\* A step on the way to a new run.
<1>23. ASSUME NEW pc \in {"access", "allocate", "recheck", "insert"}, NEW r,
              GoToRun(w, pc, r) \/ (GoTo(w, pc) /\ r = s.run), s.d \in StartDelivery,
              pc \in {"recheck", "insert"} => r \in Run /\ \A q \in Run : q < r => q \in UsedRuns
       PROVE  WorkerFits(worker[w])'
  <2>2. PICK t : /\ t.pc = pc /\ t.run = r
                 /\ t.d = s.d /\ t.batch = s.batch /\ t.todo = s.todo
                 /\ worker'[w] = t
    BY <1>0, <1>1, <1>23, MovedIs
  <2>3. StartsRun(t)'
    BY <1>18, <1>23, <2>2 DEF StartsRun
  <2>4. DispatchesRun(t)' /\ SendsEvent(t)'
    BY <1>23, <2>2 DEF DispatchesRun, SendsEvent
  <2> QED BY <1>3, <1>23, <2>2, <2>3, <2>4, MoveFits, ConstantFacts
<1>24. CASE FindActiveRun(w)
  <2>0. s.pc = "active" /\ s.d \in Delivery /\ s.policy \in Policy
    BY <1>1, <1>2, <1>15, <1>24 DEF FindActiveRun, At, WorkerFits, StartsRun
  <2>1. CASE ActiveRun # NoRun
    BY <1>17, <1>18, <1>19, <1>24, <2>0, <2>1 DEF FindActiveRun
  <2>2. CASE ActiveRun = NoRun
    <3>1. \/ \E pc \in {"unmatched", "stale", "refuse"} : GoTo(w, pc)
          \/ GoTo(w, "access") /\ s.d \in StartDelivery
      BY <1>1, <1>24, <2>0, <2>2 DEF FindActiveRun, Policy
    <3> QED BY <1>16, <1>23, <2>0, <3>1
  <2> QED BY <2>1, <2>2
<1>25. CASE Refuse(w)
  <2>0. s.d \in Delivery
    BY <1>1, <1>15, <1>25 DEF Refuse, At
  <2>1. Settled(s.d)'
    BY <1>1, <1>25 DEF Refuse, Settled
  <2> QED BY <1>6, <1>16, <1>25, <2>0, <2>1 DEF Refuse
<1>26. CASE InsertUnmatched(w)
  <2>0. s.d \in Delivery
    BY <1>1, <1>15, <1>26 DEF InsertUnmatched, At
  <2>1. inbox'[s.d] # NoInbox
    BY <1>0, <1>1, <1>26, <2>0 DEF InsertUnmatched, TypeOK, InboxRow, NoInbox
  <2> QED BY <1>6, <1>26, <2>1 DEF InsertUnmatched, Settled
<1>27. CASE FindIntent(w)
  BY <1>1, <1>17, <1>20, <1>27 DEF FindIntent, At
<1>28. ASSUME CheckAccess(w) \/ Allocate(w) \/ RecheckPolicy(w)
       PROVE  WorkerFits(worker[w])'
  <2>0. s.d \in StartDelivery /\ s.d \in Delivery
    BY <1>1, <1>2, <1>28, ConstantFacts
       DEF CheckAccess, Allocate, RecheckPolicy, At, WorkerFits, StartsRun
  <2>1. CASE CheckAccess(w)
    BY <1>16, <1>23, <2>0, <2>1 DEF CheckAccess
  <2>2. CASE Allocate(w)
    <3>1. CASE ActiveRun # NoRun
      BY <1>17, <1>18, <1>19, <2>0, <2>2, <3>1 DEF Allocate
    <3>2. CASE ActiveRun = NoRun
      <4>1. NextSequence \in Run /\ GoToRun(w, "recheck", NextSequence)
        BY <1>0, <2>2, <3>2, NextSequenceIs, ConstantFacts DEF Allocate, Run
      <4>2. \A q \in Run : q < NextSequence => q \in UsedRuns
        BY <1>0, NextSequenceIs
      <4>3. PICK n \in Run : n = NextSequence
        BY <4>1
      <4> QED BY <1>23, <2>0, <4>1, <4>2, <4>3
    <3> QED BY <3>1, <3>2
  <2>3. CASE RecheckPolicy(w)
    <3>1. s.run \in Run /\ \A q \in Run : q < s.run => q \in UsedRuns
      BY <1>1, <1>2, <2>3 DEF RecheckPolicy, At, WorkerFits, StartsRun
    <3> QED BY <1>16, <1>23, <2>0, <2>3, <3>1 DEF RecheckPolicy
  <2> QED BY <1>28, <2>1, <2>2, <2>3
<1>29. CASE InsertRun(w)
  <2>0. s.pc = "insert" /\ s.d \in Delivery /\ s.run \in Run
    BY <1>1, <1>2, <1>15, <1>29 DEF InsertRun, At, WorkerFits, StartsRun
  <2>1. ASSUME RowSelected(s.d), IndexesAllow(s.run) PROVE WorkerFits(worker[w])'
    <3>1. s.run \in UsedRuns'
      BY <1>0, <1>1, <1>29, <2>0, <2>1 DEF InsertRun, UsedRuns, TypeOK
    <3> QED BY <1>1, <1>17, <1>29, <2>0, <2>1, <3>1 DEF InsertRun
  <2>2. ASSUME ~RowSelected(s.d), RunOf(s.d) # NoRun PROVE WorkerFits(worker[w])'
    <3>1. RunOf(s.d) \in UsedRuns
      BY <1>0, <2>0, <2>2, RunOfTyped, SelectedIsUsed, ConstantFacts
    <3> QED BY <1>1, <1>17, <1>18, <1>29, <2>0, <2>2, <3>1 DEF InsertRun
  <2>3. CASE \E pc \in {"winner", "refuse"} : GoTo(w, pc)
    BY <1>16, <2>0, <2>3
  <2> QED BY <1>1, <1>29, <2>1, <2>2, <2>3 DEF InsertRun
<1>30. CASE FindWinner(w)
  <2>0. s.d \in Delivery
    BY <1>1, <1>15, <1>30 DEF FindWinner, At
  <2> QED BY <1>5, <1>17, <1>18, <1>19, <1>30, <2>0 DEF FindWinner
\* A step under the run's dispatch intent or towards its instance.
<1>31. ASSUME NEW pc \in {"locate", "mark_intent", "mark_run", "locate_later", "send", "mark_sent"},
              GoTo(w, pc), s.d \in Delivery, s.run \in UsedRuns',
              pc \in {"locate", "mark_intent", "mark_run"} => intent'[s.run].source = s.d,
              pc \in {"mark_intent", "mark_run"} => s.run \in instances',
              pc \in {"locate_later", "send", "mark_sent"} => inbox'[s.d].run = s.run,
              pc = "mark_sent" => s.run \in sentTo'[s.d]
       PROVE  WorkerFits(worker[w])'
  <2>1. PICK r : r = s.run /\ (GoToRun(w, pc, r) \/ (GoTo(w, pc) /\ r = s.run))
    BY <1>31
  <2>2. PICK t : /\ t.pc = pc /\ t.run = r
                 /\ t.d = s.d /\ t.batch = s.batch /\ t.todo = s.todo
                 /\ worker'[w] = t
    BY <1>0, <1>1, <2>1, MovedIs, SMTT(30)
  <2>3. StartsRun(t)' /\ DispatchesRun(t)' /\ SendsEvent(t)'
    BY <1>31, <2>1, <2>2 DEF StartsRun, DispatchesRun, SendsEvent
  <2> QED BY <1>3, <1>31, <2>2, <2>3, MoveFits
<1>32. CASE CreateIntent(w)
  BY <1>1, <1>5, <1>20, <1>31, <1>32 DEF CreateIntent, At
\* A run that has an instance settles the delivery of its intent.
<1>33. ASSUME s.run \in instances', intent'[s.run].source = s.d PROVE Settled(s.d)'
  BY <1>33 DEF Settled, HasInstance
<1>34. CASE Locate(w)
  <2>0. s.pc = "locate"
    BY <1>1, <1>34 DEF Locate, At
  <2>1. intent'[s.run].source = s.d
    BY <1>2, <1>34, <2>0 DEF Locate, WorkerFits, DispatchesRun, database
  <2>2. CASE Located(w)
    <3>1. s.run \in instances'
      BY <1>1, <2>2 DEF Located
    <3> QED BY <1>5, <1>6, <1>17, <1>20, <1>31, <1>33, <1>34, <2>0, <2>1, <3>1 DEF Locate
  <2>3. CASE ~Located(w)
    BY <1>5, <1>17, <1>20, <1>34, <2>0, <2>3 DEF Locate
  <2> QED BY <2>2, <2>3
<1>35. CASE MarkIntent(w)
  <2>0. s.pc = "mark_intent" /\ s.run \in instances' /\ intent[s.run].source = s.d
    BY <1>1, <1>2, <1>18, <1>35 DEF MarkIntent, At, WorkerFits, DispatchesRun
  <2>1. intent'[s.run].source = s.d
    BY <1>20, <2>0, ConstantFacts DEF Grows
  <2> QED BY <1>17, <1>20, <1>31, <1>35, <2>0, <2>1 DEF MarkIntent
<1>36. CASE MarkRun(w)
  <2>0. s.pc = "mark_run" /\ s.run \in instances' /\ intent'[s.run].source = s.d
    BY <1>1, <1>2, <1>18, <1>36 DEF MarkRun, At, WorkerFits, DispatchesRun
  <2> QED BY <1>6, <1>33, <1>36, <2>0 DEF MarkRun
<1>37. CASE InsertInbox(w)
  <2>0. s.pc = "inbox"
    BY <1>1, <1>37 DEF InsertInbox, At
  <2>1. CASE inbox'[s.d].run # s.run
    BY <1>1, <1>5, <1>37, <2>1 DEF InsertInbox
  <2>2. CASE inbox'[s.d].run = s.run
    <3>1. Settled(s.d)'
      BY <1>20, <2>0, <2>2 DEF Settled, NoInbox
    <3> QED BY <1>1, <1>6, <1>20, <1>31, <1>37, <2>0, <2>2, <3>1 DEF InsertInbox
  <2> QED BY <2>1, <2>2
<1>38. CASE LocateLater(w)
  <2>0. s.pc = "locate_later" /\ inbox'[s.d].run = s.run
    BY <1>1, <1>2, <1>38 DEF LocateLater, At, WorkerFits, SendsEvent, database
  <2> QED BY <1>5, <1>20, <1>31, <1>38, <2>0 DEF LocateLater
<1>39. CASE SendEvent(w)
  <2>0. s.pc = "send" /\ inbox'[s.d].run = s.run
    BY <1>1, <1>2, <1>39 DEF SendEvent, At, WorkerFits, SendsEvent, database
  <2>1. sentTo' = [sentTo EXCEPT ![s.d] = @ \cup {s.run}] => s.run \in sentTo'[s.d]
    BY <1>0, <1>20, <2>0 DEF TypeOK
  <2> QED BY <1>1, <1>5, <1>20, <1>31, <1>39, <2>0, <2>1 DEF SendEvent
<1>40. CASE MarkSent(w)
  <2>0. s.pc = "mark_sent" /\ inbox[s.d].run = s.run
    BY <1>1, <1>2, <1>40 DEF MarkSent, At, WorkerFits, SendsEvent
  <2>1. inbox[s.d] # NoInbox
    BY <1>20, <2>0 DEF NoInbox
  <2>2. Settled(s.d)'
    BY <1>0, <1>20, <2>0, <2>1, SettledStays DEF Settled
  <2> QED BY <1>6, <1>40, <2>2 DEF MarkSent
<1> QED
  BY <1>11, <1>12, <1>13, <1>14, <1>21, <1>22, <1>24, <1>25, <1>26, <1>27, <1>28, <1>29,
     <1>30, <1>32, <1>34, <1>35, <1>36, <1>37, <1>38, <1>39, <1>40 DEF Consumer

LEMMA WorkersStayFit ==
  ASSUME IInv, TypeOK', Grows, Next PROVE WorkersFit'
<1>1. CASE Environment
  <2>1. worker' = worker
    BY <1>1 DEF Environment, EditRoute, Enqueue, Consume, BeginRun, EndRun
  <2> QED BY <2>1, FitsStays DEF IInv, WorkersFit, TypeOK
<1>2. ASSUME NEW w \in Worker, Consumer(w) PROVE WorkersFit'
  <2>1. \A v \in Worker \ {w} : worker'[v] = worker[v]
    BY <1>2 DEF IInv, TypeOK, Consumer, Receive, TakeMessage, AckBatch, Fail,
       FindRunByDelivery, FindPolicy, FindActiveRun, FindIntent, Refuse, InsertUnmatched,
       CheckAccess, Allocate, RecheckPolicy, InsertRun, FindWinner, CreateIntent, Locate,
       MarkIntent, MarkRun, MarkFailed, InsertInbox, LocateLater, SendEvent, MarkSent,
       GoTo, GoToRun, Finish, Finished, Nack
  <2>2. WorkerFits(worker[w])'
    BY <1>2, ConsumerFits
  <2>3. ASSUME NEW v \in Worker \ {w} PROVE WorkerFits(worker[v])'
    BY <2>1, <2>3, FitsStays DEF IInv, WorkersFit, TypeOK
  <2> QED BY <2>2, <2>3 DEF WorkersFit
<1> QED BY <1>1, <1>2 DEF Next
-----------------------------------------------------------------------------
(* The rows of the runs.                                                    *)

\* What a step does to the runs: nothing, a new row, or the next status.
Opens(r) == /\ runs[r] = NoRow /\ ActiveRuns = {}
            /\ \A q \in Run : q < r => q \in UsedRuns
            /\ \E d \in StartDelivery :
                 /\ RowSelected(d)
                 /\ runs' = [runs EXCEPT ![r] = [status |-> "pending_dispatch",
                                                 selection |-> d, revision |-> proof[d]]]
            /\ UNCHANGED instances
Advances(r) == /\ r \in instances /\ runs[r].status \in ActiveStatus
               /\ \E s \in {"active", "final"} : runs' = [runs EXCEPT ![r].status = s]
               /\ UNCHANGED instances

LEMMA RunStep ==
  ASSUME IInv, Next
  PROVE  runs' = runs \/ \E r \in Run : Opens(r) \/ Advances(r)
<1>1. ASSUME NEW r \in Run, BeginRun(r) \/ EndRun(r) PROVE Advances(r)
  BY <1>1 DEF BeginRun, EndRun, Advances, ActiveStatus, provider
<1>2. ASSUME NEW w \in Worker, MarkRun(w)
      PROVE  runs' = runs \/ (Advances(worker[w].run) /\ worker[w].run \in Run)
  <2>1. worker[w].run \in instances /\ worker[w].run \in Run
    BY <1>2 DEF IInv, WorkersFit, WorkerFits, DispatchesRun, MarkRun, At, UsedRuns
  <2> QED BY <1>2, <2>1 DEF MarkRun, Advances, ActiveStatus, provider
<1>3. ASSUME NEW w \in Worker, InsertRun(w)
      PROVE  runs' = runs \/ (Opens(worker[w].run) /\ worker[w].run \in Run)
  <2> DEFINE d == worker[w].d
             r == worker[w].run
  <2>1. d \in StartDelivery /\ r \in Run /\ \A q \in Run : q < r => q \in UsedRuns
    BY <1>3 DEF IInv, WorkersFit, WorkerFits, StartsRun, InsertRun, At
  <2>2. CASE RowSelected(d) /\ IndexesAllow(r)
    <3>1. runs' = [runs EXCEPT ![r] = [status |-> "pending_dispatch",
                                       selection |-> d, revision |-> proof[d]]]
      BY <1>3, <2>2 DEF InsertRun
    <3>2. runs[r] = NoRow /\ ActiveRuns = {} /\ UNCHANGED instances
      BY <1>3, <2>2 DEF InsertRun, IndexesAllow, SequenceIsFree, provider
    <3> QED BY <2>1, <2>2, <3>1, <3>2 DEF Opens
  <2>3. CASE ~(RowSelected(d) /\ IndexesAllow(r))
    BY <1>3, <2>3 DEF InsertRun
  <2> QED BY <2>1, <2>2, <2>3
<1> QED
  BY <1>1, <1>2, <1>3
     DEF Next, Environment, EditRoute, Enqueue, Consume, Consumer, Receive, TakeMessage,
         AckBatch, Fail, FindRunByDelivery, FindPolicy, FindActiveRun, FindIntent, Refuse,
         InsertUnmatched, CheckAccess, Allocate, RecheckPolicy, FindWinner, CreateIntent,
         Locate, MarkIntent, MarkFailed, InsertInbox, LocateLater, SendEvent, MarkSent, database

\* A new row is the only one that changes.
LEMMA OpensOne ==
  ASSUME IInv, NEW r \in Run, Opens(r)
  PROVE  \E d \in StartDelivery :
           /\ RowSelected(d)
           /\ runs'[r] = [status |-> "pending_dispatch", selection |-> d, revision |-> proof[d]]
           /\ \A q \in Run \ {r} : runs'[q] = runs[q]
           /\ UsedRuns' = UsedRuns \cup {r} /\ ActiveRuns' = {r} /\ r \notin UsedRuns
<1>1. PICK d \in StartDelivery :
         /\ RowSelected(d)
         /\ runs' = [runs EXCEPT ![r] = [status |-> "pending_dispatch",
                                         selection |-> d, revision |-> proof[d]]]
  BY DEF Opens
<1>2. runs \in [Run -> RunRow]
  BY DEF IInv, TypeOK
<1>3. /\ runs'[r] = [status |-> "pending_dispatch", selection |-> d, revision |-> proof[d]]
      /\ \A q \in Run \ {r} : runs'[q] = runs[q]
  BY <1>1, <1>2
<1>4. runs[r] = NoRow /\ ActiveRuns = {}
  BY DEF Opens
<1>5. UsedRuns' = UsedRuns \cup {r} /\ r \notin UsedRuns
  BY <1>3, <1>4 DEF UsedRuns, NoRow
<1>6. ActiveRuns' = {r}
  BY <1>3, <1>4 DEF ActiveRuns, ActiveStatus
<1> QED BY <1>1, <1>3, <1>5, <1>6

LEMMA AdvancesOne ==
  ASSUME IInv, NEW r \in Run, Advances(r)
  PROVE  /\ runs'[r].status \in {"active", "final"}
         /\ runs'[r].selection = runs[r].selection /\ runs[r].status # "absent"
         /\ \A q \in Run \ {r} : runs'[q] = runs[q]
         /\ UsedRuns' = UsedRuns /\ ActiveRuns' \subseteq ActiveRuns
<1>1. PICK s \in {"active", "final"} : runs' = [runs EXCEPT ![r].status = s]
  BY DEF Advances
<1>2. runs \in [Run -> RunRow]
  BY DEF IInv, TypeOK
<1>3. /\ runs'[r].status = s /\ runs'[r].selection = runs[r].selection
      /\ \A q \in Run \ {r} : runs'[q] = runs[q]
  BY <1>1, <1>2 DEF RunRow
<1>4. runs[r].status \in ActiveStatus
  BY DEF Advances
<1>5. UsedRuns' = UsedRuns
  BY <1>3, <1>4 DEF UsedRuns, ActiveStatus
<1>6. ActiveRuns' \subseteq ActiveRuns
  BY <1>3, <1>4 DEF ActiveRuns
<1> QED BY <1>3, <1>4, <1>5, <1>6 DEF ActiveStatus

LEMMA RowsStay ==
  ASSUME IInv, TypeOK', Grows, Next
  PROVE  (RowsAreOpened /\ NoGap /\ OneActive /\ BegunHasInstance)'
<1>0. RowsAreOpened /\ NoGap /\ OneActive /\ BegunHasInstance
  BY DEF IInv
<1>1. CASE runs' = runs
  BY <1>0, <1>1 DEF RowsAreOpened, NoGap, OneActive, BegunHasInstance, UsedRuns, ActiveRuns, Grows
<1>2. ASSUME NEW r \in Run, Opens(r)
      PROVE  (RowsAreOpened /\ NoGap /\ OneActive /\ BegunHasInstance)'
  <2>1. PICK d \in StartDelivery :
           /\ runs'[r] = [status |-> "pending_dispatch", selection |-> d, revision |-> proof[d]]
           /\ \A q \in Run \ {r} : runs'[q] = runs[q]
           /\ UsedRuns' = UsedRuns \cup {r} /\ ActiveRuns' = {r} /\ r \notin UsedRuns
    BY <1>2, OpensOne
  <2>2. RowsAreOpened'
    BY <1>0, <2>1, ConstantFacts DEF RowsAreOpened
  <2>3. NoGap'
    <3>1. PICK k \in 0 .. MaxRun : UsedRuns = 1 .. k
      BY <1>0 DEF NoGap
    <3>2. r = k + 1
      <4>1. r \in Nat \ {0} /\ k \in Nat
        BY <3>1, ConstantFacts
      <4>2. r > k
        BY <2>1, <3>1, <4>1
      <4>3. k + 1 \in Run
        BY <4>1, <4>2, ConstantFacts DEF Run
      <4>4. k + 1 < r => k + 1 \in UsedRuns
        BY <1>2, <4>3 DEF Opens
      <4> QED BY <3>1, <4>1, <4>2, <4>4
    <3>3. k + 1 \in 0 .. MaxRun /\ UsedRuns' = 1 .. k + 1
      BY <2>1, <3>1, <3>2, ConstantFacts DEF Run
    <3> QED BY <3>3 DEF NoGap
  <2>4. OneActive' /\ BegunHasInstance'
    BY <1>0, <1>2, <2>1 DEF OneActive, BegunHasInstance, Opens
  <2> QED BY <2>2, <2>3, <2>4
<1>3. ASSUME NEW r \in Run, Advances(r)
      PROVE  (RowsAreOpened /\ NoGap /\ OneActive /\ BegunHasInstance)'
  <2>1. /\ runs'[r].status \in {"active", "final"}
        /\ runs'[r].selection = runs[r].selection /\ runs[r].status # "absent"
        /\ \A q \in Run \ {r} : runs'[q] = runs[q]
        /\ UsedRuns' = UsedRuns /\ ActiveRuns' \subseteq ActiveRuns
    BY <1>3, AdvancesOne
  <2>2. RowsAreOpened' /\ NoGap' /\ OneActive'
    BY <1>0, <2>1 DEF RowsAreOpened, NoGap, OneActive
  <2>3. BegunHasInstance'
    BY <1>0, <1>3, <2>1 DEF BegunHasInstance, Advances
  <2> QED BY <2>2, <2>3
<1> QED BY <1>1, <1>2, <1>3, RunStep

\* What a step does to the instances: nothing, or it adds that of a run with a row.
LEMMA InstanceStep ==
  ASSUME IInv, Next
  PROVE  instances' = instances
         \/ \E r \in UsedRuns : instances' = instances \cup {r} /\ runs' = runs
<1>1. ASSUME NEW w \in Worker, Locate(w) \/ LocateLater(w)
      PROVE  /\ worker[w].run \in UsedRuns /\ runs' = runs
             /\ instances' \in {instances, instances \cup {worker[w].run}}
  BY <1>1 DEF IInv, WorkersFit, WorkerFits, DispatchesRun, Locate, LocateLater, At, LocateFails,
     Located, database
<1> QED
  BY <1>1
     DEF Next, Environment, EditRoute, Enqueue, Consume, BeginRun, EndRun, Consumer, Receive,
         TakeMessage, AckBatch, Fail, FindRunByDelivery, FindPolicy, FindActiveRun, FindIntent,
         Refuse, InsertUnmatched, CheckAccess, Allocate, RecheckPolicy, InsertRun, FindWinner,
         CreateIntent, MarkIntent, MarkRun, MarkFailed, InsertInbox, SendEvent, MarkSent, provider

LEMMA InstancesStay ==
  ASSUME IInv, Grows, Next PROVE InstanceHasRow'
BY InstanceStep DEF IInv, InstanceHasRow, Grows
-----------------------------------------------------------------------------
(* Acknowledged deliveries and routed events.                               *)

LEMMA AckedStays ==
  ASSUME IInv, TypeOK', Grows, Next PROVE AckedStartHasInstance'
<1>0. \A d \in acked : d \in Delivery /\ Settled(d)
  BY DEF IInv, TypeOK, AckedStartHasInstance, Settled
<1>1. \A d \in acked : Settled(d)'
  BY <1>0, SettledStays DEF IInv
<1>2. ASSUME NEW w \in Worker, AckBatch(w) PROVE \A d \in acked' : Settled(d)'
  <2>1. /\ worker[w] \in WorkerState /\ HoldsMessage(worker[w]) /\ LeavesSettled(worker[w])
        /\ worker[w].pc = "next" /\ worker[w].todo = {} /\ acked' = acked \cup worker[w].batch
    BY <1>2 DEF IInv, WorkersFit, WorkerFits, TypeOK, AckBatch
  <2>2. \A d \in worker[w].batch : d \in Delivery /\ Settled(d)
    BY <2>1, ConstantFacts DEF HoldsMessage, LeavesSettled, WorkerState
  <2> QED BY <1>1, <2>1, <2>2, SettledStays DEF IInv
<1>3. acked' = acked \/ \E w \in Worker : AckBatch(w)
  BY DEF Next, Environment, EditRoute, Enqueue, Consume, BeginRun, EndRun, Consumer, Receive,
     TakeMessage, Fail, FindRunByDelivery, FindPolicy, FindActiveRun, FindIntent,
     Refuse, InsertUnmatched, CheckAccess, Allocate, RecheckPolicy, InsertRun, FindWinner,
     CreateIntent, Locate, MarkIntent, MarkRun, MarkFailed, InsertInbox, LocateLater, SendEvent,
     MarkSent, Nack, messages
<1> QED BY <1>1, <1>2, <1>3 DEF AckedStartHasInstance, Settled

LEMMA EventsStay ==
  ASSUME IInv, TypeOK', Grows, Next PROVE EventReachesItsRun'
<1>0. TypeOK /\ EventReachesItsRun
  BY DEF IInv
<1>1. ASSUME sentTo' = sentTo, NEW d \in Delivery, inbox' = inbox \/ inbox[d] = NoInbox \/
             inbox'[d].run = inbox[d].run
      PROVE  sentTo'[d] \subseteq {inbox'[d].run}
  <2>1. inbox[d] = NoInbox => sentTo[d] = {}
    BY <1>0, ConstantFacts DEF EventReachesItsRun, TypeOK, NoInbox
  <2> QED BY <1>0, <1>1, <2>1 DEF EventReachesItsRun
<1>2. CASE UNCHANGED <<inbox, sentTo>>
  BY <1>0, <1>2 DEF EventReachesItsRun
<1>3. ASSUME NEW d \in Delivery, Consume(d) PROVE EventReachesItsRun'
  <2>1. /\ \A e \in Delivery \ {d} : inbox'[e] = inbox[e]
        /\ inbox'[d].run = inbox[d].run /\ inbox[d].run \in sentTo[d] /\ sentTo' = sentTo
    BY <1>0, <1>3 DEF Consume, TypeOK, InboxRow, provider
  <2> QED BY <1>0, <2>1 DEF EventReachesItsRun
<1>4. ASSUME NEW w \in Worker, InsertUnmatched(w) \/ InsertInbox(w) PROVE EventReachesItsRun'
  <2>1. /\ sentTo' = sentTo
        /\ \A e \in Delivery : inbox'[e] = inbox[e] \/
             (inbox[e] = NoInbox /\ inbox'[e].state \in {"unmatched", "pending"})
    BY <1>0, <1>4 DEF InsertUnmatched, InsertInbox, InboxAfter, TypeOK, InboxRow, provider
  <2>2. \A e \in Delivery : inbox[e] = NoInbox => sentTo[e] = {}
    BY <1>0, ConstantFacts DEF EventReachesItsRun, TypeOK, NoInbox
  <2> QED BY <1>0, <2>1, <2>2 DEF EventReachesItsRun
<1>5. ASSUME NEW w \in Worker, MarkSent(w) PROVE EventReachesItsRun'
  <2> DEFINE d == worker[w].d
  <2>1. d \in Delivery /\ inbox[d].run = worker[w].run /\ worker[w].run \in sentTo[d]
    BY <1>5 DEF IInv, WorkersFit, WorkerFits, HoldsMessage, SendsEvent, MarkSent, At
  <2>2. /\ \A e \in Delivery \ {d} : inbox'[e] = inbox[e]
        /\ inbox'[d].run = inbox[d].run /\ sentTo' = sentTo
    BY <1>0, <1>5, <2>1 DEF MarkSent, TypeOK, InboxRow, provider
  <2> QED BY <1>0, <2>1, <2>2 DEF EventReachesItsRun
<1>6. ASSUME NEW w \in Worker, SendEvent(w) PROVE EventReachesItsRun'
  <2> DEFINE d == worker[w].d
  <2>1. d \in Delivery /\ inbox[d].run = worker[w].run
    BY <1>6 DEF IInv, WorkersFit, WorkerFits, HoldsMessage, SendsEvent, SendEvent, At
  <2>2. /\ \A e \in Delivery \ {d} : sentTo'[e] = sentTo[e]
        /\ sentTo'[d] \in {sentTo[d], sentTo[d] \cup {worker[w].run}} /\ inbox' = inbox
    BY <1>0, <1>6, <2>1 DEF SendEvent, TypeOK, database
  <2> QED BY <1>0, <2>1, <2>2 DEF EventReachesItsRun
<1> QED
  BY <1>2, <1>3, <1>4, <1>5, <1>6
     DEF Next, Environment, EditRoute, Enqueue, BeginRun, EndRun, Consumer, Receive,
         TakeMessage, AckBatch, Fail, FindRunByDelivery, FindPolicy, FindActiveRun, FindIntent,
         Refuse, CheckAccess, Allocate, RecheckPolicy, InsertRun, FindWinner,
         CreateIntent, Locate, MarkIntent, MarkRun, MarkFailed, LocateLater, database, provider
-----------------------------------------------------------------------------
(* The theorems.                                                            *)

LEMMA InitIInv == Init => IInv
<1> SUFFICES ASSUME Init PROVE IInv
  OBVIOUS
<1>1. TypeOK
  <2>1. policy \in Policy /\ attempts \in [Delivery -> 0 .. MaxAttempts]
    BY ConstantFacts DEF Init, Policy
  <2>2. NoRow \in RunRow /\ NoIntent \in Intent /\ NoInbox \in InboxRow
    BY DEF NoRow, RunRow, NoIntent, Intent, NoInbox, InboxRow
  <2> QED BY <2>1, <2>2, IdleTyped DEF Init, TypeOK
<1>2. UsedRuns = {} /\ ActiveRuns = {} /\ RowsAreOpened /\ BegunHasInstance
  BY DEF Init, UsedRuns, ActiveRuns, ActiveStatus, NoRow, RowsAreOpened, BegunHasInstance
<1>3. NoGap /\ OneActive /\ InstanceHasRow
  <2>1. 0 \in 0 .. MaxRun /\ 1 .. 0 = {}
    BY ConstantFacts
  <2> QED BY <1>2, <2>1 DEF Init, NoGap, OneActive, InstanceHasRow
<1>4. WorkersFit
  BY DEF Init, WorkersFit, Idle, WorkerFits, HoldsMessage, StartsRun, DispatchesRun, SendsEvent,
     LeavesSettled
<1>5. AckedStartHasInstance /\ EventReachesItsRun
  BY DEF Init, AckedStartHasInstance, EventReachesItsRun, NoInbox
<1> QED BY <1>1, <1>2, <1>3, <1>4, <1>5 DEF IInv

LEMMA NextIInv == IInv /\ [Next]_vars => IInv'
<1>1. ASSUME IInv, Next PROVE IInv'
  <2>1. TypeOK'
    BY <1>1, ConsumerTyped, EnvironmentTyped DEF Next
  <2>2. Grows
    BY <1>1, <2>1, NextGrows
  <2> QED BY <1>1, <2>1, <2>2, WorkersStayFit, RowsStay, InstancesStay, AckedStays, EventsStay
             DEF IInv
<1>2. ASSUME IInv, UNCHANGED vars PROVE IInv'
  BY <1>2 DEF vars, IInv, TypeOK, RowsAreOpened, NoGap, OneActive, BegunHasInstance,
     InstanceHasRow, WorkersFit, WorkerFits, HoldsMessage, StartsRun, DispatchesRun, SendsEvent,
     LeavesSettled, Settled, HasInstance, AckedStartHasInstance, EventReachesItsRun, UsedRuns,
     ActiveRuns
<1> QED BY <1>1, <1>2

\* The invariant of dispatch holds in every state.
THEOREM DispatchInvariance == Spec => []IInv
BY InitIInv, NextIInv, PTL DEF Spec

\* The types of queue-consumer-core.ts's rows, messages and workers.
THEOREM DispatchTypeCorrect == Spec => []TypeOK
<1>1. IInv => TypeOK
  BY DEF IInv
<1> QED BY <1>1, DispatchInvariance, PTL

\* A delivery that the Queue was told is done was refused, is in the inbox, or has
\* a run with an instance, however workers, failures and redeliveries interleave.
THEOREM DispatchAcked == Spec => []AckedStartHasInstance
<1>1. IInv => AckedStartHasInstance
  BY DEF IInv
<1> QED BY <1>1, DispatchInvariance, PTL

\* An event is sent to the run of its inbox row and to no other.
THEOREM DispatchEvents == Spec => []EventReachesItsRun
<1>1. IInv => EventReachesItsRun
  BY DEF IInv
<1> QED BY <1>1, DispatchInvariance, PTL

\* The step formula of RunsOpenOnCurrentRoute.
OpenStep ==
  \A r \in Run : (runs[r] = NoRow /\ runs'[r] # NoRow) =>
    /\ ActiveRuns = {}
    /\ policy.enabled /\ policy.installed
    /\ runs'[r].revision = policy.revision
    /\ runs'[r].selection \in StartDelivery
    /\ proof[runs'[r].selection] = policy.revision

LEMMA NextOpenStep == IInv /\ [Next]_vars => [OpenStep]_vars
<1> SUFFICES ASSUME IInv, Next PROVE OpenStep
  BY DEF vars
<1>1. ASSUME NEW r \in Run, Opens(r) PROVE OpenStep
  <2>1. PICK d \in StartDelivery :
           /\ RowSelected(d)
           /\ runs'[r] = [status |-> "pending_dispatch", selection |-> d, revision |-> proof[d]]
           /\ \A q \in Run \ {r} : runs'[q] = runs[q]
    BY <1>1, OpensOne
  <2> QED BY <1>1, <2>1 DEF OpenStep, Opens, RowSelected, RouteUnchanged
<1>2. ASSUME NEW r \in Run, Advances(r) PROVE OpenStep
  <2>1. \A q \in Run : runs'[q] = runs[q] \/ runs[q] # NoRow
    BY <1>2, AdvancesOne DEF NoRow
  <2> QED BY <2>1 DEF OpenStep
<1>3. CASE runs' = runs
  BY <1>3 DEF OpenStep
<1> QED BY <1>1, <1>2, <1>3, RunStep

\* No run opens beside an active one, or on a route that was edited since its
\* delivery was stamped, whichever edits land between the checks and the insert.
THEOREM DispatchOpens == Spec => RunsOpenOnCurrentRoute
<1>1. RunsOpenOnCurrentRoute <=> [][OpenStep]_vars
  BY DEF RunsOpenOnCurrentRoute, OpenStep
<1> QED BY <1>1, NextOpenStep, DispatchInvariance, PTL DEF Spec
-----------------------------------------------------------------------------
(* Refinement of IssueRuns.                                                 *)

LEMMA OpenedAreUsed == IInv => Issue!Opened = UsedRuns
<1> SUFFICES ASSUME IInv PROVE Issue!Opened = UsedRuns
  OBVIOUS
<1>1. Issue!Opened = {r \in Run : runs[r].selection # NoDelivery}
  BY DEF Issue!Opened
<1>2. \A r \in Run : runs[r].selection # NoDelivery <=> runs[r].status # "absent"
  BY DEF IInv, RowsAreOpened, NoRow
<1> QED BY <1>1, <1>2 DEF UsedRuns

LEMMA NextIssue == IInv /\ IInv' /\ [Next]_vars => [Issue!Next]_Issue!vars
<1> DEFINE opener == [r \in Run |-> runs[r].selection]
           ended == {r \in Run : runs[r].status = "final"}
<1> SUFFICES ASSUME IInv, IInv', Next PROVE [Issue!Next]_Issue!vars
  BY DEF vars, Issue!vars
<1>0. runs \in [Run -> RunRow] /\ instances \subseteq UsedRuns /\ UsedRuns \subseteq Run
  BY DEF IInv, TypeOK, InstanceHasRow, UsedRuns
<1>1. ASSUME NEW r \in Run, Opens(r) PROVE Issue!Next
  <2>1. PICK d \in StartDelivery :
           /\ RowSelected(d)
           /\ runs'[r] = [status |-> "pending_dispatch", selection |-> d, revision |-> proof[d]]
           /\ \A q \in Run \ {r} : runs'[q] = runs[q]
           /\ UsedRuns' = UsedRuns \cup {r} /\ ActiveRuns' = {r} /\ r \notin UsedRuns
    BY <1>1, OpensOne
  <2>2. d \in Delivery
    BY ConstantFacts
  <2>3. UsedRuns = {q \in Run : q < r}
    <3>1. PICK k \in 0 .. MaxRun : UsedRuns = 1 .. k
      BY DEF IInv, NoGap
    <3>2. \A q \in Run : q < r => q \in UsedRuns
      BY <1>1 DEF Opens
    <3>3. r \in Nat \ {0} /\ k \in Nat
      BY <3>1, ConstantFacts
    <3>4. r > k
      BY <2>1, <3>1, <3>3
    <3>5. \A q \in UsedRuns : q \in Run /\ q < r
      BY <1>0, <3>1, <3>3, <3>4
    <3> QED BY <3>2, <3>5
  <2>4. UsedRuns \subseteq ended
    BY <1>0, <1>1 DEF Opens, UsedRuns, ActiveRuns, ActiveStatus, RunRow
  <2>5. \A q \in UsedRuns : opener[q] # d
    BY <1>0, <2>1 DEF RowSelected, NotSelected, RunsOf
  <2>6. opener' = [opener EXCEPT ![r] = d]
    <3>1. runs'[r].selection = d /\ \A q \in Run \ {r} : runs'[q].selection = runs[q].selection
      BY <2>1
    <3> QED BY <3>1
  <2>7. ended' = ended /\ instances' = instances
    BY <1>1, <2>1 DEF Opens, UsedRuns
  <2>8. Issue!Open(r, d)
    BY <2>3, <2>4, <2>5, <2>6, <2>7, OpenedAreUsed DEF Issue!Open
  <2> QED BY <2>2, <2>8 DEF Issue!Next
<1>2. ASSUME NEW r \in Run, Advances(r) PROVE [Issue!Next]_Issue!vars
  <2>1. /\ runs'[r].status \in {"active", "final"} /\ runs'[r].selection = runs[r].selection
        /\ \A q \in Run \ {r} : runs'[q] = runs[q]
        /\ runs[r].status # "final" /\ r \in instances /\ instances' = instances
    BY <1>2, AdvancesOne DEF Advances, ActiveStatus
  <2>2. opener' = opener
    BY <2>1
  <2>3. CASE runs'[r].status = "final"
    <3>1. ended' = ended \cup {r}
      BY <2>1, <2>3
    <3> QED BY <2>1, <2>2, <3>1 DEF Issue!End, Issue!Next
  <2>4. CASE runs'[r].status = "active"
    <3>1. ended' = ended
      BY <2>1, <2>4
    <3> QED BY <2>1, <2>2, <3>1 DEF Issue!vars
  <2> QED BY <2>1, <2>3, <2>4
<1>3. CASE runs' = runs
  <2>1. CASE instances' = instances
    BY <1>3, <2>1 DEF Issue!vars
  <2>2. ASSUME NEW r \in UsedRuns, instances' = instances \cup {r} PROVE Issue!Next
    BY <1>0, <1>3, <2>2, OpenedAreUsed DEF Issue!Start, Issue!Next
  <2> QED BY <2>1, <2>2, InstanceStep
<1> QED BY <1>1, <1>2, <1>3, RunStep

\* Workers, redeliveries, route edits and failures implement the plain life of an
\* issue's runs.
THEOREM DispatchRefinement == Spec => ImplementsIssueRuns
<1>1. Init => Issue!Init
  BY DEF Init, NoRow, Issue!Init
<1> QED BY <1>1, NextIssue, DispatchInvariance, PTL DEF Spec, ImplementsIssueRuns, Issue!Spec
=============================================================================
