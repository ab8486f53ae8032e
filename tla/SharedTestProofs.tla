-------------------------- MODULE SharedTestProofs --------------------------
(***************************************************************************)
(* Theorems about the shared test environment for any finite sets of       *)
(* requests and any items.  Its steps are steps of TestSite or leave the   *)
(* lease alone, so what TestSiteProofs proves of the lease holds here; the *)
(* properties of the demo, the marker, the webhook and the cleanup follow  *)
(* by induction on top of that.                                            *)
(***************************************************************************)
EXTENDS SharedTest, TestSiteProofs

\* Every step is a step of the lease protocol or does not touch the lease.
LEMMA StepIsSiteStep == [Next]_vars => [SiteNext]_siteVars
<1> SUFFICES ASSUME Next, ~UNCHANGED siteVars PROVE SiteNext
  BY DEF vars
<1> USE DEF siteVars
<1>1. CASE Tick
  BY <1>1 DEF Tick, SiteNext
<1> SUFFICES ASSUME NEW r \in Request,
                    WorkflowStep(r) \/ PrepareStep(r) \/ MarkStep(r) \/ RouteStep(r)
                      \/ ScanStep(r) \/ OperatorStep(r)
             PROVE  SiteNext
  BY <1>1 DEF Next
<1>2. CASE WorkflowStep(r)
  <2>1. CASE Ask(r)
    BY <2>1 DEF Ask, SiteNext
  <2> QED
    BY <1>2, <2>1 DEF WorkflowStep, LeaveDemo, HeartbeatFenced, ChooseAttempt, StartAttempt,
       AbandonAttempt, EndAttempt, SetAttempt, RetryDemo, OpenSession
<1>3. CASE PrepareStep(r)
  <2>1. CASE GrantHead(r)
    BY <2>1 DEF GrantHead, SiteNext
  <2>2. CASE ActivateLease(r)
    BY <2>2 DEF ActivateLease, SiteNext
  <2> QED
    BY <1>3, <2>1, <2>2 DEF PrepareStep, SetupFault, GiveIdentity, Plan, BeginCreate, CreateLands,
       CreateFails, Reconcile
<1>4. CASE MarkStep(r)
  BY <1>4 DEF MarkStep, InsertAllowed, InsertReconciles, InsertPlans, InsertWrites, InsertLands,
     InsertDone, InsertLost, AtInsert
<1>5. CASE RouteStep(r)
  BY <1>5 DEF RouteStep, Route, Replay, Consume, ConsumerDies, ClaimEnds, AckMessage,
     ConsumerUnchanged
<1>6. CASE ScanStep(r)
  <2>1. CASE ExpireTerminalHead(r)
    BY <2>1 DEF ExpireTerminalHead, SiteNext
  <2>2. CASE FenceExpired(r) \/ QuiesceAfterProof(r)
    BY <2>2 DEF FenceExpired, QuiesceAfterProof, StopLease, SiteNext
  <2>3. CASE StartCleaning(r)
    BY <2>3 DEF StartCleaning, SiteNext
  <2>4. CASE CloseLease(r) \/ CloseAborted(r)
    BY <2>4 DEF CloseLease, CloseAborted, SiteNext
  <2> QED
    BY <1>6, <2>1, <2>2, <2>3, <2>4 DEF ScanStep, FailedSetup, RevokeAccess, MarkerAbsent,
       PlanRemoval, RemoveMarker, Remove, RemoveItem, ItemAbsent
<1>7. CASE OperatorStep(r)
  <2>1. CASE QuiesceBlocked(r)
    BY <2>1 DEF QuiesceBlocked, StopLease, SiteNext
  <2> QED BY <1>7, <2>1 DEF OperatorStep, AbortBlocked, PublishProofs
<1> QED BY <1>2, <1>3, <1>4, <1>5, <1>6, <1>7

\* The state predicates that only name variables of the lease are kept with it.
LEMMA DemoTypeKept ==
  ASSUME DemoTypeOK,
         UNCHANGED <<demoVars, itemVars, markVars, event, routeVars, accessVars, endVars>>
  PROVE  DemoTypeOK'
  BY DEF DemoTypeOK, demoVars, itemVars, markVars, routeVars, accessVars, endVars

ItemState == {"unplanned", "planned", "creating", "created", "uncertain", "absent"}

\* A row of test_resources keeps its type when a legal state is written.
LEMMA ItemWritten ==
  ASSUME item \in [Request -> [Item -> ItemState]], NEW r \in Request, NEW i \in Item,
         NEW state \in ItemState, item' = [item EXCEPT ![r][i] = state]
  PROVE  item' \in [Request -> [Item -> ItemState]]
  OBVIOUS

\* The steps of the workflow run write values of the right type.
LEMMA WorkflowType ==
  ASSUME DemoTypeOK, NEW r \in Request, WorkflowStep(r)
  PROVE  DemoTypeOK'
<1> USE DEF DemoTypeOK, itemVars, markVars, routeVars, accessVars, endVars
<1>1. CASE Ask(r)
  BY <1>1, DemoTypeKept DEF Ask
<1>2. CASE LeaveDemo(r) \/ HeartbeatFenced(r)
  BY <1>2 DEF LeaveDemo, HeartbeatFenced
<1>3. CASE \/ ChooseAttempt(r) \/ StartAttempt(r) \/ AbandonAttempt(r)
           \/ \E how \in {"completed", "blocked"} : EndAttempt(r, how)
  <2>1. PICK to \in {"none", "chosen", "running", "completed", "blocked"} :
          attempt' = [attempt EXCEPT ![r] = to]
    BY <1>3 DEF ChooseAttempt, StartAttempt, AbandonAttempt, EndAttempt, SetAttempt
  <2>2. UNCHANGED <<run, retried, fault, itemVars, markVars, event, routeVars, accessVars, endVars>>
    BY <1>3 DEF ChooseAttempt, StartAttempt, AbandonAttempt, EndAttempt, SetAttempt
  <2> QED BY <2>1, <2>2
<1>4. CASE RetryDemo(r)
  <2>1. attempt' \in [Request -> {"none", "chosen", "running", "completed", "blocked"}]
    BY <1>4 DEF RetryDemo
  <2>2. session' \in [Request -> {"none", "open", "revoked"}]
    BY <1>4 DEF RetryDemo
  <2>3. insert' \in [Request -> {"idle", "allowed", "planned", "writing", "answered"}]
    BY <1>4 DEF RetryDemo
  <2>4. retried' \subseteq Request
    BY <1>4 DEF RetryDemo
  <2> QED BY <1>4, <2>1, <2>2, <2>3, <2>4 DEF RetryDemo
<1>5. CASE OpenSession(r)
  BY <1>5 DEF OpenSession, demoVars
<1> QED BY <1>1, <1>2, <1>3, <1>4, <1>5 DEF WorkflowStep

\* The steps that prepare the site write values of the right type.
LEMMA PrepareType ==
  ASSUME DemoTypeOK, NEW r \in Request, PrepareStep(r)
  PROVE  DemoTypeOK'
<1> USE DEF DemoTypeOK, markVars, routeVars, accessVars, endVars
<1>1. CASE GrantHead(r) \/ ActivateLease(r)
  BY <1>1, DemoTypeKept DEF GrantHead, ActivateLease
<1>2. CASE SetupFault(r)
  BY <1>2 DEF SetupFault, itemVars
<1>3. CASE GiveIdentity(r)
  BY <1>3 DEF GiveIdentity, demoVars, itemVars
<1>4. ASSUME NEW i \in Item,
             \/ Plan(r, i) \/ BeginCreate(r, i) \/ CreateLands(r, i) \/ CreateFails(r, i)
             \/ Reconcile(r, i)
      PROVE  DemoTypeOK'
  <2>1. item' \in [Request -> [Item -> ItemState]]
    <3>a. item \in [Request -> [Item -> ItemState]]
      BY DEF ItemState
    <3>b. /\ item[r][i] \in ItemState
          /\ {"planned", "creating", "uncertain", "created"} \subseteq ItemState
      BY <3>a DEF ItemState
    <3> HIDE DEF DemoTypeOK
    <3>1. PICK state \in ItemState : item' = item \/ item' = [item EXCEPT ![r][i] = state]
      <4>1. CASE Plan(r, i) \/ Reconcile(r, i)
        BY <3>b, <4>1 DEF Plan, Reconcile
      <4>2. CASE BeginCreate(r, i)
        BY <3>a, <3>b, <4>2 DEF BeginCreate
      <4>3. CASE CreateLands(r, i)
        BY <3>a, <3>b, <4>3 DEF CreateLands
      <4>4. CASE CreateFails(r, i)
        BY <3>a, <3>b, <4>4 DEF CreateFails
      <4> QED BY <1>4, <4>1, <4>2, <4>3, <4>4
    <3> QED BY <3>a, <3>1, ItemWritten
  <2>2. creating' \subseteq Request \X Item /\ remote' \subseteq Request \X Item
    BY <1>4 DEF Plan, BeginCreate, CreateLands, CreateFails, Reconcile
  <2>3. UNCHANGED <<demoVars, markVars, event, routeVars, accessVars, endVars>>
    BY <1>4 DEF Plan, BeginCreate, CreateLands, CreateFails, Reconcile
  <2> QED BY <2>1, <2>2, <2>3 DEF demoVars, ItemState
<1> QED BY <1>1, <1>2, <1>3, <1>4 DEF PrepareStep

\* The calls of insert() and the route write values of the right type.
LEMMA MarkType ==
  ASSUME DemoTypeOK, NEW r \in Request, MarkStep(r) \/ RouteStep(r)
  PROVE  DemoTypeOK'
<1> USE DEF DemoTypeOK, demoVars, itemVars, accessVars, endVars
<1>1. CASE MarkStep(r)
  <2>1. CASE InsertAllowed(r)
    BY <2>1 DEF InsertAllowed, AtInsert, routeVars
  <2>2. CASE InsertReconciles(r)
    BY <2>2 DEF InsertReconciles, AtInsert, routeVars
  <2>3. CASE InsertPlans(r)
    BY <2>3 DEF InsertPlans, AtInsert, routeVars
  <2>4. CASE InsertWrites(r)
    BY <2>4 DEF InsertWrites, AtInsert, routeVars
  <2>5. CASE InsertLands(r)
    BY <2>5 DEF InsertLands, AtInsert, routeVars
  <2>6. CASE InsertDone(r)
    BY <2>6 DEF InsertDone, AtInsert, routeVars
  <2>7. CASE InsertLost(r)
    BY <2>7 DEF InsertLost, AtInsert, routeVars
  <2> QED BY <1>1, <2>1, <2>2, <2>3, <2>4, <2>5, <2>6, <2>7 DEF MarkStep
<1>2. CASE RouteStep(r)
  <2>1. CASE Route(r)
    <3>0. /\ event' = event \/ event' = [event EXCEPT ![r] = "claimed"]
          /\ dispatch' = dispatch \/ dispatch' = [dispatch EXCEPT ![r] = "pending"]
          /\ \/ delivery' = [delivery EXCEPT ![r] = "test"]
             \/ delivery' = [delivery EXCEPT ![r] = "ordinary"]
      <4> HIDE DEF DemoTypeOK
      <4> QED BY <2>1 DEF Route
    <3>1. event' \in [Request -> {"none", "live", "claimed", "disabled"}]
      BY <3>0
    <3>2. delivery' \in [Request -> {"none", "sent", "test", "ordinary"}]
      BY <3>0
    <3>3. dispatch' \in [Request -> {"none", "pending", "claimed", "overdue", "done"}]
      BY <3>0
    <3> QED BY <2>1, <3>1, <3>2, <3>3 DEF Route, markVars
  <2>2. CASE Replay(r)
    BY <2>2 DEF Replay, markVars
  <2>3. CASE Consume(r)
    BY <2>3 DEF Consume, ConsumerUnchanged, markVars
  <2>4. CASE ConsumerDies(r)
    BY <2>4 DEF ConsumerDies, ConsumerUnchanged, markVars
  <2>5. CASE ClaimEnds(r)
    BY <2>5 DEF ClaimEnds, ConsumerUnchanged, markVars
  <2>6. CASE AckMessage(r)
    BY <2>6 DEF AckMessage, ConsumerUnchanged, markVars
  <2> QED BY <1>2, <2>1, <2>2, <2>3, <2>4, <2>5, <2>6 DEF RouteStep
<1> QED BY <1>1, <1>2

\* The steps of scans and of the operator write values of the right type.
LEMMA ScanType ==
  ASSUME DemoTypeOK, NEW r \in Request, ScanStep(r) \/ OperatorStep(r)
  PROVE  DemoTypeOK'
<1> USE DEF DemoTypeOK
<1>1. CASE ExpireTerminalHead(r) \/ StartCleaning(r) \/ CloseAborted(r)
  BY <1>1, DemoTypeKept DEF ExpireTerminalHead, StartCleaning, CloseAborted
<1>2. CASE FenceExpired(r) \/ QuiesceAfterProof(r) \/ QuiesceBlocked(r)
  <2>1. StopLease(r)
    BY <1>2 DEF FenceExpired, QuiesceAfterProof, QuiesceBlocked
  <2>2. event' \in [Request -> {"none", "live", "claimed", "disabled"}]
    BY <2>1 DEF StopLease, EventAfterStop
  <2>3. session' \in [Request -> {"none", "open", "revoked"}]
    BY <2>1 DEF StopLease, SessionAfterStop
  <2> QED
    BY <2>1, <2>2, <2>3 DEF StopLease, demoVars, itemVars, markVars, routeVars, endVars
<1> USE DEF demoVars, itemVars, markVars, routeVars, accessVars
<1>3. CASE FailedSetup(r) \/ AbortBlocked(r) \/ PublishProofs(r)
  <2>1. CASE FailedSetup(r)
    BY <2>1 DEF FailedSetup
  <2>2. CASE AbortBlocked(r)
    BY <2>2 DEF AbortBlocked
  <2>3. CASE PublishProofs(r)
    BY <2>3 DEF PublishProofs
  <2> QED BY <1>3, <2>1, <2>2, <2>3
<1>4. CASE RevokeAccess(r)
  <2>1. session' \in [Request -> {"none", "open", "revoked"}]
    BY <1>4 DEF RevokeAccess, SessionAfterStop
  <2>2. identity' \in [Request -> {"none", "given", "absent"}]
    BY <1>4 DEF RevokeAccess
  <2> QED BY <1>4, <2>1, <2>2 DEF RevokeAccess, demoVars, itemVars, markVars, routeVars, endVars
<1>5. CASE MarkerAbsent(r) \/ PlanRemoval(r) \/ RemoveMarker(r)
  <2>1. PICK op \in {"absent", "planned", "done"} : Remove(r, op)
    BY <1>5 DEF MarkerAbsent, PlanRemoval, RemoveMarker
  <2>2. marked' \subseteq Request
    BY <1>5 DEF MarkerAbsent, PlanRemoval, RemoveMarker
  <2> QED BY <2>1, <2>2 DEF Remove, demoVars, itemVars, routeVars, accessVars, endVars
<1>6. ASSUME NEW i \in Item, RemoveItem(r, i) \/ ItemAbsent(r, i)
      PROVE  DemoTypeOK'
  <2>1. item' \in [Request -> [Item -> ItemState]]
    <3>1. item \in [Request -> [Item -> ItemState]] /\ "absent" \in ItemState
      BY DEF ItemState
    <3>2. item' = item \/ item' = [item EXCEPT ![r][i] = "absent"]
      BY <1>6 DEF RemoveItem, ItemAbsent
    <3> HIDE DEF DemoTypeOK
    <3> QED BY <3>1, <3>2, ItemWritten
  <2>2. creating' \subseteq Request \X Item /\ remote' \subseteq Request \X Item
    BY <1>6 DEF RemoveItem, ItemAbsent
  <2>3. UNCHANGED <<demoVars, markVars, event, routeVars, accessVars, endVars>>
    BY <1>6 DEF RemoveItem, ItemAbsent
  <2> QED BY <2>1, <2>2, <2>3 DEF endVars, ItemState
<1>7. CASE CloseLease(r)
  BY <1>7 DEF CloseLease, demoVars, itemVars, markVars, accessVars, endVars
<1> QED BY <1>1, <1>2, <1>3, <1>4, <1>5, <1>6, <1>7 DEF ScanStep, OperatorStep

\* Every step keeps the types of the demo's tables.
LEMMA DemoTypeStep == DemoTypeOK /\ [Next]_vars => DemoTypeOK'
<1> SUFFICES ASSUME DemoTypeOK, [Next]_vars PROVE DemoTypeOK'
  OBVIOUS
<1>1. CASE UNCHANGED vars
  BY <1>1, DemoTypeKept DEF vars
<1>2. CASE Tick
  BY <1>2, DemoTypeKept DEF Tick
<1> QED BY <1>1, <1>2, WorkflowType, PrepareType, MarkType, ScanType DEF Next
-----------------------------------------------------------------------------
(* What each kind of step leaves alone.                                      *)

\* The workflow run opens sessions and moves attempts; the queue is all it does to the site.
LEMMA WorkflowFrame ==
  ASSUME NEW r \in Request, WorkflowStep(r)
  PROVE  /\ UNCHANGED <<creating, remote, event, delivery, dispatch, attested, identity,
                        proofs, abort>>
         /\ UNCHANGED session \/ RetryDemo(r) \/ OpenSession(r)
         /\ UNCHANGED siteVars \/ Ask(r)
         /\ \/ UNCHANGED attempt
            \/ attempt[r] # "completed" /\ \E how : attempt' = [attempt EXCEPT ![r] = how]
  BY DEF WorkflowStep, Ask, LeaveDemo, HeartbeatFenced, ChooseAttempt, StartAttempt, AbandonAttempt,
     EndAttempt, SetAttempt, RetryDemo, OpenSession, itemVars, demoVars, routeVars, accessVars,
     endVars

\* Preparation creates items and an identity, and begins leases.
LEMMA PrepareFrame ==
  ASSUME NEW r \in Request, PrepareStep(r)
  PROVE  /\ UNCHANGED <<attempt, event, session, delivery, dispatch, attested, proofs, abort>>
         /\ UNCHANGED identity \/ GiveIdentity(r)
         /\ \/ UNCHANGED <<creating, remote>>
            \/ \E i \in Item : BeginCreate(r, i) \/ CreateLands(r, i) \/ CreateFails(r, i)
         /\ UNCHANGED siteVars \/ GrantHead(r) \/ ActivateLease(r)
  BY DEF PrepareStep, SetupFault, GrantHead, ActivateLease, GiveIdentity, Plan, BeginCreate,
     CreateLands, CreateFails, Reconcile, demoVars, itemVars, routeVars, accessVars, endVars

\* A call of insert() plans its event and causes a webhook.
LEMMA MarkFrame ==
  ASSUME NEW r \in Request, MarkStep(r)
  PROVE  /\ UNCHANGED <<siteVars, attempt, creating, remote, session, identity, proofs, abort,
                        dispatch, attested>>
         /\ UNCHANGED event \/ InsertPlans(r)
         /\ UNCHANGED delivery \/ InsertLands(r)
  BY DEF MarkStep, InsertAllowed, InsertReconciles, InsertPlans, InsertWrites, InsertLands,
     InsertDone, InsertLost, AtInsert, demoVars, itemVars, routeVars, accessVars, endVars

\* The route and the Queue consumer never touch the lease.
LEMMA RouteFrame ==
  ASSUME NEW r \in Request, RouteStep(r)
  PROVE  /\ UNCHANGED <<siteVars, attempt, creating, remote, session, identity, proofs, abort>>
         /\ UNCHANGED <<event, delivery>> \/ Route(r)
         /\ \/ UNCHANGED <<dispatch, attested>> \/ Route(r) \/ Consume(r) \/ ConsumerDies(r)
            \/ ClaimEnds(r)
  BY DEF RouteStep, Route, Replay, Consume, ConsumerDies, ClaimEnds, AckMessage, ConsumerUnchanged,
     demoVars, itemVars, accessVars, endVars

\* A scan stops leases and cleans them up.
LEMMA ScanFrame ==
  ASSUME NEW r \in Request, ScanStep(r) \/ OperatorStep(r)
  PROVE  /\ UNCHANGED <<attempt, delivery, dispatch>>
         /\ UNCHANGED attested \/ CloseLease(r)
         /\ UNCHANGED creating
         /\ UNCHANGED remote \/ \E i \in Item : RemoveItem(r, i)
         /\ UNCHANGED identity \/ RevokeAccess(r)
         /\ UNCHANGED session \/ RevokeAccess(r) \/ StopLease(r)
         /\ UNCHANGED event \/ StopLease(r) \/ \E op \in {"absent", "planned", "done"} : Remove(r, op)
         /\ UNCHANGED <<proofs, abort>> \/ FailedSetup(r) \/ AbortBlocked(r) \/ PublishProofs(r)
         /\ \/ UNCHANGED siteVars
            \/ ExpireTerminalHead(r) \/ StopLease(r) \/ StartCleaning(r) \/ CloseLease(r)
            \/ CloseAborted(r)
  BY DEF ScanStep, OperatorStep, ExpireTerminalHead, FenceExpired, QuiesceAfterProof, FailedSetup,
     RevokeAccess, MarkerAbsent, PlanRemoval, RemoveMarker, Remove, StartCleaning, CloseLease,
     CloseAborted, RemoveItem, ItemAbsent, QuiesceBlocked, AbortBlocked, PublishProofs, StopLease,
     demoVars, itemVars, routeVars, accessVars, endVars
-----------------------------------------------------------------------------
(* What the steps of the site mean for the lease of one request.             *)

\* The steps that touch the site and do not stop a lease.
Keeps(r) == \/ Ask(r) \/ ExpireTerminalHead(r) \/ GrantHead(r) \/ ActivateLease(r)
            \/ StartCleaning(r) \/ CloseLease(r) \/ CloseAborted(r)

\* A lease is only granted once.
LeasedWasGranted == \A r \in Request : lease[r].state # "none" => request[r] = "granted"

\* Only being stopped ends the right to write.
LEMMA OnlyStopEnds ==
  ASSUME SiteInv, NEW s \in Request, NEW r \in Request,
         Keeps(r) \/ Tick \/ UNCHANGED siteVars \/ (r # s /\ Stop(r)),
         lease'[s].state # "none", ~HoldsFence(s)'
  PROVE  lease[s].state # "none" /\ ~HoldsFence(s)
<1> USE DEF HoldsFence
<1>0. /\ site \in SiteRow /\ lease \in [Request -> LeaseRow] /\ NoRequest \notin Request
      /\ OneOwner
  BY NoRequestIsNoRequest DEF SiteInv, SiteTypeOK
<1>1. CASE UNCHANGED siteVars
  BY <1>1 DEF siteVars
<1>2. CASE Tick
  BY <1>0, <1>2 DEF Tick, HeartbeatLapses, SiteRow
<1>3. CASE Ask(r) \/ ExpireTerminalHead(r)
  BY <1>3 DEF Ask, Enqueue, ExpireTerminalHead, Retire
<1>4. CASE GrantHead(r)
  BY <1>0, <1>4 DEF GrantHead, Grant, SiteIsFree, OneOwner, LeaseRow, Live
<1>5. CASE ActivateLease(r)
  BY <1>0, <1>5 DEF ActivateLease, Activate, Unexpired, SiteRow, LeaseRow, Live
<1>6. CASE StartCleaning(r)
  <2>1. PICK saved : Clean(r, saved)
    BY <1>6 DEF StartCleaning
  <2> QED BY <1>0, <2>1 DEF Clean, SiteRow, LeaseRow, Live, OneOwner, Fenced
<1>7. CASE CloseLease(r) \/ CloseAborted(r)
  <2>1. Close(r)
    BY <1>7 DEF CloseLease, CloseAborted
  <2> QED BY <1>0, <2>1 DEF Close, SiteRow, LeaseRow, Live, OneOwner, Fenced
<1>8. CASE r # s /\ Stop(r)
  BY <1>0, <1>8 DEF Stop, SiteRow, LeaseRow, Live, OneOwner, Fenced
<1> QED BY <1>1, <1>2, <1>3, <1>4, <1>5, <1>6, <1>7, <1>8 DEF Keeps

\* Every step of the demo is one that keeps the site, a stop, or no step of the site.
LEMMA SiteSteps ==
  ASSUME [Next]_vars
  PROVE  UNCHANGED siteVars \/ Tick \/ \E r \in Request : Keeps(r) \/ StopLease(r)
<1>1. CASE UNCHANGED vars
  BY <1>1 DEF vars
<1> QED BY <1>1, WorkflowFrame, PrepareFrame, MarkFrame, RouteFrame, ScanFrame DEF Next, Keeps
-----------------------------------------------------------------------------
(* Stopped means stopped.                                                    *)

Quiet(s) == event[s] \notin {"live", "claimed"} /\ session[s] # "open"

\* A lease that may not write and is quiet is not woken by any step.
LEMMA QuietStays ==
  ASSUME DemoTypeOK, [Next]_vars, NEW s \in Request, ~HoldsFence(s), Quiet(s)
  PROVE  Quiet(s)'
<1> USE DEF Quiet
<1>0. /\ event \in [Request -> {"none", "live", "claimed", "disabled"}]
      /\ session \in [Request -> {"none", "open", "revoked"}]
      /\ ~MayWrite(s)
  BY DEF DemoTypeOK, MayWrite, Unexpired
<1>1. CASE UNCHANGED <<event, session>>
  BY <1>1
<1>2. CASE Tick \/ UNCHANGED vars
  BY <1>1, <1>2 DEF Tick, accessVars, vars
<1> SUFFICES ASSUME NEW r \in Request,
                    WorkflowStep(r) \/ PrepareStep(r) \/ MarkStep(r) \/ RouteStep(r)
                      \/ ScanStep(r) \/ OperatorStep(r)
             PROVE  Quiet(s)'
  BY <1>2 DEF Next
<1>3. CASE RetryDemo(r) \/ OpenSession(r)
  BY <1>0, <1>3 DEF RetryDemo, OpenSession
<1>4. CASE WorkflowStep(r)
  BY <1>1, <1>3, <1>4, WorkflowFrame
<1>5. CASE PrepareStep(r)
  BY <1>1, <1>5, PrepareFrame
<1>6. CASE MarkStep(r)
  <2>1. CASE InsertPlans(r)
    BY <1>0, <1>6, <2>1, MarkFrame DEF InsertPlans, MayExpect
  <2> QED BY <1>1, <1>6, <2>1, MarkFrame
<1>7. CASE RouteStep(r)
  <2>1. CASE Route(r)
    BY <1>0, <1>7, <2>1, RouteFrame DEF Route
  <2> QED BY <1>1, <1>7, <2>1, RouteFrame
<1>8. CASE ScanStep(r) \/ OperatorStep(r)
  <2>1. CASE StopLease(r)
    BY <1>0, <2>1 DEF StopLease, EventAfterStop, SessionAfterStop
  <2>2. CASE RevokeAccess(r)
    BY <1>0, <2>2 DEF RevokeAccess, SessionAfterStop
  <2>3. ASSUME NEW op, Remove(r, op) PROVE Quiet(s)'
    BY <1>0, <2>3 DEF Remove, accessVars
  <2> QED BY <1>1, <1>8, <2>1, <2>2, <2>3, ScanFrame
<1> QED BY <1>4, <1>5, <1>6, <1>7, <1>8

\* The step that stops a lease makes it quiet; before it, nothing is asked.
LEMMA StoppedStep ==
  ASSUME SiteInv, DemoTypeOK, StoppedMeansStopped, [Next]_vars
  PROVE  StoppedMeansStopped'
<1> SUFFICES ASSUME NEW s \in Request, lease'[s].state # "none", ~HoldsFence(s)'
             PROVE  Quiet(s)'
  BY DEF StoppedMeansStopped, Quiet
<1>1. CASE StopLease(s)
  <2>1. /\ event \in [Request -> {"none", "live", "claimed", "disabled"}]
        /\ session \in [Request -> {"none", "open", "revoked"}]
    BY DEF DemoTypeOK
  <2> QED BY <1>1, <2>1 DEF StopLease, EventAfterStop, SessionAfterStop, Quiet
<1>2. CASE ~StopLease(s)
  <2>1. lease[s].state # "none" /\ ~HoldsFence(s)
    BY <1>2, SiteSteps, OnlyStopEnds DEF StopLease
  <2> QED BY <2>1, QuietStays DEF StoppedMeansStopped, Quiet
<1> QED BY <1>1, <1>2
-----------------------------------------------------------------------------
(* Nothing is left for the next owner.                                       *)

NothingOf(s) == /\ \A i \in Item : <<s, i>> \notin remote \cup creating
                /\ identity[s] # "given" /\ session[s] # "open"

\* Create calls are over when the cleanup of their lease begins.
NoCallsInCleaning == \A s \in Request : site.owner = s /\ site.state = "cleaning"
                       => \A i \in Item : <<s, i>> \notin creating

\* Only an owner that may write begins a create call.
LEMMA CallsBegin ==
  ASSUME [Next]_vars, NEW s \in Request, NEW i \in Item, <<s, i>> \in creating' \ creating
  PROVE  HoldsFence(s) /\ UNCHANGED siteVars
<1>1. ~UNCHANGED creating
  OBVIOUS
<1>2. PICK r \in Request : PrepareStep(r)
  BY <1>1, WorkflowFrame, MarkFrame, RouteFrame, ScanFrame DEF Next, Tick, itemVars, vars
<1>3. PICK j \in Item : BeginCreate(r, j) \/ CreateLands(r, j) \/ CreateFails(r, j)
  BY <1>1, <1>2, PrepareFrame
<1>4. BeginCreate(r, j) /\ <<r, j>> = <<s, i>>
  BY <1>3 DEF BeginCreate, CreateLands, CreateFails
<1> QED BY <1>4 DEF BeginCreate, Unexpired

\* While a lease does not own the site, nothing comes into being for it.
LEMMA NothingStays ==
  ASSUME DemoTypeOK, [Next]_vars, NEW s \in Request, site.owner # s, NothingOf(s)
  PROVE  NothingOf(s)'
<1>0. /\ identity \in [Request -> {"none", "given", "absent"}]
      /\ session \in [Request -> {"none", "open", "revoked"}]
      /\ ~HoldsFence(s) /\ ~MayWrite(s)
  BY DEF DemoTypeOK, MayWrite, Unexpired, HoldsFence
<1>1. \A i \in Item : <<s, i>> \notin creating'
  BY <1>0, CallsBegin DEF NothingOf
<1>2. \A i \in Item : <<s, i>> \notin remote'
  <2> SUFFICES ASSUME ~UNCHANGED remote, NEW i \in Item PROVE <<s, i>> \notin remote'
    BY DEF NothingOf
  <2>1. PICK r \in Request : PrepareStep(r) \/ ScanStep(r) \/ OperatorStep(r)
    BY WorkflowFrame, MarkFrame, RouteFrame DEF Next, Tick, itemVars, vars
  <2>2. CASE PrepareStep(r)
    <3>1. PICK j \in Item : BeginCreate(r, j) \/ CreateLands(r, j) \/ CreateFails(r, j)
      BY <2>2, PrepareFrame
    <3> QED BY <3>1 DEF BeginCreate, CreateLands, CreateFails, NothingOf
  <2>3. CASE ScanStep(r) \/ OperatorStep(r)
    <3>1. PICK j \in Item : RemoveItem(r, j)
      BY <2>3, ScanFrame
    <3> QED BY <3>1 DEF RemoveItem, NothingOf
  <2> QED BY <2>1, <2>2, <2>3
<1>3. identity'[s] # "given" /\ session'[s] # "open"
  <2> USE DEF NothingOf
  <2> SUFFICES ASSUME ~UNCHANGED <<identity, session>>
               PROVE  identity'[s] # "given" /\ session'[s] # "open"
    OBVIOUS
  <2>2. PICK r \in Request : WorkflowStep(r) \/ PrepareStep(r) \/ ScanStep(r) \/ OperatorStep(r)
    BY MarkFrame, RouteFrame DEF Next, Tick, accessVars, vars
  <2>3. CASE RetryDemo(r) \/ OpenSession(r)
    BY <1>0, <2>3 DEF RetryDemo, OpenSession
  <2>4. CASE GiveIdentity(r)
    BY <1>0, <2>4 DEF GiveIdentity
  <2>5. CASE RevokeAccess(r) \/ StopLease(r)
    BY <1>0, <2>5 DEF RevokeAccess, StopLease, SessionAfterStop
  <2> QED BY <2>2, <2>3, <2>4, <2>5, WorkflowFrame, PrepareFrame, ScanFrame
<1> QED BY <1>1, <1>2, <1>3 DEF NothingOf

\* The batch that closes a lease is only reached when nothing of it is left.
LEMMA CloseLeavesNothing ==
  ASSUME NoCallsInCleaning, NEW s \in Request, CloseLease(s) \/ CloseAborted(s)
  PROVE  NothingOf(s) /\ UNCHANGED <<creating, remote, identity, session>>
<1>1. Settled(s) /\ UNCHANGED <<creating, remote, identity, session>>
  BY DEF CloseLease, CloseAborted, CloseReady, itemVars, accessVars
<1> QED
  BY <1>1 DEF Settled, ItemsGone, AccessRevoked, Cleaning, Recovering, NoCallsInCleaning, NothingOf

\* If create calls end in time, the site is given up without leftovers.
LEMMA NothingStep ==
  ASSUME CallsEndInTime, SiteInv, DemoTypeOK, NoCallsInCleaning, NextOwnerMeetsNothing,
         [Next]_vars
  PROVE  NextOwnerMeetsNothing'
<1> SUFFICES ASSUME NEW s \in Request, site'.owner # s PROVE NothingOf(s)'
  BY DEF NextOwnerMeetsNothing, NothingOf
<1>1. CASE site.owner # s
  BY <1>1, NothingStays DEF NextOwnerMeetsNothing, NothingOf
<1>2. CASE site.owner = s
  <2>0. site \in SiteRow /\ NoRequest \notin Request /\ OneOwner
    BY NoRequestIsNoRequest DEF SiteInv, SiteTypeOK
  <2>1. PICK r \in Request : Keeps(r)
    BY <1>2, <2>0, SiteSteps DEF siteVars, Tick, HeartbeatLapses, StopLease, Stop, SiteRow
  <2>2. CloseLease(r) \/ CloseAborted(r)
    BY <1>2, <2>0, <2>1 DEF Keeps, Ask, Enqueue, ExpireTerminalHead, Retire, GrantHead, Grant,
       SiteIsFree, OneOwner, ActivateLease, Activate, StartCleaning, Clean, SiteRow
  <2>3. r = s
    BY <1>2, <2>2 DEF CloseLease, CloseAborted, Close
  <2> QED BY <2>2, <2>3, CloseLeavesNothing DEF NothingOf
<1> QED BY <1>1, <1>2

\* Cleaning begins without calls and no call begins while it lasts.
LEMMA NoCallsStep ==
  ASSUME CallsEndInTime, SiteInv, NoCallsInCleaning, [Next]_vars
  PROVE  NoCallsInCleaning'
<1> SUFFICES ASSUME NEW s \in Request, site'.owner = s, site'.state = "cleaning",
                    NEW i \in Item
             PROVE  <<s, i>> \notin creating'
  BY DEF NoCallsInCleaning
<1>0. site \in SiteRow
  BY DEF SiteInv, SiteTypeOK
<1>1. CASE site.owner = s /\ site.state = "cleaning"
  <2>1. ~HoldsFence(s)
    BY <1>1 DEF HoldsFence, Live
  <2> QED BY <1>1, <2>1, CallsBegin DEF NoCallsInCleaning
<1>2. CASE ~(site.owner = s /\ site.state = "cleaning")
  <2>1. PICK r \in Request : Keeps(r)
    BY <1>0, <1>2, SiteSteps DEF siteVars, Tick, HeartbeatLapses, StopLease, Stop, SiteRow
  <2>2. StartCleaning(r)
    <3>1. CASE Ask(r) \/ ExpireTerminalHead(r)
      BY <1>2, <3>1 DEF Ask, Enqueue, ExpireTerminalHead, Retire
    <3>2. CASE GrantHead(r)
      BY <3>2 DEF GrantHead, Grant
    <3>4. CASE ActivateLease(r)
      BY <1>0, <3>4 DEF ActivateLease, Activate, SiteRow
    <3>3. CASE CloseLease(r) \/ CloseAborted(r)
      BY <1>0, <3>3 DEF CloseLease, CloseAborted, Close, SiteRow
    <3> QED BY <2>1, <3>1, <3>2, <3>3, <3>4 DEF Keeps
  <2>3. r = s
    BY <1>0, <2>2 DEF StartCleaning, Clean, SiteRow
  <2> QED BY <2>2, <2>3 DEF StartCleaning, CallsOver, itemVars
<1> QED BY <1>1, <1>2
-----------------------------------------------------------------------------
(* Accepted work and the attestation.                                        *)

\* The three rows of a webhook advance together.
RouteRows == \A s \in Request : /\ dispatch[s] # "none" <=> delivery[s] = "test"
                                /\ dispatch[s] = "done" <=> attested[s] # "none"

\* A lease that is being cleaned or closed was that before, or starts to be cleaned.
LEMMA CleaningBegins ==
  ASSUME SiteInv, [Next]_vars, NEW s \in Request, lease'[s].state \in {"cleaning", "closed"}
  PROVE  lease[s].state \in {"cleaning", "closed"} \/ StartCleaning(s)
<1>0. lease \in [Request -> LeaseRow] /\ OneOwner
  BY DEF SiteInv, SiteTypeOK
<1>1. CASE UNCHANGED lease
  BY <1>1
<1>2. PICK r \in Request : GrantHead(r) \/ ActivateLease(r) \/ StartCleaning(r) \/ CloseLease(r)
                           \/ CloseAborted(r) \/ StopLease(r) \/ UNCHANGED lease
  BY <1>1, SiteSteps DEF Keeps, siteVars, Tick, HeartbeatLapses, Ask, Enqueue, ExpireTerminalHead,
     Retire
<1>3. CASE GrantHead(r)
  BY <1>0, <1>3 DEF GrantHead, Grant, LeaseRow
<1>4. CASE ActivateLease(r)
  BY <1>0, <1>4 DEF ActivateLease, Activate, LeaseRow
<1>5. CASE StartCleaning(r)
  BY <1>0, <1>5 DEF StartCleaning, Clean, LeaseRow
<1>6. CASE CloseLease(r) \/ CloseAborted(r)
  <2>1. Close(r) /\ lease[r].state = "cleaning"
    BY <1>0, <1>6 DEF CloseLease, CloseAborted, Close, OneOwner
  <2> QED BY <1>0, <2>1 DEF Close, LeaseRow
<1>7. CASE StopLease(r)
  BY <1>0, <1>7 DEF StopLease, Stop, LeaseRow
<1> QED BY <1>1, <1>2, <1>3, <1>4, <1>5, <1>6, <1>7

\* A closed lease stays closed: its request is granted once.
LEMMA ClosedStays ==
  ASSUME SiteInv, LeasedWasGranted, [Next]_vars, NEW s \in Request, lease[s].state = "closed"
  PROVE  lease'[s].state = "closed"
<1>0. /\ lease \in [Request -> LeaseRow] /\ request[s] = "granted" /\ site.owner # s
      /\ NoRequest \notin Request
  BY NoRequestIsNoRequest DEF SiteInv, SiteTypeOK, OneOwner, LeasedWasGranted, Live, Fenced
<1>1. CASE UNCHANGED lease
  BY <1>1
<1>2. PICK r \in Request : GrantHead(r) \/ ActivateLease(r) \/ StartCleaning(r) \/ CloseLease(r)
                           \/ CloseAborted(r) \/ StopLease(r) \/ UNCHANGED lease
  BY <1>1, SiteSteps DEF Keeps, siteVars, Tick, HeartbeatLapses, Ask, Enqueue, ExpireTerminalHead,
     Retire
<1>3. CASE GrantHead(r)
  BY <1>0, <1>3 DEF GrantHead, Grant, IsHead
<1>4. CASE ActivateLease(r) \/ StopLease(r)
  BY <1>0, <1>4 DEF ActivateLease, Activate, Unexpired, HoldsFence, StopLease, Stop
<1>5. CASE StartCleaning(r)
  BY <1>0, <1>5 DEF StartCleaning, Clean
<1>6. CASE CloseLease(r) \/ CloseAborted(r)
  BY <1>0, <1>6 DEF CloseLease, CloseAborted, Close
<1> QED BY <1>1, <1>2, <1>3, <1>4, <1>5, <1>6

\* Only a waiting request is granted, and nothing takes the grant back.
LEMMA GrantedStep ==
  ASSUME SiteInv, LeasedWasGranted, [Next]_vars
  PROVE  LeasedWasGranted'
<1> SUFFICES ASSUME NEW s \in Request, lease'[s].state # "none" PROVE request'[s] = "granted"
  BY DEF LeasedWasGranted
<1>0. /\ lease \in [Request -> LeaseRow]
      /\ request \in [Request -> {"none", "waiting", "granted", "canceled", "superseded"}]
      /\ OneOwner
  BY DEF SiteInv, SiteTypeOK
<1>1. CASE UNCHANGED <<lease, request>>
  BY <1>1 DEF LeasedWasGranted
<1>2. PICK r \in Request : Keeps(r) \/ StopLease(r)
        \/ UNCHANGED <<lease, request>>
  BY <1>1, SiteSteps DEF siteVars, Tick, HeartbeatLapses
<1>3. CASE Ask(r) \/ ExpireTerminalHead(r)
  BY <1>0, <1>3 DEF Ask, Enqueue, ExpireTerminalHead, Retire, IsHead, LeasedWasGranted
<1>4. CASE GrantHead(r)
  BY <1>0, <1>4 DEF GrantHead, Grant, LeasedWasGranted
<1>5. ASSUME request' = request, lease[r].state # "none",
             \A q \in Request \ {r} : lease'[q] = lease[q]
      PROVE  request'[s] = "granted"
  BY <1>5 DEF LeasedWasGranted
<1>6. CASE ActivateLease(r) \/ StopLease(r) \/ StartCleaning(r) \/ CloseLease(r) \/ CloseAborted(r)
  <2>1. site.owner = r /\ request' = request
    BY <1>6 DEF ActivateLease, Activate, Unexpired, HoldsFence, StopLease, Stop, StartCleaning, Clean,
       CloseLease, CloseAborted, Close
  <2>2. \A q \in Request \ {r} : lease'[q] = lease[q]
    <3>1. CASE ActivateLease(r) \/ StopLease(r)
      BY <1>0, <3>1 DEF ActivateLease, Activate, StopLease, Stop
    <3>2. CASE StartCleaning(r)
      BY <1>0, <3>2 DEF StartCleaning, Clean
    <3>3. CASE CloseLease(r) \/ CloseAborted(r)
      BY <1>0, <3>3 DEF CloseLease, CloseAborted, Close
    <3> QED BY <1>6, <3>1, <3>2, <3>3
  <2> QED BY <1>0, <1>5, <2>1, <2>2 DEF OneOwner, Live, Fenced
<1> QED BY <1>1, <1>2, <1>3, <1>4, <1>6 DEF Keeps

\* What the steps of the webhook do to the rows of one request.
LEMMA RowSteps ==
  ASSUME DemoTypeOK, RouteRows, [Next]_vars, NEW s \in Request
  PROVE  /\ RouteRows'
         /\ dispatch[s] = "done" => dispatch'[s] = "done"
         /\ delivery[s] = "test" => delivery'[s] = "test"
         /\ delivery'[s] = "test" => delivery[s] = "test" \/ MayWrite(s) \/ HoldsFence(s)
         /\ attested[s] = "complete" => attested'[s] = "complete"
         /\ attested'[s] = "complete" => attested[s] = "complete" \/ CloseLease(s)
<1>0. /\ delivery \in [Request -> {"none", "sent", "test", "ordinary"}]
      /\ dispatch \in [Request -> {"none", "pending", "claimed", "overdue", "done"}]
      /\ attested \in [Request -> {"none", "observed", "complete"}]
  BY DEF DemoTypeOK
<1>1. CASE UNCHANGED <<delivery, dispatch, attested>>
  BY <1>1 DEF RouteRows
<1>2. CASE Tick \/ UNCHANGED vars
  BY <1>1, <1>2 DEF Tick, routeVars, vars
<1> SUFFICES ASSUME NEW r \in Request,
                    \/ InsertLands(r) \/ Route(r) \/ Consume(r) \/ ConsumerDies(r) \/ ClaimEnds(r)
                    \/ CloseLease(r)
             PROVE  /\ RouteRows'
                    /\ dispatch[s] = "done" => dispatch'[s] = "done"
                    /\ delivery[s] = "test" => delivery'[s] = "test"
                    /\ delivery'[s] = "test" => delivery[s] = "test" \/ MayWrite(s) \/ HoldsFence(s)
                    /\ attested[s] = "complete" => attested'[s] = "complete"
                    /\ attested'[s] = "complete" => attested[s] = "complete" \/ CloseLease(s)
  BY <1>1, <1>2, WorkflowFrame, PrepareFrame, MarkFrame, RouteFrame, ScanFrame DEF Next
<1>3. CASE InsertLands(r)
  BY <1>0, <1>3 DEF InsertLands, AtInsert, RouteRows
<1>4. CASE Route(r)
  <2>1. CASE event[r] = "live" /\ HoldsFence(r) /\ site.state = "active"
    BY <1>0, <1>4, <2>1 DEF Route, RouteRows
  <2>2. CASE ~(event[r] = "live" /\ HoldsFence(r) /\ site.state = "active")
    BY <1>0, <1>4, <2>2 DEF Route, RouteRows
  <2> QED BY <2>1, <2>2
<1>5. CASE Consume(r)
  BY <1>0, <1>5 DEF Consume, Claimable, ConsumerUnchanged, RouteRows
<1>6. CASE ConsumerDies(r) \/ ClaimEnds(r)
  BY <1>0, <1>6 DEF ConsumerDies, ClaimEnds, Claimable, ConsumerUnchanged, RouteRows
<1>7. CASE CloseLease(r)
  BY <1>0, <1>7 DEF CloseLease, CloseReady, RouteRows
<1> QED BY <1>3, <1>4, <1>5, <1>6, <1>7

\* Cleaning begins only when accepted work is done, and none is accepted afterwards.
LEMMA AcceptedStep ==
  ASSUME SiteInv, DemoTypeOK, RouteRows, AcceptedWorkIsFinished, [Next]_vars
  PROVE  AcceptedWorkIsFinished'
<1> SUFFICES ASSUME NEW s \in Request, delivery'[s] = "test",
                    lease'[s].state \in {"cleaning", "closed"}
             PROVE  dispatch'[s] = "done" /\ attested'[s] # "none"
  BY DEF AcceptedWorkIsFinished
<1>1. CASE lease[s].state \in {"cleaning", "closed"}
  <2>1. ~HoldsFence(s) /\ ~MayWrite(s)
    BY <1>1 DEF HoldsFence, MayWrite, Unexpired, Live, SiteInv, OneOwner
  <2>2. delivery[s] = "test"
    BY <2>1, RowSteps
  <2>3. dispatch[s] = "done"
    BY <1>1, <2>2 DEF AcceptedWorkIsFinished
  <2> QED BY <2>3, RowSteps DEF RouteRows
<1>2. CASE StartCleaning(s)
  <2>1. UNCHANGED <<delivery, dispatch, attested>>
    BY <1>2 DEF StartCleaning, routeVars
  <2>2. dispatch[s] = "done"
    BY <1>2, <2>1 DEF StartCleaning, AbortReady, TestSettled, NothingTested, RouteRows
  <2> QED BY <2>1, <2>2 DEF RouteRows
<1> QED BY <1>1, <1>2, CleaningBegins

\* What a complete attestation was given for is never taken back.
LEMMA CompleteStep ==
  ASSUME SiteInv, DemoTypeOK, LeasedWasGranted, RouteRows, CompleteMeansPassed, [Next]_vars
  PROVE  CompleteMeansPassed'
<1> SUFFICES ASSUME NEW s \in Request, attested'[s] = "complete"
             PROVE  /\ delivery'[s] = "test" /\ dispatch'[s] = "done"
                    /\ attempt'[s] = "completed" /\ abort'[s] = "none"
                    /\ s \in proofs' /\ lease'[s].state = "closed"
  BY DEF CompleteMeansPassed
<1>1. CASE CloseLease(s)
  <2>1. /\ UNCHANGED <<delivery, dispatch, attempt, abort, proofs>>
        /\ attempt[s] = "completed" /\ abort[s] = "none" /\ s \in proofs /\ dispatch[s] = "done"
    BY <1>1 DEF CloseLease, CloseReady, CompletedDemo, demoVars, endVars
  <2>2. lease'[s].state = "closed"
    BY <1>1 DEF CloseLease, Close, StateAfterClose, SiteInv, SiteTypeOK, LeaseRow
  <2> QED BY <2>1, <2>2 DEF RouteRows
<1>2. CASE attested[s] = "complete"
  <2>1. /\ delivery[s] = "test" /\ dispatch[s] = "done" /\ attempt[s] = "completed"
        /\ abort[s] = "none" /\ s \in proofs /\ lease[s].state = "closed"
    BY <1>2 DEF CompleteMeansPassed
  <2>2. delivery'[s] = "test" /\ dispatch'[s] = "done"
    BY <2>1, RowSteps
  <2>3. lease'[s].state = "closed"
    BY <2>1, ClosedStays
  <2>4. attempt'[s] = "completed"
    <3>1. \/ UNCHANGED attempt
          \/ \E r \in Request : attempt[r] # "completed" /\ \E how : attempt' = [attempt EXCEPT ![r] = how]
      BY WorkflowFrame, PrepareFrame, MarkFrame, RouteFrame, ScanFrame
         DEF Next, Tick, demoVars, vars
    <3> QED BY <2>1, <3>1 DEF DemoTypeOK
  <2>5. abort'[s] = "none" /\ s \in proofs'
    <3>1. \/ UNCHANGED <<abort, proofs>>
          \/ \E r \in Request : FailedSetup(r) \/ AbortBlocked(r) \/ PublishProofs(r)
      BY WorkflowFrame, PrepareFrame, MarkFrame, RouteFrame, ScanFrame
         DEF Next, Tick, endVars, vars
    <3> QED BY <2>1, <3>1 DEF FailedSetup, AbortBlocked, PublishProofs, HasAttempt, DemoTypeOK
  <2> QED BY <2>2, <2>3, <2>4, <2>5
<1> QED BY <1>1, <1>2, RowSteps
-----------------------------------------------------------------------------
DemoInv == /\ SiteInv
           /\ DemoTypeOK
           /\ LeasedWasGranted
           /\ StoppedMeansStopped
           /\ RouteRows
           /\ AcceptedWorkIsFinished
           /\ CompleteMeansPassed

\* Empty tables satisfy the invariant.
LEMMA DemoInitInv == Init => DemoInv
<1> SUFFICES ASSUME Init PROVE DemoInv
  OBVIOUS
<1>1. SiteInv
  BY SiteInitInv DEF Init
<1>2. DemoTypeOK
  BY DEF Init, DemoTypeOK
<1> QED
  BY <1>1, <1>2 DEF Init, SiteInit, DemoInv, LeasedWasGranted, StoppedMeansStopped, RouteRows,
     AcceptedWorkIsFinished, CompleteMeansPassed

\* Every step keeps the invariant.
LEMMA DemoStepInv == DemoInv /\ [Next]_vars => DemoInv'
<1> SUFFICES ASSUME DemoInv, [Next]_vars PROVE DemoInv'
  OBVIOUS
<1> USE DEF DemoInv
<1>1. SiteInv'
  BY StepIsSiteStep, SiteStepInv
<1>2. DemoTypeOK'
  BY DemoTypeStep
<1>3. RouteRows'
  <2>1. CASE Request = {}
    BY <2>1 DEF RouteRows
  <2> QED BY <2>1, RowSteps
<1> QED BY <1>1, <1>2, <1>3, GrantedStep, StoppedStep, AcceptedStep, CompleteStep

(* The demo, the marker, the webhook and the cleanup use the lease only as  *)
(* its protocol allows (src/src/shared-test-*.ts, all statements that write *)
(* test_environment or test_leases).                                        *)
THEOREM SharedTestUsesSite == Spec => SiteSpec
<1>1. Init => SiteInit
  BY DEF Init
<1> QED BY <1>1, StepIsSiteStep, PTL DEF Spec, SiteSpec

(* The inductive invariant of the shared test environment.                  *)
THEOREM DemoInvariance == Spec => []DemoInv
<1> QED BY DemoInitInv, DemoStepInv, PTL DEF Spec

(* All rows keep their types.                                               *)
THEOREM SharedTestTypeCorrect == Spec => []TypeOK
<1>1. DemoInv => TypeOK
  BY DEF DemoInv, SiteInv, TypeOK
<1> QED BY <1>1, DemoInvariance, PTL

(* Site and lease rows agree about the owner in the whole environment.      *)
THEOREM SharedTestOneOwner == Spec => []OneOwner
  BY SharedTestUsesSite, SiteOneOwner, PTL

(* Nobody overtakes an older waiter, although scans overlap.                *)
THEOREM SharedTestFifo == Spec => []NoOvertaking
  BY SharedTestUsesSite, SiteFifo, PTL

(* Fence numbers are never shared.                                          *)
THEOREM SharedTestFences == Spec => []FencesAreTheOwners
  BY SharedTestUsesSite, SiteFences, PTL

(* A stopped lease is behind the fence for ever.                            *)
THEOREM SharedTestFencedForGood == Spec => []FencedForGood
  BY SharedTestUsesSite, SiteFencedForGood, PTL

(* A stopped lease has no live expectation and no open session, whatever    *)
(* calls were under way when it was stopped.                                *)
THEOREM Stopped == Spec => []StoppedMeansStopped
<1>1. DemoInv => StoppedMeansStopped
  BY DEF DemoInv
<1> QED BY <1>1, DemoInvariance, PTL

(* Accepted work is finished and attested before the site is cleaned.       *)
THEOREM AcceptedFinished == Spec => []AcceptedWorkIsFinished
<1>1. DemoInv => AcceptedWorkIsFinished
  BY DEF DemoInv
<1> QED BY <1>1, DemoInvariance, PTL

(* Only a demo that passed has a complete attestation.                      *)
THEOREM CompletePassed == Spec => []CompleteMeansPassed
<1>1. DemoInv => CompleteMeansPassed
  BY DEF DemoInv
<1> QED BY <1>1, DemoInvariance, PTL

(* If create calls end before the cleanup of their lease, the next owner    *)
(* meets nothing of the one before.                                         *)
THEOREM NothingLeft == ASSUME CallsEndInTime PROVE Spec => []NextOwnerMeetsNothing
<1> DEFINE Left == DemoInv /\ NoCallsInCleaning /\ NextOwnerMeetsNothing
<1>1. Init => Left
  BY DemoInitInv DEF Init, NoCallsInCleaning, NextOwnerMeetsNothing
<1>2. Left /\ [Next]_vars => Left'
  BY DemoStepInv, NothingStep, NoCallsStep DEF DemoInv
<1>3. Left => NextOwnerMeetsNothing
  OBVIOUS
<1> QED BY <1>1, <1>2, <1>3, PTL DEF Spec
=============================================================================
