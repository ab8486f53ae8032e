----------------------------- MODULE SharedTest -----------------------------
(***************************************************************************)
(* The shared test environment around the lease of TestSite: workflow      *)
(* runs that wait at the node shared_test_demo, the demo attempt, the      *)
(* provider items created for a lease, the [marker] an agent writes into   *)
(* the Linear issue and the webhook it provokes, the Queue consumer that   *)
(* turns that webhook into an attestation, and the scheduled scan that     *)
(* cleans up.  A scan runs every minute, scans may overlap and an error    *)
(* ends one: each step of a scan is an action guarded by what it reads.    *)
(* Provider calls are in flight between two actions; replies may be lost.  *)
(***************************************************************************)
EXTENDS TestSite

CONSTANTS Item,             \* provider items of a lease (Workers, D1, R2)
          CallsEndInTime    \* a create issued before the fence has landed or
                            \* failed before the cleanup of its lease begins

ASSUME ItemsFinite == IsFiniteSet(Item)
ASSUME CallsEndInTimeIsBoolean == CallsEndInTime \in BOOLEAN

VARIABLES run,          \* run[r]: whether the workflow run of r is still at the demo
                        \* node with the candidate it asked for
          attempt,      \* attempt[r]: the demo attempt the lease names
          retried,      \* leases whose blocked attempt was replaced once
          fault,        \* leases with a saved fault of phase preparing or active
          item,         \* item[r][i]: the test_resources row
          creating,     \* <<r, i>>: create calls in flight
          remote,       \* <<r, i>>: what the provider has
          event,        \* event[r]: the expectation of a marked webhook
          insert,       \* insert[r]: where a call of insert() stands
          insertOp,     \* insertOp[r]: the plan row of the insert
          removeOp,     \* removeOp[r]: the plan row of the removal
          marked,       \* leases whose mark is in the issue's description
          delivery,     \* delivery[r]: the webhook of the mark
          dispatch,     \* dispatch[r]: its row for the Queue
          message,      \* leases with a message in the Queue
          attested,     \* attested[r]: the attestation row
          identity,     \* identity[r]: the Access identities of the lease
          session,      \* session[r]: the app sessions of the lease
          proofs,       \* leases whose first proof set was published and read back
          abort         \* abort[r]: the test_lease_aborts row

demoVars == <<run, attempt, retried, fault>>
itemVars == <<item, creating, remote>>
markVars == <<insert, insertOp, removeOp, marked>>
routeVars == <<delivery, dispatch, message, attested>>
accessVars == <<identity, session>>
endVars == <<proofs, abort>>

vars == <<siteVars, demoVars, itemVars, markVars, event, routeVars, accessVars, endVars>>

DemoTypeOK ==
  /\ run \in [Request -> {"demo", "over"}]
  /\ attempt \in [Request -> {"none", "chosen", "running", "completed", "blocked"}]
  /\ retried \subseteq Request /\ fault \subseteq Request
  /\ item \in [Request -> [Item -> {"unplanned", "planned", "creating", "created",
                                    "uncertain", "absent"}]]
  /\ creating \subseteq Request \X Item /\ remote \subseteq Request \X Item
  /\ event \in [Request -> {"none", "live", "claimed", "disabled"}]
  /\ insert \in [Request -> {"idle", "allowed", "planned", "writing", "answered"}]
  /\ insertOp \in [Request -> {"none", "planned", "running", "done"}]
  /\ removeOp \in [Request -> {"none", "planned", "done", "absent"}]
  /\ marked \subseteq Request /\ message \subseteq Request
  /\ delivery \in [Request -> {"none", "sent", "test", "ordinary"}]
  /\ dispatch \in [Request -> {"none", "pending", "claimed", "overdue", "done"}]
  /\ attested \in [Request -> {"none", "observed", "complete"}]
  /\ identity \in [Request -> {"none", "given", "absent"}]
  /\ session \in [Request -> {"none", "open", "revoked"}]
  /\ proofs \subseteq Request
  /\ abort \in [Request -> {"none", "failed_setup", "blocked_demo"}]

TypeOK == SiteTypeOK /\ DemoTypeOK

Init ==
  /\ SiteInit
  /\ run = [r \in Request |-> "demo"]
  /\ attempt = [r \in Request |-> "none"]
  /\ item = [r \in Request |-> [i \in Item |-> "unplanned"]]
  /\ retried = {} /\ fault = {} /\ creating = {} /\ remote = {}
  /\ event = [r \in Request |-> "none"]
  /\ insert = [r \in Request |-> "idle"]
  /\ insertOp = [r \in Request |-> "none"] /\ removeOp = [r \in Request |-> "none"]
  /\ marked = {} /\ message = {} /\ proofs = {}
  /\ delivery = [r \in Request |-> "none"] /\ dispatch = [r \in Request |-> "none"]
  /\ attested = [r \in Request |-> "none"]
  /\ identity = [r \in Request |-> "none"] /\ session = [r \in Request |-> "none"]
  /\ abort = [r \in Request |-> "none"]
-----------------------------------------------------------------------------
(* The workflow run at the node shared_test_demo.                            *)

Ask(r) == /\ run[r] = "demo"
          /\ Enqueue(r)
          /\ UNCHANGED <<demoVars, itemVars, markVars, event, routeVars, accessVars, endVars>>

LeaveDemo(r) == /\ run[r] = "demo"
                /\ run' = [run EXCEPT ![r] = "over"]
                /\ UNCHANGED <<siteVars, attempt, retried, fault, itemVars, markVars, event,
                               routeVars, accessVars, endVars>>

Beats(r) == run[r] = "demo" /\ lease[r].state \in Live

\* The refused heartbeat is saved as a fault of the lease and fails the node.
HeartbeatFenced(r) == /\ Beats(r)
                      /\ ~Unexpired(r)
                      /\ fault' = fault \cup {r}
                      /\ run' = [run EXCEPT ![r] = "over"]
                      /\ UNCHANGED <<siteVars, attempt, retried, itemVars, markVars, event,
                                     routeVars, accessVars, endVars>>

\* The site is read, then the agent's context is prepared, then the row is written
\* without reading the site again.
ChooseAttempt(r) == /\ run[r] = "demo"
                    /\ MayWrite(r)
                    /\ attempt[r] = "none"
                    /\ attempt' = [attempt EXCEPT ![r] = "chosen"]
                    /\ UNCHANGED <<siteVars, run, retried, fault, itemVars, markVars, event,
                                   routeVars, accessVars, endVars>>

SetAttempt(r, from, to) ==
  /\ attempt[r] = from
  /\ attempt' = [attempt EXCEPT ![r] = to]
  /\ UNCHANGED <<siteVars, run, retried, fault, itemVars, markVars, event,
                 routeVars, accessVars, endVars>>

StartAttempt(r) == SetAttempt(r, "chosen", "running")
AbandonAttempt(r) == SetAttempt(r, "chosen", "none")

\* The attempt ends and its Sandbox is destroyed.
EndAttempt(r, how) == SetAttempt(r, "running", how)

\* One replacement of a blocked attempt per lease, before anything was delivered.
\* A call of insert() that has not written yet is refused from now on: the checks
\* before its writes name the attempt.
RetryDemo(r) == /\ MayWrite(r)
                /\ attempt[r] = "blocked" /\ r \notin retried
                /\ delivery[r] # "test" /\ r \notin proofs
                /\ attempt' = [attempt EXCEPT ![r] = "none"]
                /\ retried' = retried \cup {r}
                /\ session' = [session EXCEPT ![r] = IF @ = "open" THEN "revoked" ELSE @]
                /\ insert' = [insert EXCEPT ![r] = IF @ \in {"allowed", "planned"} THEN "idle" ELSE @]
                /\ UNCHANGED <<siteVars, run, fault, itemVars, insertOp, removeOp, marked, event,
                               routeVars, identity, endVars>>

HasAttempt(r) == attempt[r] \notin {"none", "chosen"}
-----------------------------------------------------------------------------
(* The scan: the queue, the grant, preparation and activation.               *)

\* Any step of a scan may fail; the fault is saved with the phase of the site.
SetupFault(r) == /\ HoldsFence(r)
                 /\ fault' = fault \cup {r}
                 /\ UNCHANGED <<siteVars, run, attempt, retried, itemVars, markVars, event,
                                routeVars, accessVars, endVars>>

ExpireTerminalHead(r) ==
  /\ run[r] # "demo"
  /\ attempt[r] # "running"
  /\ \E state \in {"canceled", "superseded"} : Retire(r, state)
  /\ UNCHANGED <<demoVars, itemVars, markVars, event, routeVars, accessVars, endVars>>

GrantHead(r) == /\ run[r] = "demo"
                /\ Grant(r)
                /\ UNCHANGED <<demoVars, itemVars, markVars, event, routeVars, accessVars, endVars>>

Plan(r, i) == /\ Unexpired(r) /\ site.state = "preparing"
              /\ item[r][i] = "unplanned"
              /\ item' = [item EXCEPT ![r][i] = "planned"]
              /\ UNCHANGED <<siteVars, demoVars, creating, remote, markVars, event, routeVars,
                             accessVars, endVars>>

\* Mutant: the row is taken over without asking whether the lease still holds.
BeginCreateUnfenced(r, i) ==
  /\ item[r][i] \in {"planned", "creating", "uncertain", "created"}
  /\ item[r][i] = "planned" => <<r, i>> \notin remote
  /\ creating' = creating \cup {<<r, i>>}
  /\ item' = [item EXCEPT ![r][i] = IF @ = "planned" THEN "creating" ELSE @]
  /\ UNCHANGED <<siteVars, demoVars, remote, markVars, event, routeVars, accessVars, endVars>>

\* A second scan that read the row as planned gets the row back and calls create too.
BeginCreate(r, i) ==
  /\ Unexpired(r) /\ site.state = "preparing"
  /\ item[r][i] \in {"planned", "creating", "uncertain", "created"}
  /\ item[r][i] = "planned" => <<r, i>> \notin remote
  /\ creating' = creating \cup {<<r, i>>}
  /\ item' = [item EXCEPT ![r][i] = IF @ = "planned" THEN "creating" ELSE @]
  /\ UNCHANGED <<siteVars, demoVars, remote, markVars, event, routeVars, accessVars, endVars>>

\* The reply is lost with the caller, or read and saved if the lease still holds.
CreateLands(r, i) ==
  /\ <<r, i>> \in creating
  /\ creating' = creating \ {<<r, i>>}
  /\ remote' = remote \cup {<<r, i>>}
  /\ \/ item' = item
     \/ item' = [item EXCEPT ![r][i] = IF @ = "creating" THEN "uncertain" ELSE @]
     \/ /\ HoldsFence(r) /\ item[r][i] \in {"creating", "uncertain"}
        /\ item' = [item EXCEPT ![r][i] = "created"]
  /\ UNCHANGED <<siteVars, demoVars, markVars, event, routeVars, accessVars, endVars>>

CreateFails(r, i) ==
  /\ <<r, i>> \in creating
  /\ creating' = creating \ {<<r, i>>}
  /\ item' = [item EXCEPT ![r][i] = IF @ = "creating" THEN "uncertain" ELSE @]
  /\ UNCHANGED <<siteVars, demoVars, remote, markVars, event, routeVars, accessVars, endVars>>

Reconcile(r, i) ==
  /\ HoldsFence(r) /\ site.state = "preparing"
  /\ item[r][i] \in {"creating", "uncertain"} /\ <<r, i>> \in remote
  /\ item' = [item EXCEPT ![r][i] = "created"]
  /\ UNCHANGED <<siteVars, demoVars, creating, remote, markVars, event, routeVars,
                 accessVars, endVars>>

ActivateLease(r) ==
  /\ \A i \in Item : item[r][i] = "created"
  /\ Activate(r)
  /\ UNCHANGED <<demoVars, itemVars, markVars, event, routeVars, accessVars, endVars>>

GiveIdentity(r) == /\ MayWrite(r)
                   /\ identity[r] = "none"
                   /\ identity' = [identity EXCEPT ![r] = "given"]
                   /\ UNCHANGED <<siteVars, demoVars, itemVars, markVars, event, routeVars,
                                  session, endVars>>

OpenSession(r) == /\ MayWrite(r) /\ attempt[r] = "running" /\ identity[r] = "given"
                  /\ session' = [session EXCEPT ![r] = "open"]
                  /\ UNCHANGED <<siteVars, demoVars, itemVars, markVars, event, routeVars,
                                 identity, endVars>>
-----------------------------------------------------------------------------
(* insert(): the agent's capability call that writes the mark.               *)

AtInsert(r, from, to) ==
  /\ insert[r] = from
  /\ insert' = [insert EXCEPT ![r] = to]
  /\ UNCHANGED <<siteVars, demoVars, itemVars, removeOp, accessVars, endVars>>

InsertAllowed(r) == /\ attempt[r] = "running" /\ MayWrite(r)
                    /\ AtInsert(r, "idle", "allowed")
                    /\ UNCHANGED <<insertOp, marked, event, routeVars>>

\* A mark that is already in the text settles the plan of an earlier call.
InsertReconciles(r) == /\ event[r] \in {"live", "claimed"} /\ r \in marked
                       /\ AtInsert(r, "allowed", "idle")
                       /\ insertOp' = [insertOp EXCEPT ![r] = "done"]
                       /\ UNCHANGED <<marked, event, routeVars>>

MayExpect(r) == event[r] = "none" /\ MayWrite(r)

\* The batch: the expectation, and the plan row if the expectation is live.
InsertPlans(r) ==
  /\ r \notin marked
  /\ MayExpect(r) \/ event[r] \in {"live", "claimed"}
  /\ AtInsert(r, "allowed", "planned")
  /\ event' = [event EXCEPT ![r] = IF @ = "none" THEN "live" ELSE @]
  /\ insertOp' = [insertOp EXCEPT ![r] =
                    IF @ = "none" /\ event'[r] = "live" THEN "planned" ELSE @]
  /\ UNCHANGED <<marked, routeVars>>

\* The plan is marked running, then the right to write is checked once more.
InsertWrites(r) ==
  /\ insertOp' = [insertOp EXCEPT ![r] = IF @ = "planned" THEN "running" ELSE @]
  /\ AtInsert(r, "planned", IF MayWrite(r) THEN "writing" ELSE "idle")
  /\ UNCHANGED <<marked, event, routeVars>>

\* Linear stores the description and sends its webhook; the reply may be lost.
InsertLands(r) == \E to \in {"answered", "idle"} :
  /\ AtInsert(r, "writing", to)
  /\ marked' = marked \cup {r}
  /\ delivery' = [delivery EXCEPT ![r] = IF @ = "none" THEN "sent" ELSE @]
  /\ UNCHANGED <<insertOp, event, dispatch, message, attested>>

InsertDone(r) == /\ AtInsert(r, "answered", "idle")
                 /\ insertOp' = [insertOp EXCEPT ![r] = IF @ = "none" THEN @ ELSE "done"]
                 /\ UNCHANGED <<marked, event, routeVars>>

\* The call is refused, or it and an unlanded write are lost.
InsertLost(r) == \E from \in {"allowed", "planned", "writing", "answered"} :
  /\ AtInsert(r, from, "idle")
  /\ UNCHANGED <<insertOp, marked, event, routeVars>>
-----------------------------------------------------------------------------
(* route() and the Queue consumer.                                           *)

\* The claim, the delivery row and its dispatch row are one batch; a webhook
\* that matches no live expectation takes the ordinary route.
Route(r) ==
  /\ delivery[r] = "sent"
  /\ IF event[r] = "live" /\ HoldsFence(r) /\ site.state = "active"
     THEN /\ event' = [event EXCEPT ![r] = "claimed"]
          /\ delivery' = [delivery EXCEPT ![r] = "test"]
          /\ dispatch' = [dispatch EXCEPT ![r] = "pending"]
     ELSE /\ delivery' = [delivery EXCEPT ![r] = "ordinary"]
          /\ UNCHANGED <<event, dispatch>>
  /\ UNCHANGED <<siteVars, demoVars, itemVars, markVars, message, attested, accessVars, endVars>>

\* dispatch() after the route, and the replay each minute.
\* Mutant: claimed rows are not replayed.
ReplayStatesPendingOnly == {"pending"}

ReplayStates == {"pending", "claimed", "overdue"}

Replay(r) == /\ dispatch[r] \in ReplayStates
             /\ message' = message \cup {r}
             /\ UNCHANGED <<siteVars, demoVars, itemVars, markVars, event, delivery, dispatch,
                            attested, accessVars, endVars>>

Claimable(r) == r \in message /\ dispatch[r] \in {"pending", "overdue"}

ConsumerUnchanged == UNCHANGED <<siteVars, demoVars, itemVars, markVars, event, delivery,
                                 accessVars, endVars>>

\* Claim, read, and the batch with the attestation and the result.
Consume(r) == /\ Claimable(r)
              /\ dispatch' = [dispatch EXCEPT ![r] = "done"]
              /\ attested' = [attested EXCEPT ![r] = IF @ = "none" THEN "observed" ELSE @]
              /\ message' = message \ {r}
              /\ ConsumerUnchanged

\* The consumer is lost after its claim.  The Queue may redeliver the message.
ConsumerDies(r) == /\ Claimable(r)
                   /\ dispatch' = [dispatch EXCEPT ![r] = "claimed"]
                   /\ UNCHANGED <<message, attested>>
                   /\ ConsumerUnchanged

ClaimEnds(r) == /\ dispatch[r] = "claimed"
                /\ dispatch' = [dispatch EXCEPT ![r] = "overdue"]
                /\ UNCHANGED <<message, attested>>
                /\ ConsumerUnchanged

\* A message for a row that is done or claimed by somebody else is acknowledged.
AckMessage(r) == /\ r \in message /\ dispatch[r] \in {"claimed", "done"}
                 /\ message' = message \ {r}
                 /\ UNCHANGED <<dispatch, attested>>
                 /\ ConsumerUnchanged
-----------------------------------------------------------------------------
(* The scan: stopping the owner.                                             *)

SessionAfterStop(s) == IF s = "open" THEN "revoked" ELSE s

\* Mutant: only unclaimed expectations are disabled.
EventAfterStopLive(e) == IF e = "live" THEN "disabled" ELSE e

EventAfterStop(e) == IF e = "none" THEN e ELSE "disabled"

StopLease(r) ==
  /\ Stop(r)
  /\ event' = [event EXCEPT ![r] = EventAfterStop(@)]
  /\ session' = [session EXCEPT ![r] = SessionAfterStop(@)]
  /\ UNCHANGED <<demoVars, itemVars, markVars, routeVars, identity, endVars>>

FenceExpired(r) == site.due = "late" /\ StopLease(r)

CompletedDemo(r) == attempt[r] = "completed" /\ abort[r] = "none"

\* External: the drivers that publish the first proofs and read them back.
PublishProofs(r) == /\ site.owner = r /\ site.state \in {"active", "quiescing"}
                    /\ HasAttempt(r)
                    /\ proofs' = proofs \cup {r}
                    /\ UNCHANGED <<siteVars, demoVars, itemVars, markVars, event, routeVars,
                                   accessVars, abort>>

QuiesceAfterProof(r) == /\ attempt[r] = "completed" /\ r \in proofs
                        /\ attested[r] = "observed" /\ dispatch[r] = "done"
                        /\ site.state = "active"
                        /\ StopLease(r)

\* An operator retires a blocked demo: stop, save the evidence, save the abort.
QuiesceBlocked(r) == attempt[r] = "blocked" /\ site.state = "active" /\ StopLease(r)

AbortBlocked(r) == /\ site.owner = r /\ site.state = "quiescing" /\ site.saved = "active"
                   /\ attempt[r] = "blocked" /\ abort[r] = "none"
                   /\ attested[r] # "complete"
                   /\ abort' = [abort EXCEPT ![r] = "blocked_demo"]
                   /\ UNCHANGED <<siteVars, demoVars, itemVars, markVars, event, routeVars,
                                  accessVars, proofs>>

NothingTested(r) == /\ event[r] = "none" /\ insertOp[r] = "none" /\ removeOp[r] = "none"
                    /\ delivery[r] # "test" /\ attested[r] = "none"

\* A setup whose demo never began; it needs the fault that stopped the setup.
FailedSetup(r) == /\ site.owner = r /\ site.state = "quiescing"
                  /\ ~HasAttempt(r) /\ abort[r] = "none" /\ NothingTested(r)
                  /\ r \in fault
                  /\ abort' = [abort EXCEPT ![r] = "failed_setup"]
                  /\ UNCHANGED <<siteVars, demoVars, itemVars, markVars, event, routeVars,
                                 accessVars, proofs>>
-----------------------------------------------------------------------------
(* The scan: cleanup of a fenced lease, resumed from the rows alone.         *)

\* An operator's evidence capture goes first.
Recovering(r) == /\ site.owner = r /\ site.state \in Fenced
                 /\ ~(attempt[r] = "blocked" /\ abort[r] = "none")

RevokeAccess(r) == /\ Recovering(r)
                   /\ session' = [session EXCEPT ![r] = SessionAfterStop(@)]
                   /\ identity' = [identity EXCEPT ![r] = IF @ = "given" THEN "absent" ELSE @]
                   /\ UNCHANGED <<siteVars, demoVars, itemVars, markVars, event, routeVars,
                                  endVars>>

AccessRevoked(r) == session[r] # "open" /\ identity[r] # "given"

\* disableAndRemove() first disables the expectation; it is disabled since the fence.
Remove(r, op) == /\ Recovering(r) /\ AccessRevoked(r)
                 /\ event[r] # "none" /\ removeOp[r] \in {"none", "planned"}
                 /\ event' = [event EXCEPT ![r] = "disabled"]
                 /\ removeOp' = [removeOp EXCEPT ![r] = op]
                 /\ UNCHANGED <<siteVars, demoVars, itemVars, insert, insertOp, routeVars,
                                accessVars, endVars>>

MarkerAbsent(r) == r \notin marked /\ Remove(r, "absent") /\ UNCHANGED marked

PlanRemoval(r) == r \in marked /\ Remove(r, "planned") /\ UNCHANGED marked

\* The write of the text without the mark; its reply may be lost.
RemoveMarker(r) == /\ r \in marked /\ removeOp[r] = "planned"
                   /\ \E op \in {"planned", "done"} : Remove(r, op)
                   /\ marked' = marked \ {r}

MarkerSettled(r) == event[r] = "none" \/ removeOp[r] \in {"done", "absent"}

\* Mutant: accepted work may still be open.
TestSettledEarly(r) == event[r] \in {"none", "disabled"}

TestSettled(r) == /\ event[r] \in {"none", "disabled"}
                  /\ dispatch[r] \in {"none", "done"}

OperationsEnded(r) == /\ insertOp[r] \in {"none", "done"}
                      /\ removeOp[r] \in {"none", "done", "absent"}

\* What cleaningFailedSetup, the resource cleanup and abortFailedSetup all ask.
AbortReady(r) ==
  \/ /\ abort[r] = "blocked_demo" /\ attempt[r] = "blocked" /\ lease[r].activated
     /\ attested[r] # "complete" /\ TestSettled(r) /\ OperationsEnded(r)
  \/ /\ abort[r] = "failed_setup" /\ NothingTested(r)
     /\ lease[r].activated => ~HasAttempt(r)

Ready(r) == \/ CompletedDemo(r) /\ r \in proofs
            \/ AbortReady(r)

CallsOver(r) == CallsEndInTime => \A i \in Item : <<r, i>> \notin creating

StartCleaning(r) ==
  /\ Recovering(r) /\ AccessRevoked(r) /\ MarkerSettled(r)
  /\ \/ /\ CompletedDemo(r) /\ r \in proofs /\ TestSettled(r)
        /\ Clean(r, "cleaning")
     \/ AbortReady(r) /\ Clean(r, site.saved)
  /\ CallsOver(r)
  /\ UNCHANGED <<demoVars, itemVars, markVars, event, routeVars, accessVars, endVars>>

Cleaning(r) == Recovering(r) /\ site.state = "cleaning" /\ Ready(r)

\* An item without a plan row, or only planned, that exists anyway is never removed.
RemoveItem(r, i) == /\ Cleaning(r)
                    /\ item[r][i] \in {"creating", "created", "uncertain"}
                    /\ <<r, i>> \in remote
                    /\ remote' = remote \ {<<r, i>>}
                    /\ UNCHANGED <<siteVars, demoVars, item, creating, markVars, event, routeVars,
                                   accessVars, endVars>>

\* Mutant: only a created item is ever found absent.
FoundAbsentCreated(r, i) == item[r][i] = "created" /\ <<r, i>> \notin remote

FoundAbsent(r, i) == item[r][i] \notin {"unplanned", "absent"} /\ <<r, i>> \notin remote

ItemAbsent(r, i) == /\ Cleaning(r)
                    /\ FoundAbsent(r, i)
                    /\ item' = [item EXCEPT ![r][i] = "absent"]
                    /\ UNCHANGED <<siteVars, demoVars, creating, remote, markVars, event,
                                   routeVars, accessVars, endVars>>

\* Each cleanup pass looks every item up again before the site is closed.
ItemsGone(r) == \A i \in Item : item[r][i] \in {"unplanned", "absent"} /\ <<r, i>> \notin remote

Settled(r) == /\ Cleaning(r) /\ ItemsGone(r) /\ AccessRevoked(r)
              /\ TestSettled(r) /\ OperationsEnded(r)

\* Mutant: a close that does not ask whether the lease was aborted.
CloseReadyAnyway(r) == Settled(r) /\ attested[r] = "observed" /\ dispatch[r] = "done"

CloseReady(r) == /\ Settled(r) /\ CompletedDemo(r) /\ r \in proofs
                 /\ attested[r] = "observed" /\ dispatch[r] = "done"

CloseLease(r) == /\ CloseReady(r)
                 /\ Close(r)
                 /\ attested' = [attested EXCEPT ![r] = "complete"]
                 /\ UNCHANGED <<demoVars, itemVars, markVars, event, delivery, dispatch, message,
                                accessVars, endVars>>

CloseAborted(r) == /\ Settled(r) /\ AbortReady(r)
                   /\ Close(r)
                   /\ UNCHANGED <<demoVars, itemVars, markVars, event, routeVars, accessVars,
                                  endVars>>
-----------------------------------------------------------------------------
WorkflowStep(r) ==
  \/ Ask(r) \/ LeaveDemo(r) \/ HeartbeatFenced(r) \/ ChooseAttempt(r) \/ StartAttempt(r)
  \/ AbandonAttempt(r) \/ RetryDemo(r) \/ OpenSession(r)
  \/ \E how \in {"completed", "blocked"} : EndAttempt(r, how)

PrepareStep(r) ==
  \/ SetupFault(r) \/ GrantHead(r) \/ ActivateLease(r) \/ GiveIdentity(r)
  \/ \E i \in Item : \/ Plan(r, i) \/ BeginCreate(r, i) \/ CreateLands(r, i)
                     \/ CreateFails(r, i) \/ Reconcile(r, i)

MarkStep(r) == InsertAllowed(r) \/ InsertReconciles(r) \/ InsertPlans(r) \/ InsertWrites(r)
               \/ InsertLands(r) \/ InsertDone(r) \/ InsertLost(r)

RouteStep(r) == Route(r) \/ Replay(r) \/ Consume(r) \/ ConsumerDies(r) \/ ClaimEnds(r)
                \/ AckMessage(r)

\* The steps a scan takes when it can: cleanup never waits for the lease's own run.
ScanStep(r) ==
  \/ ExpireTerminalHead(r) \/ FenceExpired(r) \/ QuiesceAfterProof(r) \/ FailedSetup(r)
  \/ RevokeAccess(r) \/ MarkerAbsent(r) \/ PlanRemoval(r) \/ RemoveMarker(r)
  \/ StartCleaning(r) \/ CloseLease(r) \/ CloseAborted(r)
  \/ \E i \in Item : RemoveItem(r, i) \/ ItemAbsent(r, i)

OperatorStep(r) == QuiesceBlocked(r) \/ AbortBlocked(r) \/ PublishProofs(r)

Tick == HeartbeatLapses /\ UNCHANGED <<demoVars, itemVars, markVars, event, routeVars, accessVars,
                                  endVars>>

Next == \/ Tick
        \/ \E r \in Request : \/ WorkflowStep(r) \/ PrepareStep(r) \/ MarkStep(r)
                              \/ RouteStep(r) \/ ScanStep(r) \/ OperatorStep(r)

Spec == Init /\ [][Next]_vars

\* The cron scans every minute and repeats what failed; create calls and calls of
\* insert() end; the replay repeats each minute, and not every consumer is lost.
Fairness == \A r \in Request :
  /\ WF_vars(ExpireTerminalHead(r)) /\ WF_vars(FenceExpired(r)) /\ WF_vars(FailedSetup(r))
  /\ WF_vars(RevokeAccess(r)) /\ WF_vars(MarkerAbsent(r)) /\ WF_vars(PlanRemoval(r))
  /\ WF_vars(RemoveMarker(r)) /\ WF_vars(StartCleaning(r)) /\ WF_vars(CloseAborted(r))
  /\ WF_vars(CloseLease(r))
  /\ WF_vars(InsertDone(r) \/ InsertLost(r)) /\ WF_vars(StartAttempt(r) \/ AbandonAttempt(r))
  /\ WF_vars(ClaimEnds(r)) /\ WF_vars(Replay(r)) /\ SF_vars(Consume(r))
  /\ \A i \in Item : /\ WF_vars(RemoveItem(r, i)) /\ WF_vars(ItemAbsent(r, i))
                     /\ WF_vars(CreateLands(r, i) \/ CreateFails(r, i))

FairSpec == Spec /\ Fairness
-----------------------------------------------------------------------------
(* Nothing of a lease works once its right to write ended: the batch that   *)
(* raises the fence disables the expectation and the sessions, and no call  *)
(* that was under way brings them back                                      *)
(* (src/src/shared-test-lease.ts, fenceExpired; shared-test-close.ts,       *)
(* quiesce; shared-test-marker-store.ts, insert).                           *)
StoppedMeansStopped == \A r \in Request : lease[r].state # "none" /\ ~HoldsFence(r)
                         => event[r] \notin {"live", "claimed"} /\ session[r] # "open"

(* What a lease created exists only while the lease owns the site, lost     *)
(* replies, overlapping scans and late calls included; so the next owner    *)
(* never meets it (src/src/shared-test-resource-cleanup.ts;                 *)
(* shared-test-close.ts, close and abortFailedSetup).                       *)
NextOwnerMeetsNothing == \A r \in Request : site.owner # r
                           => /\ \A i \in Item : <<r, i>> \notin remote \cup creating
                              /\ identity[r] # "given" /\ session[r] # "open"

(* A complete attestation is a demo that passed: its own webhook reached    *)
(* the test route and was processed, its attempt completed, its proofs were *)
(* read back, and the lease was never aborted                               *)
(* (src/src/shared-test-close.ts, close; shared-test-demo-completion.ts).   *)
CompleteMeansPassed == \A r \in Request : attested[r] = "complete"
                         => /\ delivery[r] = "test" /\ dispatch[r] = "done"
                            /\ attempt[r] = "completed" /\ abort[r] = "none"
                            /\ r \in proofs /\ lease[r].state = "closed"

(* Work the test route accepted is finished before the site is given up,    *)
(* and leaves its attestation (src/src/shared-test-close.ts, cleaning and   *)
(* cleaningFailedSetup; shared-test-queue.ts).                              *)
AcceptedWorkIsFinished == \A r \in Request :
  delivery[r] = "test" /\ lease[r].state \in {"cleaning", "closed"}
    => dispatch[r] = "done" /\ attested[r] # "none"

(* Every delivery the test route accepted is processed, although the Queue  *)
(* redelivers, consumers die between claim and result, and the site may be  *)
(* fenced meanwhile (src/src/shared-test-queue.ts;                          *)
(* src/src/deos/shared_test_route.py, replay).                              *)
EveryClaimIsProcessed == \A r \in Request : dispatch[r] = "pending" ~> dispatch[r] = "done"

(* A setup that stopped with a saved fault before anything was tested gives *)
(* the site back, whatever was created for it, unless a demo attempt began  *)
(* after all                                                                *)
(* (src/src/shared-test-failed-setup-proof.ts; shared-test-recovery.ts).    *)
FailedSetupFreesSite == \A r \in Request :
  site.owner = r /\ site.state = "quiescing" /\ r \in fault /\ NothingTested(r)
    ~> site.owner # r \/ HasAttempt(r)

=============================================================================
