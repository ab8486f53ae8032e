------------------------------ MODULE TestSite ------------------------------
(***************************************************************************)
(* The lease of the one shared test site: a FIFO queue of requests, one    *)
(* owner, and a fence number that grows whenever the site is granted and   *)
(* whenever its owner loses the right to write.  These are the four tables *)
(* test_lease_requests, test_environment, test_leases and                  *)
(* test_lease_fence_epochs.  A lease has the id of its request.            *)
(***************************************************************************)
EXTENDS Integers, FiniteSets

CONSTANTS Request, NoRequest

ASSUME RequestsFinite == IsFiniteSet(Request)
ASSUME NoRequestIsNoRequest == NoRequest \notin Request

VARIABLES request,      \* request[r]: the state of its row
          rank,         \* rank[r]: queue_number
          site,         \* the single test_environment row
          lease,        \* lease[r]: the test_leases row
          epochs        \* <<r, fence>>: the fences lease r has held

siteVars == <<request, rank, site, lease, epochs>>

Live == {"preparing", "active"}          \* phases in which the owner may work
Fenced == {"quiescing", "cleaning"}      \* phases in which it is cleaned up

SiteRow == [state : {"free"} \cup Live \cup Fenced, saved : {"none"} \cup Live \cup Fenced,
            owner : Request \cup {NoRequest}, fence : Nat, due : {"none", "ahead", "late"}]

LeaseRow == [state : {"none", "closed"} \cup Live \cup Fenced, fence : Nat, activated : BOOLEAN]

SiteTypeOK ==
  /\ request \in [Request -> {"none", "waiting", "granted", "canceled", "superseded"}]
  /\ rank \in [Request -> Nat]
  /\ site \in SiteRow
  /\ lease \in [Request -> LeaseRow]
  /\ epochs \in SUBSET (Request \X Nat)

SiteInit ==
  /\ request = [r \in Request |-> "none"]
  /\ rank = [r \in Request |-> 0]
  /\ site = [state |-> "free", saved |-> "none", owner |-> NoRequest, fence |-> 0, due |-> "none"]
  /\ lease = [r \in Request |-> [state |-> "none", fence |-> 0, activated |-> FALSE]]
  /\ epochs = {}
-----------------------------------------------------------------------------
Asked == {s \in Request : request[s] # "none"}

Enqueue(r) == /\ request[r] = "none"
              /\ request' = [request EXCEPT ![r] = "waiting"]
              /\ rank' = [rank EXCEPT ![r] = Cardinality(Asked) + 1]
              /\ UNCHANGED <<site, lease, epochs>>

\* Mutant: grant any waiting request.
IsAnyWaiter(r) == request[r] = "waiting"

IsHead(r) == /\ request[r] = "waiting"
             /\ \A s \in Request : request[s] = "waiting" => rank[r] <= rank[s]

GrantedFence == site.fence + 1

\* Mutant: the batch trusts the read that the scan began with.
SiteIsFreeUnread == TRUE

SiteIsFree == site.state = "free"

Grant(r) ==
  /\ SiteIsFree
  /\ IsHead(r)
  /\ request' = [request EXCEPT ![r] = "granted"]
  /\ site' = [state |-> "preparing", saved |-> "preparing", owner |-> r,
              fence |-> GrantedFence, due |-> "ahead"]
  /\ lease' = [lease EXCEPT ![r] = [state |-> "preparing", fence |-> GrantedFence,
                                    activated |-> FALSE]]
  /\ epochs' = epochs \cup {<<r, GrantedFence>>}
  /\ UNCHANGED rank

\* The row of a waiter whose run is over is closed without a lease.
Retire(r, state) == /\ IsHead(r)
                    /\ request' = [request EXCEPT ![r] = state]
                    /\ UNCHANGED <<rank, site, lease, epochs>>

HoldsFence(r) == site.owner = r /\ site.state \in Live /\ site.fence = lease[r].fence

Unexpired(r) == HoldsFence(r) /\ site.due # "late"

MayWrite(r) == Unexpired(r) /\ site.state = "active"

\* Two minutes without a heartbeat.  A heartbeat on time only moves the due date.
HeartbeatLapses == /\ site.due = "ahead"
                   /\ site' = [site EXCEPT !.due = "late"]
                   /\ UNCHANGED <<request, rank, lease, epochs>>

Activate(r) == /\ Unexpired(r)
               /\ site.state = "preparing"
               /\ site' = [site EXCEPT !.state = "active", !.saved = "active"]
               /\ lease' = [lease EXCEPT ![r].state = "active", ![r].activated = TRUE]
               /\ UNCHANGED <<request, rank, epochs>>

\* Mutant: the owner is stopped without raising the fence.
FenceAfterStopKept == site.fence

FenceAfterStop == site.fence + 1

\* The writes that fenceExpired and quiesce share.
Stop(r) == /\ HoldsFence(r)
           /\ site' = [site EXCEPT !.state = "quiescing", !.saved = site.state,
                                   !.fence = FenceAfterStop, !.due = "none"]
           /\ lease' = [lease EXCEPT ![r].state = "quiescing"]
           /\ epochs' = epochs \cup {<<r, FenceAfterStop>>}
           /\ UNCHANGED <<request, rank>>

\* A normal close records the phase it enters; an abort keeps the phase it left.
Clean(r, saved) == /\ site.owner = r
                   /\ site.state = "quiescing"
                   /\ site' = [site EXCEPT !.state = "cleaning", !.saved = saved]
                   /\ lease' = [lease EXCEPT ![r].state = "cleaning"]
                   /\ UNCHANGED <<request, rank, epochs>>

\* Mutant: the lease row gets the state of the site.
StateAfterCloseFree == "free"

StateAfterClose == "closed"

Close(r) == /\ site.owner = r
            /\ site.state = "cleaning"
            /\ site' = [site EXCEPT !.state = "free", !.saved = "none", !.owner = NoRequest,
                                    !.due = "none"]
            /\ lease' = [lease EXCEPT ![r].state = StateAfterClose]
            /\ UNCHANGED <<request, rank, epochs>>

SiteNext == \/ HeartbeatLapses
            \/ \E r \in Request :
                 \/ Enqueue(r) \/ Grant(r) \/ Activate(r) \/ Stop(r) \/ Close(r)
                 \/ \E state \in {"canceled", "superseded"} : Retire(r, state)
                 \/ \E saved \in {site.saved, "cleaning"} : Clean(r, saved)

SiteSpec == SiteInit /\ [][SiteNext]_siteVars
-----------------------------------------------------------------------------
(* The lease rows and the site row never disagree about who owns the site:  *)
(* they are written by different statements of several batches              *)
(* (src/src/shared-test-lease.ts, shared-test-activation.ts,                *)
(* shared-test-close.ts), each guarded by the other row.                    *)
OneOwner ==
  /\ site.owner = NoRequest <=> site.state = "free"
  /\ \A r \in Request : lease[r].state \in Live \cup Fenced <=> site.owner = r
  /\ \A r \in Request : site.owner = r => lease[r].state = site.state

(* A fence number belongs to one lease, none is ahead of the site, and the  *)
(* owner's current one is in its history: cleanup uses that history to tell *)
(* an item of this lease from another lease's                               *)
(* (src/src/shared-test-resources.ts, cleanupScope).                        *)
FencesAreTheOwners ==
  /\ \A x, y \in epochs : x[2] = y[2] => x[1] = y[1]
  /\ \A x \in epochs : 0 < x[2] /\ x[2] <= site.fence
  /\ \A r \in Request : lease[r].state # "none" => <<r, lease[r].fence>> \in epochs
  /\ site.owner # NoRequest => <<site.owner, site.fence>> \in epochs

(* First come, first served, even though waiters die and the site is        *)
(* granted by scans that may overlap: no request was granted the site while *)
(* an older one is still waiting (src/src/shared-test-lease.ts, grant).     *)
NoOvertaking == \A r, s \in Request : request[r] = "granted" /\ request[s] = "waiting"
                                        => rank[r] < rank[s]

(* A lease that was stopped stays stopped: its fence is behind the site's    *)
(* for ever, so a delayed call that names it can pass no check, whatever    *)
(* the state of the site by then (src/src/shared-test-lease.ts, assertWrite *)
(* and fenceExpired; src/src/shared-test-close.ts, quiesce).                *)
FencedForGood == \A r \in Request : lease[r].state \notin {"none"} \cup Live
                                      => lease[r].fence < site.fence
=============================================================================
