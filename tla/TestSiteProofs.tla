--------------------------- MODULE TestSiteProofs ---------------------------
(***************************************************************************)
(* The lease protocol of TestSite for any finite set of requests.  The     *)
(* properties are inductive together, with one addition: queue numbers     *)
(* count the requests, which is what makes the oldest waiter unique.       *)
(***************************************************************************)
EXTENDS TestSite, FiniteSetTheorems, TLAPS

\* No two requests have the same queue number and none is beyond the count.
RanksCount == \A r \in Asked : /\ rank[r] <= Cardinality(Asked)
                               /\ \A s \in Asked : rank[r] = rank[s] => r = s

SiteInv == /\ SiteTypeOK
           /\ RanksCount
           /\ NoOvertaking
           /\ OneOwner
           /\ FencesAreTheOwners
           /\ FencedForGood

\* The queue is as long as the set of requests made, which is finite.
LEMMA AskedCount == /\ IsFiniteSet(Asked)
                    /\ Cardinality(Asked) \in Nat
  BY RequestsFinite, FS_Subset, FS_CardinalityType DEF Asked

\* The empty tables and the free site satisfy the invariant.
LEMMA SiteInitInv == SiteInit => SiteInv
  BY NoRequestIsNoRequest DEF SiteInit, SiteInv, SiteTypeOK, SiteRow, LeaseRow, RanksCount, NoOvertaking,
     OneOwner, FencesAreTheOwners, FencedForGood, Asked, Live, Fenced

\* A request that is enqueued is younger than all others.
LEMMA EnqueueInv == ASSUME SiteInv, NEW r \in Request, Enqueue(r) PROVE SiteInv'
<1> USE DEF SiteInv
<1>1. Asked' = Asked \cup {r} /\ r \notin Asked
  BY DEF Enqueue, SiteTypeOK, Asked
<1>2. Cardinality(Asked') = Cardinality(Asked) + 1 /\ Cardinality(Asked) \in Nat
  BY <1>1, AskedCount, FS_AddElement
<1>3. SiteTypeOK'
  BY <1>2 DEF Enqueue, SiteTypeOK
<1>4. \A s \in Asked : rank'[s] = rank[s] /\ rank[s] \in Nat
  BY <1>1 DEF Enqueue, SiteTypeOK, Asked
<1>5. rank'[r] = Cardinality(Asked) + 1
  BY DEF Enqueue, SiteTypeOK
<1>6. RanksCount'
  BY <1>1, <1>2, <1>4, <1>5 DEF RanksCount
<1>7. NoOvertaking'
  <2> SUFFICES ASSUME NEW p \in Request, NEW q \in Request,
                      request'[p] = "granted", request'[q] = "waiting"
               PROVE  rank'[p] < rank'[q]
    BY DEF NoOvertaking
  <2>1. p # r /\ request[p] = "granted" /\ p \in Asked
    BY DEF Enqueue, SiteTypeOK, Asked
  <2>2. CASE q = r
    BY <1>2, <1>4, <1>5, <2>1, <2>2 DEF RanksCount
  <2>3. CASE q # r
    <3>1. request[q] = "waiting" /\ q \in Asked
      BY <2>3 DEF Enqueue, SiteTypeOK, Asked
    <3> QED BY <1>4, <2>1, <3>1 DEF NoOvertaking
  <2> QED BY <2>2, <2>3
<1>8. (OneOwner /\ FencesAreTheOwners /\ FencedForGood)'
  BY DEF Enqueue, OneOwner, FencesAreTheOwners, FencedForGood
<1> QED BY <1>3, <1>6, <1>7, <1>8

\* The state of a request that was made may change without touching the count.
LEMMA RanksKept ==
  ASSUME RanksCount, Asked' = Asked, rank' = rank
  PROVE  RanksCount'
  BY DEF RanksCount

\* The head of the queue is granted the free site under a new fence.
LEMMA GrantInv == ASSUME SiteInv, NEW r \in Request, Grant(r) PROVE SiteInv'
<1> USE DEF SiteInv
<1>0. /\ request[r] = "waiting" /\ site.state = "free" /\ site.owner = NoRequest
      /\ site.fence \in Nat /\ site' = [state |-> "preparing", saved |-> "preparing", owner |-> r,
                                        fence |-> site.fence + 1, due |-> "ahead"]
      /\ lease' = [lease EXCEPT ![r] = [state |-> "preparing", fence |-> site.fence + 1,
                                        activated |-> FALSE]]
      /\ epochs' = epochs \cup {<<r, site.fence + 1>>}
      /\ request' = [request EXCEPT ![r] = "granted"] /\ rank' = rank
  BY DEF Grant, GrantedFence, SiteIsFree, IsHead, OneOwner, SiteTypeOK, SiteRow, LeaseRow
<1>1. SiteTypeOK'
  BY <1>0 DEF SiteTypeOK, SiteRow, LeaseRow, Live
<1>2. Asked' = Asked
  BY <1>0 DEF SiteTypeOK, Asked
<1>3. RanksCount'
  BY <1>0, <1>2, RanksKept
<1>4. NoOvertaking'
  <2> SUFFICES ASSUME NEW p \in Request, NEW q \in Request,
                      request'[p] = "granted", request'[q] = "waiting"
               PROVE  rank[p] < rank[q]
    BY <1>0 DEF NoOvertaking
  <2>1. q # r /\ request[q] = "waiting" /\ q \in Asked /\ r \in Asked
    BY <1>0 DEF SiteTypeOK, Asked
  <2>2. rank[p] \in Nat /\ rank[q] \in Nat
    BY DEF SiteTypeOK
  <2>3. CASE p = r
    BY <2>1, <2>2, <2>3 DEF Grant, IsHead, RanksCount
  <2>4. CASE p # r
    BY <1>0, <2>1, <2>4 DEF NoOvertaking, SiteTypeOK
  <2> QED BY <2>3, <2>4
<1>5. \A s \in Request : lease[s].state \notin Live \cup Fenced
  BY <1>0, NoRequestIsNoRequest DEF OneOwner
<1>6. OneOwner'
  BY <1>0, <1>5, NoRequestIsNoRequest DEF OneOwner, SiteTypeOK, Live, Fenced
<1>7. FencesAreTheOwners'
  <2>1. \A x \in epochs : x \in Request \X Nat /\ x[2] \in Nat /\ 0 < x[2] /\ x[2] <= site.fence
    BY DEF FencesAreTheOwners, SiteTypeOK
  <2>2. \A x, y \in epochs' : x[2] = y[2] => x[1] = y[1]
    BY <1>0, <2>1 DEF FencesAreTheOwners
  <2>3. \A x \in epochs' : 0 < x[2] /\ x[2] <= site'.fence
    BY <1>0, <2>1
  <2>4. \A s \in Request : lease'[s].state # "none" => <<s, lease'[s].fence>> \in epochs'
    BY <1>0 DEF FencesAreTheOwners, SiteTypeOK
  <2>5. site'.owner # NoRequest => <<site'.owner, site'.fence>> \in epochs'
    BY <1>0
  <2> QED BY <2>2, <2>3, <2>4, <2>5 DEF FencesAreTheOwners
<1>8. FencedForGood'
  <2> SUFFICES ASSUME NEW s \in Request, lease'[s].state \notin {"none"} \cup Live
               PROVE  lease'[s].fence < site'.fence
    BY DEF FencedForGood
  <2>1. s # r
    BY <1>0 DEF SiteTypeOK, Live
  <2>2. lease'[s] = lease[s] /\ lease[s].fence \in Nat
    BY <1>0, <2>1 DEF SiteTypeOK, LeaseRow
  <2>3. lease[s].fence < site.fence
    BY <2>2 DEF FencedForGood
  <2> QED BY <1>0, <2>2, <2>3
<1> QED BY <1>1, <1>3, <1>4, <1>6, <1>7, <1>8

\* A waiter that leaves the queue leaves the order of the others.
LEMMA RetireInv ==
  ASSUME SiteInv, NEW r \in Request, NEW state \in {"canceled", "superseded"}, Retire(r, state)
  PROVE  SiteInv'
<1> USE DEF SiteInv
<1>1. /\ request[r] = "waiting" /\ request' = [request EXCEPT ![r] = state]
      /\ UNCHANGED <<rank, site, lease, epochs>>
  BY DEF Retire, IsHead
<1>2. SiteTypeOK' /\ Asked' = Asked
  BY <1>1 DEF SiteTypeOK, Asked
<1>3. RanksCount'
  BY <1>1, <1>2, RanksKept
<1>4. NoOvertaking'
  BY <1>1 DEF NoOvertaking, SiteTypeOK
<1>5. (OneOwner /\ FencesAreTheOwners /\ FencedForGood)'
  BY <1>1 DEF OneOwner, FencesAreTheOwners, FencedForGood
<1> QED BY <1>2, <1>3, <1>4, <1>5

\* Steps that leave the queue and its order alone.
LEMMA QueueKept ==
  ASSUME SiteInv, UNCHANGED <<request, rank>>
  PROVE  RanksCount' /\ NoOvertaking'
  BY DEF SiteInv, RanksCount, NoOvertaking, Asked

\* The heartbeat only moves the due date.
LEMMA LapseInv == ASSUME SiteInv, HeartbeatLapses PROVE SiteInv'
<1> USE DEF SiteInv, HeartbeatLapses
<1>1. SiteTypeOK'
  BY DEF SiteTypeOK, SiteRow, LeaseRow
<1>2. /\ site'.state = site.state /\ site'.owner = site.owner /\ site'.fence = site.fence
  BY DEF SiteTypeOK
<1>3. (OneOwner /\ FencesAreTheOwners /\ FencedForGood)'
  BY <1>2 DEF OneOwner, FencesAreTheOwners, FencedForGood
<1> QED BY <1>1, <1>3, QueueKept

\* A step of the owner that moves the phase and keeps or raises the fence.
LEMMA PhaseInv ==
  ASSUME SiteInv, NEW r \in Request, site.owner = r,
         SiteTypeOK', UNCHANGED <<request, rank>>,
         site'.owner = r, site'.state \in Live \cup Fenced,
         NEW state \in Live \cup Fenced, site'.state = state, lease'[r].state = state,
         \A s \in Request \ {r} : lease'[s] = lease[s],
         lease'[r].fence = lease[r].fence,
         \/ site'.fence = site.fence /\ epochs' = epochs
         \/ site'.fence = site.fence + 1 /\ epochs' = epochs \cup {<<r, site.fence + 1>>},
         state \in Fenced => lease[r].fence < site'.fence
  PROVE  SiteInv'
<1> USE DEF SiteInv
<1>1. site.fence \in Nat /\ \A s \in Request : lease[s].fence \in Nat
  BY DEF SiteTypeOK, SiteRow, LeaseRow
<1>2. lease[r].state \in Live \cup Fenced
  BY DEF OneOwner
<1>3. OneOwner'
  BY NoRequestIsNoRequest DEF OneOwner, Live, Fenced
<1>4. FencesAreTheOwners'
  <2>1. \A x \in epochs : x \in Request \X Nat /\ x[2] \in Nat /\ 0 < x[2] /\ x[2] <= site.fence
    BY DEF FencesAreTheOwners, SiteTypeOK
  <2>2. \A x, y \in epochs' : x[2] = y[2] => x[1] = y[1]
    BY <1>1, <2>1 DEF FencesAreTheOwners
  <2>3. \A x \in epochs' : 0 < x[2] /\ x[2] <= site'.fence
    BY <1>1, <2>1
  <2>4. \A s \in Request : lease'[s].state # "none" => <<s, lease'[s].fence>> \in epochs'
    BY <1>2 DEF FencesAreTheOwners, Live, Fenced
  <2>5. <<site'.owner, site'.fence>> \in epochs'
    BY NoRequestIsNoRequest DEF FencesAreTheOwners
  <2> QED BY <2>2, <2>3, <2>4, <2>5 DEF FencesAreTheOwners
<1>5. FencedForGood'
  BY <1>1 DEF FencedForGood, Fenced
<1> QED BY <1>3, <1>4, <1>5, QueueKept

\* Activation keeps the fence.
LEMMA ActivateInv == ASSUME SiteInv, NEW r \in Request, Activate(r) PROVE SiteInv'
<1>1. SiteTypeOK'
  <2>1. site \in SiteRow /\ lease \in [Request -> LeaseRow]
    BY DEF SiteInv, SiteTypeOK
  <2>2. site' \in SiteRow
    BY <2>1 DEF Activate, SiteRow, Live, Fenced
  <2>3. lease' \in [Request -> LeaseRow]
    BY <2>1 DEF Activate, LeaseRow, Live, Fenced
  <2>4. epochs' \in SUBSET (Request \X Nat) /\ UNCHANGED <<request, rank>>
    BY <2>1 DEF Activate, SiteInv, SiteTypeOK, SiteRow
  <2> QED BY <2>2, <2>3, <2>4 DEF SiteInv, SiteTypeOK
<1>2. site.owner = r /\ lease \in [Request -> LeaseRow]
  BY DEF SiteInv, SiteTypeOK, Activate, Unexpired, HoldsFence
<1>3. /\ site'.owner = r /\ site'.state = "active" /\ site'.fence = site.fence
      /\ lease'[r].state = "active" /\ lease'[r].fence = lease[r].fence
      /\ \A s \in Request \ {r} : lease'[s] = lease[s]
      /\ epochs' = epochs /\ UNCHANGED <<request, rank>>
  BY <1>2 DEF Activate, SiteInv, SiteTypeOK
<1>4. "active" \in Live \cup Fenced /\ "active" \notin Fenced
  BY DEF Live, Fenced
<1> HIDE DEF Live, Fenced
<1> QED BY <1>1, <1>2, <1>3, <1>4, PhaseInv

\* Stopping raises the fence above the one the lease was granted under.
LEMMA StopInv == ASSUME SiteInv, NEW r \in Request, Stop(r) PROVE SiteInv'
<1>1. SiteTypeOK'
  <2>1. site \in SiteRow /\ lease \in [Request -> LeaseRow]
    BY DEF SiteInv, SiteTypeOK
  <2>2. site' \in SiteRow
    <3>1. site.state \in Live /\ site' = [site EXCEPT !.state = "quiescing", !.saved = site.state,
                                          !.fence = site.fence + 1, !.due = "none"]
      BY DEF Stop, HoldsFence, FenceAfterStop
    <3>2. site.owner \in Request \cup {NoRequest} /\ site.fence + 1 \in Nat
      BY <2>1 DEF SiteRow
    <3>3. site' = [state |-> "quiescing", saved |-> site.state, owner |-> site.owner,
                   fence |-> site.fence + 1, due |-> "none"]
      BY <2>1, <3>1 DEF SiteRow
    <3> QED BY <3>1, <3>2, <3>3 DEF SiteRow, Live, Fenced
  <2>3. lease' \in [Request -> LeaseRow]
    BY <2>1 DEF Stop, LeaseRow, Live, Fenced
  <2>4. epochs' \in SUBSET (Request \X Nat) /\ UNCHANGED <<request, rank>>
    BY <2>1 DEF Stop, HoldsFence, FenceAfterStop, SiteInv, SiteTypeOK, SiteRow
  <2> QED BY <2>2, <2>3, <2>4 DEF SiteInv, SiteTypeOK
<1>2. /\ site.owner = r /\ site.fence = lease[r].fence /\ site.fence \in Nat
      /\ lease \in [Request -> LeaseRow]
  BY DEF SiteInv, SiteTypeOK, SiteRow, Stop, HoldsFence
<1>3. /\ site'.owner = r /\ site'.state = "quiescing" /\ site'.fence = site.fence + 1
      /\ lease'[r].state = "quiescing" /\ lease'[r].fence = lease[r].fence
      /\ \A s \in Request \ {r} : lease'[s] = lease[s]
      /\ epochs' = epochs \cup {<<r, site.fence + 1>>} /\ UNCHANGED <<request, rank>>
  BY <1>2 DEF Stop, FenceAfterStop, SiteInv, SiteTypeOK
<1>4. "quiescing" \in Live \cup Fenced /\ lease[r].fence < site'.fence
  BY <1>2, <1>3 DEF Fenced
<1> QED BY <1>1, <1>2, <1>3, <1>4, PhaseInv

\* Cleaning keeps the fence that stopped the lease.
LEMMA CleanInv ==
  ASSUME SiteInv, NEW r \in Request, NEW saved \in {site.saved, "cleaning"}, Clean(r, saved)
  PROVE  SiteInv'
<1>1. SiteTypeOK'
  <2>1. site \in SiteRow /\ lease \in [Request -> LeaseRow]
    BY DEF SiteInv, SiteTypeOK
  <2>2. site' \in SiteRow
    BY <2>1 DEF Clean, SiteRow, Live, Fenced
  <2>3. lease' \in [Request -> LeaseRow]
    BY <2>1 DEF Clean, LeaseRow, Live, Fenced
  <2>4. epochs' \in SUBSET (Request \X Nat) /\ UNCHANGED <<request, rank>>
    BY <2>1 DEF Clean, SiteInv, SiteTypeOK, SiteRow
  <2> QED BY <2>2, <2>3, <2>4 DEF SiteInv, SiteTypeOK
<1>2. /\ site.owner = r
      /\ lease \in [Request -> LeaseRow]
  BY DEF SiteInv, SiteTypeOK, Clean
<1>3. /\ site'.owner = r /\ site'.state = "cleaning" /\ site'.fence = site.fence
      /\ lease'[r].state = "cleaning" /\ lease'[r].fence = lease[r].fence
      /\ \A s \in Request \ {r} : lease'[s] = lease[s]
      /\ epochs' = epochs /\ UNCHANGED <<request, rank>>
  BY <1>2 DEF Clean, SiteInv, SiteTypeOK
<1>4. "cleaning" \in Live \cup Fenced
  BY DEF Fenced
<1>5. lease[r].state = "quiescing"
  BY DEF Clean, SiteInv, OneOwner
<1>6. lease[r].fence < site'.fence
  BY <1>3, <1>5 DEF SiteInv, FencedForGood, Live
<1> QED BY <1>1, <1>2, <1>3, <1>4, <1>6, PhaseInv

\* Closing frees the site and keeps its fence.
LEMMA CloseInv == ASSUME SiteInv, NEW r \in Request, Close(r) PROVE SiteInv'
<1> USE DEF SiteInv
<1>1. SiteTypeOK'
  <2>1. site \in SiteRow /\ lease \in [Request -> LeaseRow]
    BY DEF SiteInv, SiteTypeOK
  <2>2. site' \in SiteRow
    BY <2>1 DEF Close, StateAfterClose, SiteRow, Live, Fenced
  <2>3. lease' \in [Request -> LeaseRow]
    BY <2>1 DEF Close, StateAfterClose, LeaseRow, Live, Fenced
  <2>4. epochs' \in SUBSET (Request \X Nat) /\ UNCHANGED <<request, rank>>
    BY <2>1 DEF Close, StateAfterClose, SiteInv, SiteTypeOK, SiteRow
  <2> QED BY <2>2, <2>3, <2>4 DEF SiteInv, SiteTypeOK
<1>2. /\ site.owner = r /\ site.state = "cleaning" /\ lease[r].state = "cleaning"
      /\ site'.owner = NoRequest /\ site'.state = "free" /\ site'.fence = site.fence
      /\ lease'[r].state = "closed" /\ lease'[r].fence = lease[r].fence
      /\ \A s \in Request \ {r} : lease'[s] = lease[s]
      /\ epochs' = epochs /\ UNCHANGED <<request, rank>>
  BY DEF Close, StateAfterClose, SiteTypeOK, OneOwner
<1>3. OneOwner'
  BY <1>2, NoRequestIsNoRequest DEF OneOwner, Live, Fenced
<1>4. FencesAreTheOwners'
  BY <1>2 DEF FencesAreTheOwners
<1>5. FencedForGood'
  BY <1>2 DEF FencedForGood, Live
<1> QED BY <1>1, <1>2, <1>3, <1>4, <1>5, QueueKept

\* Every step of the site keeps the invariant.
LEMMA SiteStepInv == SiteInv /\ [SiteNext]_siteVars => SiteInv'
<1> SUFFICES ASSUME SiteInv, [SiteNext]_siteVars PROVE SiteInv'
  OBVIOUS
<1>1. CASE UNCHANGED siteVars
  BY <1>1 DEF siteVars, SiteInv, SiteTypeOK, RanksCount, NoOvertaking, OneOwner,
     FencesAreTheOwners, FencedForGood, Asked
<1>2. CASE SiteNext
  BY <1>2, LapseInv, EnqueueInv, GrantInv, ActivateInv, StopInv, CloseInv, RetireInv, CleanInv
     DEF SiteNext
<1> QED BY <1>1, <1>2

(* The inductive invariant of the lease protocol, for any finite set of     *)
(* requests (src/src/shared-test-lease.ts, shared-test-activation.ts,       *)
(* shared-test-close.ts).                                                   *)
THEOREM SiteInvariance == SiteSpec => []SiteInv
<1>1. SiteInit => SiteInv
  BY SiteInitInv
<1>2. SiteInv /\ [SiteNext]_siteVars => SiteInv'
  BY SiteStepInv
<1> QED BY <1>1, <1>2, PTL DEF SiteSpec

(* The rows of the four tables keep their types.                            *)
THEOREM SiteTypeCorrect == SiteSpec => []SiteTypeOK
<1>1. SiteInv => SiteTypeOK
  BY DEF SiteInv
<1> QED BY <1>1, SiteInvariance, PTL

(* The lease rows and the site row agree about the owner, whichever scans   *)
(* and calls overlap.                                                       *)
THEOREM SiteOneOwner == SiteSpec => []OneOwner
<1>1. SiteInv => OneOwner
  BY DEF SiteInv
<1> QED BY <1>1, SiteInvariance, PTL

(* A fence number never belongs to two leases.                              *)
THEOREM SiteFences == SiteSpec => []FencesAreTheOwners
<1>1. SiteInv => FencesAreTheOwners
  BY DEF SiteInv
<1> QED BY <1>1, SiteInvariance, PTL

(* Nobody is granted the site before an older waiter.                       *)
THEOREM SiteFifo == SiteSpec => []NoOvertaking
<1>1. SiteInv => NoOvertaking
  BY DEF SiteInv
<1> QED BY <1>1, SiteInvariance, PTL

(* The fence of a stopped lease is behind the site's for ever.              *)
THEOREM SiteFencedForGood == SiteSpec => []FencedForGood
<1>1. SiteInv => FencedForGood
  BY DEF SiteInv
<1> QED BY <1>1, SiteInvariance, PTL
=============================================================================
