------------------------- MODULE SandboxSerialProofs -------------------------
(***************************************************************************)
(* What SandboxAttempts.tla promises when no call begins while another is   *)
(* running: one attempt per visit, and a manifest complete in D1 for every  *)
(* attempt that no operator ended.  Proved for any number of attempts,      *)
(* calls, visits, puts and faults, with or without retention and operator.  *)
(***************************************************************************)
EXTENDS SandboxProofs

\* One call at a time.
Serial == \A c, d \in Calls : call[c].pc # "idle" /\ call[d].pc # "idle" => c = d

\* Nobody else fails the manifest that a call stores and then relies on.
ManifestFits(s) ==
  /\ s.pc = "store" => manifest[s.at, s.kind] \in {"pending", "complete"}
  /\ s.pc \in {"accept", "finish"} => manifest[s.at, s.kind] = "complete"

\* Later attempts are of later visits, up to the run's own.
VisitsGrow ==
  /\ \A a, b \in Rows : a < b => row[a].visit < row[b].visit
  /\ \A a \in Rows : row[a].visit <= visit

\* The attempt is not the visit's: it was followed, or the run came back.
Behind(a) == a \in Rows /\ ((\E b \in Rows : b > a) \/ row[a].visit < visit)

\* An attempt the run was written after is behind, and so is every one that a
\* call may take for one.
AfterFits == \A a \in after : Behind(a)

\* A call that reads works on the run's visit; one that creates has the newest
\* identity, for a visit without a row; one that watches an attempt watches the
\* latest, and touches the run only while it runs.
VisitFits(s) ==
  /\ s.pc = "read" => s.visit = visit /\ \A a \in s.after : Behind(a)
  /\ s.pc = "create" => /\ s.visit = visit /\ s.at = issued
                        /\ \A b \in Rows : row[b].visit < visit
  /\ s.pc \in {"observe", "touch"} => LatestIs(s.at)
  /\ s.pc = "touch" => row[s.at].state = "running"

SerialFits == \A c \in Calls : ManifestFits(call[c]) /\ VisitFits(call[c])

SInv == IInv /\ Serial /\ CompleteManifest /\ VisitsGrow /\ AfterFits /\ SerialFits
-----------------------------------------------------------------------------
(* Calls, one at a time.                                                    *)

\* Where a step finds an idle call it is the call's begin.
LEMMA IdleBegins ==
  ASSUME NEW c \in Calls, CallStep(c) \/ CallLost(c), call[c].pc = "idle"
  PROVE  Begin(c)
BY DEF CallStep, Read, Create, ReadBack, Claim, AcquireLogin, WriteLogin, Exec, MarkStarted,
   StartFails, Observe, Touch, Collect, Resume, Put, PutFails, Record, ReleaseLogin, DeleteLogin,
   Accept, Stop, Scrub, Drop, ToCollecting, Gather, Stored, Unverified, GatherFails, Finish, Hold,
   Destroy, DestroyFails, MarkDestroyed, CallLost

\* Beside a call that steps every call is idle.
LEMMA OthersIdle ==
  ASSUME SInv, ~Overlap, NEW c \in Calls, CallStep(c) \/ CallLost(c), NEW d \in Calls, d # c
  PROVE  call[d].pc = "idle" /\ call'[d] = call[d]
<1>1. call'[d] = call[d]
  BY CallOnly DEF SInv, Only
<1>2. call[d].pc = "idle"
  BY IdleBegins DEF Begin, SInv, Serial
<1> QED BY <1>1, <1>2

LEMMA SerialStays ==
  ASSUME SInv, ~Overlap, Step
  PROVE  Serial'
<1>1. CASE Outside
  BY <1>1, OutsideRow DEF SInv, Serial
<1>2. ASSUME NEW c \in Calls, CallStep(c) \/ CallLost(c)
      PROVE  Serial'
  BY <1>2, OthersIdle DEF Serial
<1> QED BY <1>1, <1>2 DEF Step

LEMMA IdleIs ==
  /\ Idle.pc = "idle" /\ Idle.kind = "none" /\ Idle.visit = 0 /\ Idle.after = {}
  /\ ManifestFits(Idle)' /\ VisitFits(Idle)'
BY DEF Idle, ManifestFits, VisitFits
-----------------------------------------------------------------------------
(* Manifests.                                                               *)

\* What a step does to the manifests: a complete one stays.
LEMMA ManifestMoves ==
  ASSUME SInv, Step
  PROVE  \A m \in Attempts \X Kinds : manifest[m] = "complete" => manifest'[m] = "complete"
<1>0. manifest \in [Attempts \X Kinds -> {"none", "pending", "complete", "failed"}]
  BY DEF SInv, IInv, TypeOK
<1> DEFINE Goal == \A m \in Attempts \X Kinds : manifest[m] = "complete" => manifest'[m] = "complete"
<1> SUFFICES Goal
  OBVIOUS
<1>1. CASE manifest' = manifest
  BY <1>1
<1> HIDE DEF Goal
<1>2. CASE Outside
  <2>1. UNCHANGED manifest
    BY <1>2 DEF Outside, CronStep, CronList, CronDestroy, CronDestroyFails, CronMark, CronLost,
       OperatorStep, OperatorAsks, OperatorClaim, OperatorDestroy, OperatorMark, AgentExits,
       Happens, DeadlinePasses, HoldExpires, ContainerLost, OthersRefresh, Revisit,
       evidenceVars, vars
  <2> QED BY <1>1, <2>1
<1>3. ASSUME NEW c \in Calls, CallStep(c) \/ CallLost(c)
      PROVE  Goal
  <2>a. PICK m : m = <<call[c].at, call[c].kind>>
    OBVIOUS
  <2>1. ASSUME NEW v, manifest' = [manifest EXCEPT ![m] = v],
               m \in Attempts \X Kinds /\ manifest[m] = "complete" => v = "complete"
        PROVE  Goal
    BY <1>0, <2>1 DEF Goal
  <2>2. CASE Gather(c)
    <3>1. manifest' = [manifest EXCEPT ![m] = IF manifest[m] = "complete" THEN manifest[m] ELSE "pending"]
      BY <2>2, <2>a DEF Gather
    <3> QED BY <2>1, <3>1
  <2>3. CASE Stored(c) \/ Unverified(c)
    <3>1. manifest' = [manifest EXCEPT ![m] = IF manifest[m] \in {"pending", "complete"}
                                              THEN "complete" ELSE manifest[m]]
      BY <2>3, <2>a DEF Stored, Unverified, StoreManifest
    <3> QED BY <2>1, <3>1
  <2>4. CASE GatherFails(c)
    <3>1. manifest' = [manifest EXCEPT ![m] = IF manifest[m] = "pending" THEN "failed"
                                              ELSE manifest[m]]
      BY <2>4, <2>a DEF GatherFails
    <3> QED BY <2>1, <3>1
  <2>5. CASE ~(Gather(c) \/ Stored(c) \/ Unverified(c) \/ GatherFails(c))
    <3>1. manifest' = manifest
      BY <1>3, <2>5 DEF CallStep, Begin, Read, Create, ReadBack, Claim, AcquireLogin, WriteLogin,
         Exec, MarkStarted, StartFails, Observe, Touch, Collect, Resume, Put, PutFails, Record,
         ReleaseLogin, DeleteLogin, Accept, Stop, Scrub, Drop, ToCollecting, Finish, Hold, Destroy,
         DestroyFails, MarkDestroyed, CallLost, evidenceVars
    <3> QED BY <1>1, <3>1
  <2> QED BY <2>2, <2>3, <2>4, <2>5
<1> QED BY <1>2, <1>3 DEF Step

LEMMA HasManifestStays ==
  ASSUME SInv, Step, NEW a \in Attempts, HasManifest(a), row'[a].manifest = row[a].manifest
  PROVE  HasManifest(a)'
<1>1. PICK m \in Kinds : row[a].manifest = m /\ manifest[a, m] = "complete"
  BY DEF HasManifest
<1>2. manifest'[a, m] = "complete"
  <2>1. <<a, m>> \in Attempts \X Kinds
    OBVIOUS
  <2> QED BY <1>1, <2>1, ManifestMoves
<1> QED BY <1>1, <1>2 DEF HasManifest, Kinds

\* An attempt is ended by the finish of its call.
LEMMA FinishedBy ==
  ASSUME IInv, NEW c \in Calls, CallStep(c) \/ CallLost(c), NEW a \in Attempts,
         row[a].state \notin Ends, row'[a].state \in Ends
  PROVE  Finish(c) /\ a = call[c].at
<1>0. /\ row \in [Attempts -> RowType] /\ row[a] \in RowType
      /\ call[c].pc \notin {"idle", "read"} => call[c].at \in Attempts
  BY DEF IInv, TypeOK, CallsFit, CallFits, AttemptFits
<1>a. PICK at : at = call[c].at
  OBVIOUS
<1>1. row' # row
  OBVIOUS
<1>2. ASSUME NEW r, row' = [row EXCEPT ![at] = r]
      PROVE  a = at /\ r.state \in Ends
  BY <1>0, <1>2
<1>3. ASSUME NEW v, row' = [row EXCEPT ![at].state = v]
      PROVE  v \in Ends
  <2>1. row' = [row EXCEPT ![at] = [row[at] EXCEPT !.state = v]]
    BY <1>3
  <2>2. a = at /\ [row[at] EXCEPT !.state = v].state \in Ends
    BY <1>2, <2>1
  <2> QED BY <1>0, <2>2 DEF RowType
<1>4. CASE Finish(c)
  <2>1. row' = [row EXCEPT ![at] = [row[at] EXCEPT !.state = call[c].end, !.manifest = call[c].kind]]
    BY <1>1, <1>4, <1>a DEF Finish, SetRow
  <2> QED BY <1>2, <1>4, <1>a, <2>1
<1>5. CASE Create(c)
  <2>1. row' = [row EXCEPT ![at] = [NoRow EXCEPT !.state = "pending", !.visit = call[c].visit]]
    BY <1>5, <1>a DEF Create, SetRow
  <2>2. [NoRow EXCEPT !.state = "pending", !.visit = call[c].visit].state \in Ends
    BY <1>2, <2>1
  <2> QED BY <2>2 DEF NoRow, Ends
<1>6. CASE Claim(c) \/ ToCollecting(c)
  <2>1. PICK v \in {"starting", "collecting"} : row' = [row EXCEPT ![at].state = v]
    BY <1>1, <1>6, <1>a DEF Claim, ToCollecting, SetState
  <2> QED BY <1>3, <2>1 DEF Ends
<1>7. CASE MarkStarted(c)
  <2>1. row' = [row EXCEPT ![at] = [row[at] EXCEPT !.state = "running", !.process = TRUE]]
    BY <1>1, <1>7, <1>a DEF MarkStarted, SetRow
  <2>2. a = at /\ [row[at] EXCEPT !.state = "running", !.process = TRUE].state \in Ends
    BY <1>2, <2>1
  <2> QED BY <1>0, <2>2 DEF RowType, Ends
<1>8. CASE Collect(c)
  <2>1. row' = [row EXCEPT ![at].state = IF row[at].state = "running" THEN "collecting"
                                         ELSE row[at].state]
    BY <1>8, <1>a DEF Collect
  <2>2. row[at].state \in Ends /\ a = at
    BY <1>2, <1>3, <2>1 DEF Ends
  <2> QED BY <2>2
<1>9. CASE Hold(c) \/ DestroyFails(c) \/ MarkDestroyed(c)
  <2>1. row'[a].state = row[a].state
    <3>1. CASE Hold(c)
      <4>1. PICK v : row' = [row EXCEPT ![at].hold = v]
        BY <3>1, <1>a DEF Hold
      <4> QED BY <1>0, <4>1 DEF RowType
    <3>2. CASE DestroyFails(c) \/ MarkDestroyed(c)
      <4>1. PICK v : row' = [row EXCEPT ![at] = [row[at] EXCEPT !.cleanup = v]]
        BY <3>2, <1>a DEF DestroyFails, MarkDestroyed, SetRow
      <4> QED BY <1>0, <4>1 DEF RowType
    <3> QED BY <1>9, <3>1, <3>2
  <2> QED BY <2>1
<1>10. CASE \/ Begin(c) \/ Read(c) \/ ReadBack(c) \/ AcquireLogin(c) \/ WriteLogin(c) \/ Exec(c)
            \/ StartFails(c) \/ Observe(c) \/ Touch(c) \/ Resume(c) \/ Put(c) \/ PutFails(c)
            \/ Record(c) \/ ReleaseLogin(c) \/ DeleteLogin(c) \/ Accept(c) \/ Stop(c) \/ Scrub(c)
            \/ Drop(c) \/ Gather(c) \/ Stored(c) \/ Unverified(c) \/ GatherFails(c) \/ Destroy(c)
            \/ CallLost(c)
  <2>1. row' = row
    BY <1>10 DEF Begin, Read, ReadBack, AcquireLogin, WriteLogin, Exec, StartFails, Observe,
       Touch, Resume, Put, PutFails, Record, ReleaseLogin, DeleteLogin, Accept, Stop, Scrub,
       Drop, Gather, Stored, Unverified, GatherFails, Destroy, CallLost
  <2> QED BY <1>1, <2>1
<1> QED BY <1>4, <1>5, <1>6, <1>7, <1>8, <1>9, <1>10 DEF CallStep

\* An attempt ends with a complete manifest, or by an operator.
LEMMA CompleteManifestStays ==
  ASSUME SInv, ~Overlap, Step
  PROVE  CompleteManifest'
<1> SUFFICES ASSUME NEW a \in Attempts, row'[a].state \in Ends
             PROVE  row'[a].operator \/ HasManifest(a)'
  BY DEF CompleteManifest, Ended, Ends
<1>0. row[a] \in RowType /\ RowMoves(a) /\ IInv
  BY StepMoves DEF Moves, SInv
<1>1. CASE row[a].state \in Ends
  <2>1. row[a].operator \/ HasManifest(a)
    BY <1>1 DEF SInv, CompleteManifest, Ended
  <2>2. row'[a].manifest = row[a].manifest /\ row'[a].operator = row[a].operator
    BY <1>0, <1>1, RowStays
  <2> QED BY <2>1, <2>2, HasManifestStays
<1>2. CASE Interrupted(a)
  BY <1>0, <1>2 DEF Interrupted, RowType
<1>3. CASE row[a].state \notin Ends /\ ~Interrupted(a)
  <2>1. row'[a].state # row[a].state
    BY <1>3
  <2>2. PICK c \in Calls : CallStep(c) \/ CallLost(c)
    BY <1>0, <1>3, <2>1, OutsideRow DEF Step
  <2>3. Finished(a)
    BY <1>0, <1>3, EndsBy
  <2>4. Finish(c) /\ a = call[c].at
    BY <1>0, <1>3, <2>2, FinishedBy
  <2>5. /\ row'[a].manifest = call[c].kind /\ call[c].kind \in Kinds
        /\ manifest[a, call[c].kind] = "complete" /\ manifest' = manifest
    <3>1. row' = [row EXCEPT ![a] = [row[a] EXCEPT !.state = call[c].end, !.manifest = call[c].kind]]
      BY <1>3, <2>1, <2>4 DEF Finish, SetRow
    <3>2. row'[a] = [row[a] EXCEPT !.state = call[c].end, !.manifest = call[c].kind]
      BY <1>0, <3>1 DEF IInv, TypeOK
    <3>3. call[c].pc = "finish" /\ manifest' = manifest
      BY <2>4 DEF Finish, evidenceVars
    <3>4. call[c].kind \in Kinds
      BY <1>0, <3>3 DEF IInv, CallsFit, CallFits, EndFits, Keeping
    <3>5. manifest[a, call[c].kind] = "complete"
      BY <2>4, <3>3 DEF SInv, SerialFits, ManifestFits
    <3> QED BY <1>0, <3>2, <3>3, <3>4, <3>5 DEF RowType
  <2> QED BY <2>5 DEF HasManifest, Kinds
<1> QED BY <1>1, <1>2, <1>3

LEMMA OutsideEvidence ==
  ASSUME Outside
  PROVE  UNCHANGED <<manifest, issued>>
BY DEF Outside, CronStep, CronList, CronDestroy, CronDestroyFails, CronMark, CronLost,
   OperatorStep, OperatorAsks, OperatorClaim, OperatorDestroy, OperatorMark, AgentExits,
   Happens, DeadlinePasses, HoldExpires, ContainerLost, OthersRefresh, Revisit,
   evidenceVars, runVars, vars

\* The places of a call that SerialFits speaks of, and the steps that lead there.
Watched == {"read", "create", "observe", "touch", "store", "accept", "finish"}

LEMMA LeadsTo ==
  ASSUME IInv, NEW c \in Calls, CallStep(c) \/ CallLost(c), call'[c].pc \in Watched
  PROVE  Begin(c) \/ Read(c) \/ Observe(c) \/ Accept(c) \/ Gather(c) \/ Stored(c) \/ Unverified(c)
<1>0. TypeOK /\ call \in [Calls -> CallType]
  BY DEF IInv, TypeOK
<1>1. \A pc \in PCs \ Watched : ~Goto(c, pc)
  <2>1. ASSUME NEW pc \in PCs \ Watched, Goto(c, pc)
        PROVE  FALSE
    BY <1>0, <2>1, GotoIs
  <2> QED BY <2>1
<1>2. ~Return(c)
  BY <1>0, ReturnIs DEF Idle, Watched
<1>3. \A end \in Ends, process \in BOOLEAN : ~Failed(c, end, process)
  <2>1. ASSUME NEW end \in Ends, NEW process \in BOOLEAN, Failed(c, end, process)
        PROVE  FALSE
    BY <1>0, <2>1, FailedIs DEF Watched
  <2> QED BY <2>1
<1>4. "failed" \in Ends /\ TRUE \in BOOLEAN /\ FALSE \in BOOLEAN
  BY DEF Ends
<1>5. ~(Touch(c) \/ Hold(c) \/ DestroyFails(c) \/ MarkDestroyed(c) \/ CallLost(c))
  BY <1>2 DEF Touch, Hold, DestroyFails, MarkDestroyed, CallLost
<1>6. ~(Create(c) \/ ReleaseLogin(c) \/ Stop(c) \/ Scrub(c) \/ Drop(c) \/ Destroy(c))
  <2>1. \A pc \in {"readback", "delete", "scrub", "drop", "gather", "collecting", "destroyed"} :
          pc \in PCs \ Watched
    BY DEF PCs, Watched
  <2> QED BY <1>1, <2>1 DEF Create, ReleaseLogin, Stop, Scrub, Drop, Destroy
<1>7. ~Finish(c)
  <2>1. "hold" \in PCs \ Watched /\ "destroy" \in PCs \ Watched
    BY DEF PCs, Watched
  <2> QED BY <1>1, <1>2, <2>1 DEF Finish
<1>8. ~ReadBack(c)
  <2>1. CASE LatestIs(call[c].at)
    BY <1>0, <2>1 DEF ReadBack, Idle, Watched
  <2>2. CASE ~LatestIs(call[c].at)
    BY <1>0, <2>2 DEF ReadBack, Idle, Watched
  <2> QED BY <2>1, <2>2
<1>9. ~Claim(c)
  BY <1>0, <1>2 DEF Claim, CallType, Watched
<1>10. ~AcquireLogin(c) /\ ~WriteLogin(c) /\ ~Collect(c) /\ ~Put(c) /\ ~PutFails(c) /\ ~Record(c)
  BY <1>0 DEF AcquireLogin, WriteLogin, Collect, Put, PutFails, Record, CallType, Watched
<1>11. ~Exec(c)
  <2>1. "mark" \in PCs \ Watched
    BY DEF PCs, Watched
  <2> QED BY <1>1, <1>3, <1>4, <2>1 DEF Exec
<1>12. ~MarkStarted(c) /\ ~StartFails(c)
  <2>1. (call[c].pc = "mark") \in BOOLEAN
    OBVIOUS
  <2> QED BY <1>2, <1>3, <1>4, <2>1 DEF MarkStarted, StartFails
<1>13. ~Resume(c)
  <2> SUFFICES ASSUME Resume(c)
               PROVE  FALSE
    OBVIOUS
  <2>1. call' = [call EXCEPT ![c].pc = "put", ![c].tag = lease[call[c].at],
                             ![c].holds = box[call[c].at].holds]
    BY <1>3, <1>4 DEF Resume
  <2> QED BY <1>0, <2>1 DEF CallType, Watched
<1>14. ~DeleteLogin(c)
  <2> SUFFICES ASSUME DeleteLogin(c)
               PROVE  FALSE
    OBVIOUS
  <2>1. call' = [call EXCEPT ![c].pc = "gather", ![c].kind = "result"]
    BY <1>3, <1>4 DEF DeleteLogin
  <2> QED BY <1>0, <2>1 DEF CallType, Watched
<1>15. ~ToCollecting(c)
  <2> SUFFICES ASSUME ToCollecting(c)
               PROVE  FALSE
    OBVIOUS
  <2>1. call' = [call EXCEPT ![c].pc = "gather", ![c].st = "collecting"]
    BY <1>2 DEF ToCollecting
  <2> QED BY <1>0, <2>1 DEF CallType, Watched
<1>16. ~GatherFails(c)
  BY <1>2, <1>3, <1>4 DEF GatherFails
<1> QED BY <1>5, <1>6, <1>7, <1>8, <1>9, <1>10, <1>11, <1>12, <1>13, <1>14, <1>15, <1>16 DEF CallStep

\* The manifest a call stores is open or complete, the one it relies on complete.
LEMMA ManifestOwn ==
  ASSUME SInv, ~Overlap, NEW c \in Calls, CallStep(c) \/ CallLost(c)
  PROVE  ManifestFits(call[c])'
<1>0. /\ IInv /\ TypeOK /\ call \in [Calls -> CallType] /\ ManifestFits(call[c])
      /\ manifest \in [Attempts \X Kinds -> {"none", "pending", "complete", "failed"}]
  BY DEF SInv, IInv, TypeOK, SerialFits
<1>a. PICK at : at = call[c].at
  OBVIOUS
<1>b. PICK kind : kind = call[c].kind
  OBVIOUS
<1>1. call[c].pc \in {"gather", "store", "accept"} => <<at, kind>> \in Attempts \X Kinds
  BY <1>0, <1>a, <1>b DEF IInv, CallsFit, CallFits, AttemptFits, EndFits, Keeping
<1> DEFINE Goal == /\ call'[c].pc = "store" =>
                        manifest'[call'[c].at, call'[c].kind] \in {"pending", "complete"}
                   /\ call'[c].pc \in {"accept", "finish"} =>
                        manifest'[call'[c].at, call'[c].kind] = "complete"
<1> SUFFICES Goal
  BY DEF ManifestFits
<1>2. CASE call'[c].pc \notin {"store", "accept", "finish"}
  BY <1>2
<1>3. ASSUME call'[c].at = at, call'[c].kind = kind, manifest'[<<at, kind>>] = "complete"
      PROVE  Goal
  BY <1>3
<1>4. CASE Gather(c)
  <2>1. call'[c].at = at /\ call'[c].kind = kind /\ call'[c].pc = "store"
    BY <1>0, <1>4, <1>a, <1>b, GotoIs DEF Gather, PCs
  <2>2. manifest' = [manifest EXCEPT ![<<at, kind>>] =
                       IF manifest[<<at, kind>>] = "complete" THEN manifest[<<at, kind>>]
                       ELSE "pending"]
    BY <1>4, <1>a, <1>b DEF Gather
  <2>3. manifest'[<<at, kind>>] \in {"pending", "complete"}
    BY <1>0, <1>1, <1>4, <2>2 DEF Gather
  <2> QED BY <2>1, <2>3
<1> HIDE DEF Goal
<1>5. CASE Stored(c) \/ Unverified(c)
  <2>1. manifest[<<at, kind>>] \in {"pending", "complete"} /\ call[c].pc = "store"
    BY <1>0, <1>5, <1>a, <1>b DEF Stored, Unverified, ManifestFits
  <2>2. manifest' = [manifest EXCEPT ![<<at, kind>>] =
                       IF manifest[<<at, kind>>] \in {"pending", "complete"} THEN "complete"
                       ELSE manifest[<<at, kind>>]]
    BY <1>5, <1>a, <1>b DEF Stored, Unverified, StoreManifest
  <2>3. manifest'[<<at, kind>>] = "complete"
    BY <1>0, <1>1, <2>1, <2>2
  <2>4. CASE Stored(c)
    <3>1. call'[c].at = at /\ call'[c].kind = kind
      BY <1>0, <2>4, <1>a, <1>b, GotoIs DEF Stored, PCs
    <3> QED BY <1>3, <2>3, <3>1
  <2>5. CASE Unverified(c)
    <3>1. CASE Return(c)
      BY <1>0, <1>2, <3>1, ReturnIs, IdleIs
    <3>2. CASE ~Return(c)
      <4>1. call' = [call EXCEPT ![c].pc = "finish", ![c].end = "failed", ![c].keep = TRUE]
        BY <2>5, <3>2 DEF Unverified
      <4>2. call'[c].at = at /\ call'[c].kind = kind
        BY <1>0, <1>a, <1>b, <4>1 DEF CallType
      <4> QED BY <1>3, <2>3, <4>2
    <3> QED BY <3>1, <3>2
  <2> QED BY <1>5, <2>4, <2>5
<1>6. CASE Accept(c)
  <2>1. call'[c].at = at /\ call'[c].kind = kind
    BY <1>0, <1>6, <1>a, <1>b DEF Accept, CallType
  <2>2. manifest' = manifest /\ manifest[<<at, kind>>] = "complete"
    BY <1>0, <1>6, <1>a, <1>b DEF Accept, ManifestFits, evidenceVars
  <2> QED BY <1>3, <2>1, <2>2
<1>7. CASE Begin(c) \/ Read(c) \/ Observe(c)
  <2>1. call'[c].pc \notin {"store", "accept", "finish"}
    <3>1. CASE Begin(c)
      BY <1>0, <3>1 DEF Begin, Idle
    <3>2. CASE Read(c)
      <4>1. CASE Return(c)
        BY <1>0, <4>1, ReturnIs, IdleIs
      <4>2. CASE call' = [call EXCEPT ![c].pc = "create", ![c].at = issued', ![c].after = {}]
        BY <1>0, <4>2 DEF CallType
      <4>3. ASSUME NEW a \in Rows,
                   call' = [call EXCEPT ![c] =
                       IF row[a].state \in Ends THEN Idle
                       ELSE [Idle EXCEPT !.at = a, !.st = row[a].state,
                               !.process = row[a].process,
                               !.pc = IF row[a].state = "pending" THEN "claim" ELSE "observe"]]
            PROVE  call'[c].pc \notin {"store", "accept", "finish"}
        BY <1>0, <4>3 DEF Idle
      <4> QED BY <3>2, <4>1, <4>2, <4>3 DEF Read
    <3>3. CASE Observe(c)
      BY <1>0, <3>3, GotoIs, FailedIs DEF Observe, PCs, Ends
    <3> QED BY <1>7, <3>1, <3>2, <3>3
  <2> QED BY <1>2, <2>1
<1> QED BY <1>0, <1>2, <1>4, <1>5, <1>6, <1>7, LeadsTo DEF Watched
-----------------------------------------------------------------------------
(* Visits.                                                                  *)

LEMMA VisitStays ==
  ASSUME NEW a \in Attempts, row[a] \in RowType, RowMoves(a)
  PROVE  /\ row[a].state # "none" => row'[a].visit = row[a].visit
         /\ row[a].state = "none" /\ ~Inserted(a) => row'[a].state = "none"
<1>1. CASE row'[a] = row[a]
  BY <1>1
<1>2. CASE Inserted(a)
  BY <1>2 DEF Inserted, NoRow
<1>3. CASE Claimed(a)
  BY <1>3 DEF Claimed, RowType
<1>4. CASE Recorded(a)
  BY <1>4 DEF Recorded, RowType
<1>5. CASE Collected(a)
  BY <1>5 DEF Collected, RowType, Live
<1>6. CASE Finished(a)
  BY <1>6 DEF Finished, RowType
<1>7. CASE Interrupted(a)
  BY <1>7 DEF Interrupted, RowType
<1>8. CASE Cleaned(a)
  BY <1>8 DEF Cleaned, RowType
<1> QED BY <1>1, <1>2, <1>3, <1>4, <1>5, <1>6, <1>7, <1>8 DEF RowMoves

LEMMA RowsStay ==
  ASSUME Moves
  PROVE  /\ \A a \in Rows : a \in Rows' /\ row'[a].visit = row[a].visit
         /\ (\A a \in Attempts : ~Inserted(a)) => Rows' = Rows
<1>1. \A a \in Attempts : /\ row[a].state # "none" => /\ row'[a].visit = row[a].visit
                                                      /\ row'[a].state # "none"
                          /\ row[a].state = "none" /\ ~Inserted(a) => row'[a].state = "none"
  BY VisitStays, RowStays DEF Moves
<1> QED BY <1>1 DEF Rows

\* The run never goes back to an earlier visit, and stays with one that a call serves.
LEMMA VisitMoves ==
  ASSUME SInv, ~Overlap, Step
  PROVE  /\ visit \in Nat /\ visit' \in Nat /\ visit <= visit'
         /\ (\E c \in Calls : call[c].pc # "idle") => visit' = visit
<1>0. visit \in Nat
  BY ConstantFacts DEF SInv, IInv, TypeOK
<1>1. CASE Outside
  <2>1. visit' = visit \/ Revisit
    BY <1>1 DEF Outside, CronStep, CronList, CronDestroy, CronDestroyFails, CronMark, CronLost,
       OperatorStep, OperatorAsks, OperatorClaim, OperatorDestroy, OperatorMark, AgentExits,
       Happens, DeadlinePasses, HoldExpires, ContainerLost, OthersRefresh, runVars, vars
  <2> QED BY <1>0, <2>1 DEF Revisit
<1>2. CASE \E c \in Calls : CallStep(c) \/ CallLost(c)
  BY <1>0, <1>2, CallOthers DEF SInv
<1> QED BY <1>1, <1>2 DEF Step

LEMMA BehindStays ==
  ASSUME SInv, ~Overlap, Step, NEW a, Behind(a)
  PROVE  Behind(a)'
<1>1. Moves /\ visit \in Nat /\ visit' \in Nat /\ visit <= visit'
  BY StepMoves, VisitMoves DEF SInv
<1>2. /\ a \in Rows /\ a \in Rows' /\ row'[a].visit = row[a].visit
      /\ \A b \in Rows : b \in Rows'
  BY <1>1, RowsStay DEF Behind
<1>3. row[a].visit \in Nat
  BY <1>1, <1>2 DEF Moves, Rows, RowType
<1>4. CASE \E b \in Rows : b > a
  BY <1>2, <1>4 DEF Behind
<1>5. CASE row[a].visit < visit
  BY <1>1, <1>2, <1>3, <1>5 DEF Behind
<1> QED BY <1>4, <1>5 DEF Behind

\* Some attempt is the latest.
LEMMA LatestExists ==
  ASSUME IInv, Rows # {}
  PROVE  \E m \in Rows : LatestIs(m)
<1>0. Rows \subseteq Nat \ {0} /\ issued \in Nat
  <2>1. Rows \subseteq Attempts /\ issued \in Attempts \cup {0}
    BY DEF IInv, TypeOK, Rows
  <2> QED BY <2>1, ConstantFacts
<1>1. \A b \in Rows : b <= issued
  <2> TAKE b \in Rows
  <2>1. b \in Attempts /\ row[b] # NoRow /\ b \in Nat
    BY <1>0 DEF Rows, NoRow
  <2> QED BY <1>0, <2>1 DEF IInv, Unissued
<1> DEFINE U == {n \in Nat : \A b \in Rows : b <= n}
<1>2. issued \in U
  BY <1>0, <1>1
<1>3. PICK m \in U : \A n \in U : m <= n
  BY <1>2, MinIs
<1>4. m \in Rows
  <2> SUFFICES ASSUME m \notin Rows
               PROVE  FALSE
    OBVIOUS
  <2>1. \A b \in Rows : b < m /\ b \in Nat \ {0}
    BY <1>0
  <2>2. m - 1 \in Nat
    BY <2>1
  <2>3. m - 1 \in U
    BY <2>1, <2>2
  <2> QED BY <1>3, <2>2, <2>3
<1>5. LatestIs(m)
  BY <1>4 DEF LatestIs
<1> QED BY <1>4, <1>5

\* When an attempt is due, every row is of an earlier visit than the call's.
LEMMA DueIsNew ==
  ASSUME SInv, NEW c \in Calls, call[c].pc = "read", AttemptDue(c)
  PROVE  \A b \in Rows : row[b].visit < visit
<1>0. /\ IInv /\ VisitsGrow /\ \A a \in call[c].after : Behind(a)
  BY DEF SInv, SerialFits, VisitFits
<1>1. \A b \in Rows : b \in Nat /\ row[b].visit \in Nat
  BY <1>0, ConstantFacts DEF IInv, TypeOK, Rows, RowType
<1>2. visit \in Nat
  BY <1>0, ConstantFacts DEF IInv, TypeOK
<1> SUFFICES ASSUME NEW b \in Rows
             PROVE  row[b].visit < visit
  OBVIOUS
<1>3. PICK m \in Rows : LatestIs(m)
  BY <1>0, LatestExists
<1>4. Behind(m)
  BY <1>0, <1>3 DEF AttemptDue
<1>5. row[m].visit < visit
  <2>1. ~\E d \in Rows : d > m
    BY <1>1, <1>3 DEF LatestIs
  <2> QED BY <1>4, <2>1 DEF Behind
<1>6. b = m \/ row[b].visit < row[m].visit
  <2>1. b <= m
    BY <1>3 DEF LatestIs
  <2> QED BY <1>0, <1>1, <2>1 DEF VisitsGrow
<1> QED BY <1>1, <1>2, <1>5, <1>6

LEMMA VisitsGrowStay ==
  ASSUME SInv, ~Overlap, Step
  PROVE  VisitsGrow'
<1>0. /\ IInv /\ Moves /\ VisitsGrow /\ visit \in Nat /\ visit' \in Nat /\ visit <= visit'
      /\ Unissued'
  BY StepMoves, VisitMoves, UnissuedStays DEF SInv
<1>1. /\ \A a \in Rows : a \in Nat /\ a \in Rows' /\ row'[a].visit = row[a].visit
                         /\ row[a].visit \in Nat
      /\ (\A a \in Attempts : ~Inserted(a)) => Rows' = Rows
  BY <1>0, RowsStay, ConstantFacts DEF Moves, Rows, RowType
<1>2. CASE \A a \in Attempts : ~Inserted(a)
  <2>1. Rows' = Rows
    BY <1>1, <1>2
  <2>2. ASSUME NEW a \in Rows', NEW b \in Rows', a < b
        PROVE  row'[a].visit < row'[b].visit
    BY <1>0, <1>1, <2>1, <2>2 DEF VisitsGrow
  <2>3. ASSUME NEW a \in Rows'
        PROVE  row'[a].visit <= visit'
    BY <1>0, <1>1, <2>1 DEF VisitsGrow
  <2> QED BY <2>2, <2>3 DEF VisitsGrow
<1>3. CASE \E at \in Attempts : Inserted(at)
  <2>1. PICK at \in Attempts : Inserted(at)
    BY <1>3
  <2>2. PICK c \in Calls : CallStep(c) \/ CallLost(c)
    BY <1>0, <2>1, OutsideRow DEF Step
  <2>3. Create(c) /\ at = call[c].at /\ \A a \in Attempts : Inserted(a) => a = at
    BY <1>0, <2>1, <2>2, CallRow
  <2>4. /\ call[c].visit = visit /\ at = issued /\ \A b \in Rows : row[b].visit < visit
        /\ call[c].pc = "create"
    BY <2>3 DEF Create, SInv, SerialFits, VisitFits
  <2>5. visit' = visit /\ issued' = issued
    BY <2>3 DEF Create, runVars
  <2>6. row'[at].visit = visit
    <3>1. row' = [row EXCEPT ![at] = [NoRow EXCEPT !.state = "pending", !.visit = visit]]
      BY <2>3, <2>4 DEF Create, SetRow
    <3>2. row'[at] = [NoRow EXCEPT !.state = "pending", !.visit = visit]
      BY <1>0, <3>1 DEF Moves
    <3> QED BY <3>2 DEF NoRow
  <2>7. \A a \in Rows' : a = at \/ a \in Rows
    <3>1. \A a \in Attempts : a # at /\ row[a].state = "none" => row'[a].state = "none"
      BY <1>0, <2>3, VisitStays DEF Moves
    <3> QED BY <3>1 DEF Rows
  <2>8. at \in Nat /\ issued \in Nat /\ \A b \in Rows' : b \in Nat /\ ~(b > at)
    <3>1. at \in Nat /\ issued \in Nat
      BY <1>0, ConstantFacts DEF Moves
    <3>2. ASSUME NEW b \in Rows'
          PROVE  b \in Nat /\ ~(b > at)
      <4>1. b \in Attempts /\ row'[b].state # "none"
        BY DEF Rows
      <4>2. row'[b] # NoRow
        BY <4>1 DEF NoRow
      <4>3. ~(b > issued')
        BY <1>0, <4>1, <4>2 DEF Unissued, NoRow
      <4> QED BY <2>4, <2>5, <4>1, <4>3, ConstantFacts
    <3> QED BY <3>1, <3>2
  <2>9. ASSUME NEW a \in Rows', NEW b \in Rows', a < b
        PROVE  row'[a].visit < row'[b].visit
    <3>1. a # at
      BY <2>8, <2>9
    <3>2. a \in Rows
      BY <2>7, <3>1
    <3>3. CASE b = at
      BY <1>1, <2>4, <2>6, <3>2, <3>3
    <3>4. CASE b \in Rows
      BY <1>0, <1>1, <2>9, <3>2, <3>4 DEF VisitsGrow
    <3> QED BY <2>7, <3>3, <3>4
  <2>10. ASSUME NEW a \in Rows'
         PROVE  row'[a].visit <= visit'
    BY <1>0, <1>1, <2>5, <2>6, <2>7 DEF VisitsGrow
  <2> QED BY <2>9, <2>10 DEF VisitsGrow
<1> QED BY <1>2, <1>3

\* What the run was written after, by a heartbeat or a return to the stage.
LEMMA AfterStays ==
  ASSUME SInv, ~Overlap, Step
  PROVE  AfterFits'
<1>0. /\ IInv /\ AfterFits /\ VisitsGrow /\ \A a : Behind(a) => Behind(a)'
  BY BehindStays DEF SInv
<1> SUFFICES \A a \in after' : Behind(a)'
  BY DEF AfterFits, Behind, Rows
<1>1. CASE after' \subseteq after
  BY <1>0, <1>1 DEF AfterFits
<1>2. CASE Revisit
  <2>1. ASSUME NEW a \in after'
        PROVE  Behind(a)'
    <3>1. a \in Rows
      BY <1>2 DEF Revisit, Ended, Rows, Ends
    <3>2. Behind(a)' <=> a \in Rows' /\ ((\E b \in Rows' : b > a) \/ row'[a].visit < visit')
      BY DEF Behind, Rows
    <3>3. row'[a].visit = row[a].visit /\ a \in Rows'
      BY <3>1, RowsStay, StepMoves, <1>0
    <3>4. row[a].visit <= visit /\ visit' = visit + 1 /\ visit \in Nat /\ row[a].visit \in Nat
      BY <1>0, <1>2, <3>1, VisitMoves DEF VisitsGrow, Revisit, IInv, TypeOK, Rows, RowType
    <3> QED BY <3>2, <3>3, <3>4
  <2> QED BY <2>1
<1>3. ASSUME NEW c \in Calls, Touch(c)
      PROVE  \A a \in after' : Behind(a)'
  <2>1. call[c].pc = "touch" /\ after' = Ended
    BY <1>3 DEF Touch
  <2>2. LatestIs(call[c].at) /\ row[call[c].at].state = "running"
    BY <2>1 DEF SInv, SerialFits, VisitFits
  <2>3. ASSUME NEW a \in Ended
        PROVE  Behind(a)
    <3>1. a \in Rows /\ a \in Nat /\ a # call[c].at
      BY <2>2, ConstantFacts DEF Ended, Rows, Ends
    <3>2. call[c].at \in Rows /\ a <= call[c].at /\ call[c].at \in Nat
      BY <2>2, <3>1, ConstantFacts DEF LatestIs, Rows
    <3> QED BY <3>1, <3>2 DEF Behind
  <2> QED BY <1>0, <2>1, <2>3
<1>4. CASE Outside
  <2>1. after' \subseteq after \/ Revisit
    BY <1>4 DEF Outside, CronStep, CronList, CronDestroy, CronDestroyFails, CronMark, CronLost,
       OperatorStep, OperatorAsks, OperatorClaim, OperatorDestroy, OperatorMark, AgentExits,
       Happens, DeadlinePasses, HoldExpires, ContainerLost, OthersRefresh, runVars, vars
  <2> QED BY <1>1, <1>2, <2>1
<1>5. ASSUME NEW c \in Calls, CallStep(c) \/ CallLost(c)
      PROVE  \A a \in after' : Behind(a)'
  <2>1. after' \subseteq after \/ Touch(c)
    BY <1>5 DEF CallStep, Begin, Read, Create, ReadBack, Claim, AcquireLogin, WriteLogin, Exec,
       MarkStarted, StartFails, Observe, Collect, Resume, Put, PutFails, Record, ReleaseLogin,
       DeleteLogin, Accept, Stop, Scrub, Drop, ToCollecting, Gather, Stored, Unverified,
       GatherFails, Finish, Hold, Destroy, DestroyFails, MarkDestroyed, CallLost, others, rest,
       runVars
  <2> QED BY <1>1, <1>3, <2>1
<1> QED BY <1>4, <1>5 DEF Step

\* What others do leaves a call with its visit, its place and its attempt.
LEMMA VisitOutside ==
  ASSUME SInv, ~Overlap, Outside, NEW c \in Calls
  PROVE  VisitFits(call[c])'
<1> PICK s : s = call[c]
  OBVIOUS
<1>0. IInv /\ Step /\ VisitFits(s) /\ s \in CallType /\ VisitsGrow /\ row \in [Attempts -> RowType]
  BY DEF SInv, SerialFits, Step, IInv, TypeOK
<1>1. call' = call /\ issued' = issued
  BY <1>0, OutsideRow, OutsideEvidence
<1>2. Rows' = Rows /\ \A a \in Rows : row'[a].visit = row[a].visit
  BY <1>0, StepMoves, RowsStay, OutsideRow
<1>3. s.pc # "idle" => visit' = visit
  BY <1>0, VisitMoves
<1>4. ASSUME s.pc = "read"
      PROVE  s.visit = visit' /\ \A a \in s.after : Behind(a)'
  BY <1>0, <1>3, <1>4, BehindStays DEF VisitFits
<1>5. ASSUME s.pc = "create"
      PROVE  s.visit = visit' /\ s.at = issued' /\ \A b \in Rows' : row'[b].visit < visit'
  BY <1>0, <1>1, <1>2, <1>3, <1>5 DEF VisitFits
<1>6. ASSUME s.pc \in {"observe", "touch"}
      PROVE  s.at \in Rows' /\ \A b \in Rows' : b <= s.at
  BY <1>0, <1>2, <1>6 DEF VisitFits, LatestIs
<1>7. ASSUME s.pc = "touch"
      PROVE  row'[s.at].state = "running"
  <2>1. row[s.at].state = "running" /\ s.at \in Attempts
    BY <1>0, <1>7 DEF VisitFits, LatestIs, Rows
  <2> QED BY <1>0, <2>1, OutsideRow DEF Interrupted
<1>8. VisitFits(s)'
  BY <1>4, <1>5, <1>6, <1>7 DEF VisitFits, LatestIs, Rows
<1> QED BY <1>1, <1>8

\* What the stepping call comes to.
LEMMA VisitOwn ==
  ASSUME SInv, ~Overlap, NEW c \in Calls, CallStep(c) \/ CallLost(c)
  PROVE  VisitFits(call[c])'
<1>0. /\ IInv /\ Step /\ VisitFits(call[c]) /\ call[c] \in CallType /\ TypeOK
      /\ call \in [Calls -> CallType] /\ CallFits(call[c])
  BY DEF SInv, SerialFits, Step, IInv, TypeOK, CallsFit
<1> DEFINE Goal ==
      /\ call'[c].pc = "read" => call'[c].visit = visit' /\ \A a \in call'[c].after : Behind(a)'
      /\ call'[c].pc = "create" => /\ call'[c].visit = visit' /\ call'[c].at = issued'
                                   /\ \A b \in Rows' : row'[b].visit < visit'
      /\ call'[c].pc \in {"observe", "touch"} =>
            call'[c].at \in Rows' /\ \A b \in Rows' : b <= call'[c].at
      /\ call'[c].pc = "touch" => row'[call'[c].at].state = "running"
<1> SUFFICES Goal
  BY DEF VisitFits, LatestIs, Rows
<1>1. CASE call'[c].pc \notin {"read", "create", "observe", "touch"}
  BY <1>1
<1>2. CASE Begin(c)
  <2>1. call'[c] = [Idle EXCEPT !.pc = "read", !.visit = visit, !.after = after] /\ visit' = visit
    BY <1>0, <1>2 DEF Begin, runVars
  <2>2. call'[c].pc = "read" /\ call'[c].visit = visit /\ call'[c].after = after
    BY <2>1 DEF Idle
  <2>3. \A a \in after : Behind(a)'
    BY <1>0, BehindStays DEF SInv, AfterFits
  <2> QED BY <2>1, <2>2, <2>3
<1>3. CASE /\ Read(c) /\ AttemptDue(c) /\ issued' = issued + 1
           /\ call' = [call EXCEPT ![c].pc = "create", ![c].at = issued', ![c].after = {}]
  <2>1. call[c].pc = "read" /\ row' = row /\ visit' = visit
    BY <1>3 DEF Read
  <2>2. call'[c].pc = "create" /\ call'[c].at = issued' /\ call'[c].visit = call[c].visit
    BY <1>0, <1>3 DEF CallType
  <2>3. Rows' = Rows
    BY <2>1 DEF Rows
  <2>4. call[c].visit = visit
    BY <1>0, <2>1 DEF VisitFits
  <2>5. \A b \in Rows : row[b].visit < visit
    BY <1>3, <2>1, DueIsNew
  <2> QED BY <2>1, <2>2, <2>3, <2>4, <2>5
<1>4. ASSUME Read(c), NEW a \in Rows, LatestIs(a),
             call' = [call EXCEPT ![c] =
                 IF row[a].state \in Ends THEN Idle
                 ELSE [Idle EXCEPT !.at = a, !.st = row[a].state,
                         !.process = row[a].process,
                         !.pc = IF row[a].state = "pending" THEN "claim" ELSE "observe"]]
      PROVE  Goal
  <2>1. row' = row
    BY <1>4 DEF Read
  <2>2. Rows' = Rows
    BY <2>1 DEF Rows
  <2>3. call'[c].pc \in {"idle", "claim"} \/ (call'[c].pc = "observe" /\ call'[c].at = a)
    BY <1>0, <1>4 DEF Idle
  <2> QED BY <1>4, <2>2, <2>3 DEF LatestIs
<1>5. CASE Observe(c)
  <2> PICK a : a = call[c].at
    OBVIOUS
  <2>1. call[c].pc = "observe" /\ row' = row
    BY <1>5 DEF Observe
  <2>2. Rows' = Rows
    BY <2>1 DEF Rows
  <2>3. a \in Rows /\ \A b \in Rows : b <= a
    BY <1>0, <2>1 DEF VisitFits, LatestIs
  <2>4. \/ /\ Goto(c, "touch") /\ call[c].process /\ box[a].proc = "running"
        \/ Goto(c, "collect")
        \/ \E end \in Ends, process \in BOOLEAN : Failed(c, end, process)
    <3>1. PICK known \in BOOLEAN :
            /\ known <=> call[c].process /\ box[a].up /\ box[a].proc # "none"
            /\ \/ Failed(c, "absolute_timeout", known)
               \/ Failed(c, "interrupted", FALSE)
               \/ /\ known /\ box[a].proc = "running"
                  /\ Goto(c, "touch") \/ Failed(c, "interrupted", TRUE)
               \/ Failed(c, "failed", TRUE)
               \/ Goto(c, "collect")
      BY <1>5 DEF Observe
    <3>2. {"absolute_timeout", "interrupted", "failed"} \subseteq Ends
      BY DEF Ends
    <3> QED BY <3>1, <3>2
  <2>5. CASE Goto(c, "touch") /\ call[c].process /\ box[a].proc = "running"
    <3>1. call'[c].pc = "touch" /\ call'[c].at = a
      BY <1>0, <2>5, GotoIs DEF PCs
    <3>2. a \in Attempts /\ row[a].process
      BY <1>0, <2>1, <2>3, <2>5 DEF CallFits, ProcessSeen, Rows
    <3>3. row[a].state \in {"running", "collecting"} \cup Ends
      BY <1>0, <3>2 DEF IInv, ProcessFits
    <3>4. row[a].state \notin {"collecting"} \cup Ends
      BY <1>0, <2>5, <3>2 DEF IInv, Stopped
    <3> QED BY <2>1, <2>2, <2>3, <3>1, <3>3, <3>4
  <2>6. CASE Goto(c, "collect")
    <3>1. call'[c].pc = "collect"
      BY <1>0, <2>6, GotoIs DEF PCs
    <3> QED BY <1>1, <3>1
  <2>7. CASE \E end \in Ends, process \in BOOLEAN : Failed(c, end, process)
    <3>1. call'[c].pc = "stop"
      BY <1>0, <2>7, FailedIs
    <3> QED BY <1>1, <3>1
  <2> QED BY <2>4, <2>5, <2>6, <2>7
<1> HIDE DEF Goal
<1>6. CASE Read(c)
  <2>1. CASE Return(c)
    BY <1>0, <1>1, <2>1, ReturnIs, IdleIs
  <2> QED BY <1>3, <1>4, <1>6, <2>1 DEF Read
<1>7. CASE Accept(c) \/ Gather(c) \/ Stored(c) \/ Unverified(c)
  <2>1. call'[c].pc \in {"finish", "store", "accept", "idle"}
    <3>1. CASE Accept(c)
      BY <1>0, <3>1 DEF Accept, CallType
    <3>2. CASE Gather(c)
      BY <1>0, <3>2, GotoIs DEF Gather, PCs
    <3>3. CASE Stored(c)
      BY <1>0, <3>3, GotoIs DEF Stored, PCs
    <3>4. CASE Unverified(c)
      <4>1. CASE Return(c)
        BY <1>0, <4>1, ReturnIs, IdleIs
      <4> QED BY <1>0, <3>4, <4>1 DEF Unverified, CallType
    <3> QED BY <1>7, <3>1, <3>2, <3>3, <3>4
  <2> QED BY <1>1, <2>1
<1> QED BY <1>0, <1>1, <1>2, <1>5, <1>6, <1>7, LeadsTo DEF Watched
-----------------------------------------------------------------------------
(* The theorems.                                                            *)

\* A call beside the stepping one is idle, and asks nothing.
LEMMA SerialFitsStay ==
  ASSUME SInv, ~Overlap, Step
  PROVE  SerialFits'
<1>0. IInv /\ \A c \in Calls : ManifestFits(call[c])
  BY DEF SInv, SerialFits
<1>1. CASE Outside
  <2>1. call' = call /\ manifest' = manifest
    BY <1>0, <1>1, OutsideRow, OutsideEvidence
  <2>2. \A c \in Calls : ManifestFits(call[c])'
    BY <1>0, <2>1 DEF ManifestFits
  <2>3. \A c \in Calls : VisitFits(call[c])'
    BY <1>1, VisitOutside
  <2> QED BY <2>2, <2>3 DEF SerialFits
<1>2. ASSUME NEW c \in Calls, CallStep(c) \/ CallLost(c)
      PROVE  SerialFits'
  <2>1. ManifestFits(call[c])' /\ VisitFits(call[c])'
    BY <1>2, ManifestOwn, VisitOwn
  <2>2. ASSUME NEW d \in Calls, d # c
        PROVE  ManifestFits(call[d])' /\ VisitFits(call[d])'
    <3>1. call'[d].pc = "idle"
      BY <1>2, <2>2, OthersIdle
    <3> QED BY <3>1 DEF ManifestFits, VisitFits
  <2>3. \A d \in Calls : ManifestFits(call[d])' /\ VisitFits(call[d])'
    BY <2>1, <2>2
  <2> QED BY <2>3 DEF SerialFits
<1> QED BY <1>1, <1>2 DEF Step

LEMMA InitSerial ==
  ASSUME Init
  PROVE  SInv
<1>1. \A c \in Calls : call[c].pc = "idle"
  BY DEF Init, Idle
<1>2. Serial /\ SerialFits
  <2>1. ASSUME NEW c \in Calls
        PROVE  ManifestFits(call[c]) /\ VisitFits(call[c])
    <3>1. call[c].pc = "idle"
      BY <1>1
    <3> QED BY <3>1 DEF ManifestFits, VisitFits
  <2> QED BY <1>1, <2>1 DEF Serial, SerialFits
<1>3. Rows = {} /\ Ended = {} /\ after = {}
  BY DEF Init, Rows, Ended, Ends, NoRow
<1>4. VisitsGrow /\ AfterFits /\ CompleteManifest
  BY <1>3 DEF VisitsGrow, AfterFits, CompleteManifest
<1> QED BY <1>2, <1>4, InitFits DEF SInv

(* The inductive invariant of calls that do not overlap.                   *)
THEOREM SerialInvariance == ~Overlap => (Spec => []SInv)
<1> SUFFICES ASSUME ~Overlap
             PROVE  Spec => []SInv
  OBVIOUS
<1>1. Init => SInv
  BY InitSerial
<1>2. SInv /\ [Next]_vars => SInv'
  <2> SUFFICES ASSUME SInv, [Next]_vars
               PROVE  SInv'
    OBVIOUS
  <2>1. Step
    BY NextIsStep
  <2>2. IInv'
    BY <2>1, StepFits DEF SInv
  <2>3. Serial' /\ CompleteManifest' /\ VisitsGrow' /\ AfterFits' /\ SerialFits'
    BY <2>1, SerialStays, CompleteManifestStays, VisitsGrowStay, AfterStays, SerialFitsStay
  <2> QED BY <2>2, <2>3 DEF SInv
<1> QED BY <1>1, <1>2, PTL DEF Spec

(* No visit of a stage gets a second attempt when calls do not overlap.    *)
THEOREM SerialOneAttempt == ~Overlap => (Spec => []OneAttemptPerVisit)
<1> SUFFICES ASSUME ~Overlap
             PROVE  Spec => []OneAttemptPerVisit
  OBVIOUS
<1>1. SInv => OneAttemptPerVisit
  <2> SUFFICES ASSUME SInv, NEW a \in Rows, NEW b \in Rows, a # b
               PROVE  row[a].visit # row[b].visit
    BY DEF OneAttemptPerVisit
  <2>1. a \in Nat /\ b \in Nat /\ row[a].visit \in Nat /\ row[b].visit \in Nat
    <3>1. a \in Attempts /\ b \in Attempts /\ row \in [Attempts -> RowType]
      BY DEF SInv, IInv, TypeOK, Rows
    <3>2. row[a].visit \in Nat /\ row[b].visit \in Nat
      BY <3>1, ConstantFacts DEF RowType
    <3> QED BY <3>1, <3>2, ConstantFacts
  <2>2. a < b \/ b < a
    BY <2>1
  <2> QED BY <2>1, <2>2 DEF SInv, VisitsGrow
<1> QED BY <1>1, SerialInvariance, PTL

(* Every attempt that ended without an operator has the manifest it names  *)
(* complete in D1 when calls do not overlap.                               *)
THEOREM SerialCompleteManifest == ~Overlap => (Spec => []CompleteManifest)
<1> SUFFICES ASSUME ~Overlap
             PROVE  Spec => []CompleteManifest
  OBVIOUS
<1>1. SInv => CompleteManifest
  BY DEF SInv
<1> QED BY <1>1, SerialInvariance, PTL
=============================================================================
