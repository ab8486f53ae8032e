---------------------------- MODULE SandboxProofs ----------------------------
(***************************************************************************)
(* What SandboxAttempts.tla promises of an agent stage's attempts, proved   *)
(* for any number of attempts, calls, visits, puts and faults, with or      *)
(* without overlapping calls, retention and an operator.                    *)
(***************************************************************************)
EXTENDS SandboxAttempts, WellFoundedInduction, TLAPS

\* Identities are handed out in order; a row is inserted under one of them.
Unissued == \A a \in Attempts : a > issued => row[a] = NoRow

\* A row has a process once its supervisor was recorded, and not before.
ProcessFits ==
  \A a \in Attempts : /\ row[a].process => row[a].state \in {"running", "collecting"} \cup Ends
                      /\ row[a].state = "running" => row[a].process

\* Nothing runs, and no login lies, in a sandbox that has no container.
BoxFits == \A a \in Attempts : ~box[a].up => ~box[a].auth /\ box[a].proc = "none"

\* A recorded process stops before its attempt is collected.
Stopped ==
  \A a \in Attempts : (row[a].process /\ row[a].state \in {"collecting"} \cup Ends)
                        => box[a].proc # "running"

\* The attempt's supervisor was recorded and its login is gone.
LoginGone(a) == row[a].process /\ lease[a] = NoTag /\ ~box[a].auth
Accepted == \A a \in Attempts : row[a].state \in {"completed", "blocked"} => LoginGone(a)

\* An attempt ends with a manifest in R2, or by an operator.
EndHasEvidence == \A a \in Ended : row[a].operator \/ <<a, row[a].manifest>> \in r2

\* Only ended attempts are cleaned up.
CleanupFits ==
  /\ \A a \in Attempts : row[a].cleanup = "destroyed" => a \in Ended
  /\ cron.todo \subseteq Ended /\ (cron.at # 0 => cron.at \in Ended)
  /\ operator.pc \in {"destroy", "mark"} => operator.at \in Ended
  /\ operator.pc = "claim" =>
       /\ operator.at \in Attempts
       /\ operator.seen.state \in {"collecting", "failed", "interrupted", "absolute_timeout"}

\* The places of a call: starting the supervisor, storing the login of one that
\* exited, failing the attempt, keeping evidence, and after the attempt's end.
Starting == {"acquire", "write", "exec", "mark"}
Storing == {"collect", "resume", "put", "record", "release", "delete", "accept"}
Failing == {"stop", "scrub", "drop", "collecting"}
Keeping == {"gather", "store", "accept", "finish"}
Ending == {"hold", "destroy", "destroyed"}

\* A call works on an attempt that was handed out and, but for create, has a row.
AttemptFits(s) ==
  /\ s.pc \notin {"idle", "read"} => s.at \in Attempts /\ s.at <= issued
  /\ s.pc = "create" => row[s.at] = NoRow
  /\ s.pc \notin {"idle", "read", "create"} => s.at \in Rows

\* The call that starts an attempt has claimed it and not recorded a process.
StartFits(s) ==
  s.pc \in Starting =>
    /\ s.st = "starting" /\ row[s.at].state # "pending" /\ ~row[s.at].process

\* What a call saw of the row's process stays true, and a running attempt that
\* it is about to take into collection has stopped.
ProcessSeen(s) ==
  /\ s.pc = "observe" => (s.process => row[s.at].process)
                         /\ (s.st = "running" => s.process)
  /\ s.st = "running" /\ s.pc \in Failing => row[s.at].process
  /\ s.st = "running" /\ s.pc = "stop" => s.process \/ box[s.at].proc # "running"
  /\ s.st = "running" /\ s.pc \in Failing \ {"stop"} => box[s.at].proc # "running"

\* A call that stores a login does so for a supervisor that exited, and one that
\* keeps a result has left no login behind.
LoginFits(s) ==
  /\ s.pc \in Storing => row[s.at].process
  /\ s.pc = "collect" => box[s.at].proc # "running"
  /\ s.pc = "delete" => lease[s.at] = NoTag
  /\ s.pc \in Keeping /\ s.kind = "result" => LoginGone(s.at)

\* What a call ends an attempt with.
EndFits(s) ==
  /\ s.pc \in Failing => s.kind = "failure"
  /\ s.pc \in Keeping => s.kind \in Kinds
  /\ s.pc \in (Storing \ {"collect"}) \cup Keeping => s.st = "collecting"
  /\ s.pc = "accept" => s.kind = "result"
  /\ s.kind = "failure" => s.end \in Ends \ {"completed", "blocked"}
  /\ s.pc = "finish" => s.end \in Ends
  /\ s.pc \in {"accept", "finish"} => <<s.at, s.kind>> \in r2
  /\ s.pc \in Ending => s.at \in Ended

CallFits(s) == AttemptFits(s) /\ StartFits(s) /\ ProcessSeen(s) /\ LoginFits(s) /\ EndFits(s)

CallsFit == \A c \in Calls : CallFits(call[c])

\* Two calls neither create nor start the same attempt.
Apart ==
  \A c, d \in Calls :
    (c # d /\ call[c].at = call[d].at) =>
      /\ ~(call[c].pc = "create" /\ call[d].pc = "create")
      /\ ~(call[c].pc \in Starting /\ call[d].pc \in Starting)

IInv == /\ TypeOK /\ Unissued /\ ProcessFits /\ BoxFits /\ Stopped /\ Accepted
        /\ EndHasEvidence /\ CleanupFits /\ CallsFit /\ Apart
-----------------------------------------------------------------------------
(* Facts about the constants and the records.                               *)

LEMMA ConstantFacts ==
  /\ Attempts \subseteq Nat \ {0} /\ 0 \notin Attempts /\ NoTag \notin Tags /\ MaxPuts \in Nat
  /\ MaxFaults \in Nat /\ MaxVisits \in Nat \ {0} /\ 1 \in Tags
BY VaultAssumption, SandboxAssumption DEF NoTag, Tags

LEMMA MinIs ==
  ASSUME NEW S, S \subseteq Nat, S # {}
  PROVE  Min(S) \in S /\ \A y \in S : Min(S) <= y
<1>1. IsWellFoundedOn(OpToRel(<, Nat), Nat)
  BY NatLessThanWellFounded
<1>2. PICK x \in S : \A y \in S : <<y, x>> \notin OpToRel(<, Nat)
  BY <1>1, WFMin
<1>3. \A y \in S : x <= y
  <2> TAKE y \in S
  <2>1. <<y, x>> \in Nat \X Nat /\ <<y, x>>[1] = y /\ <<y, x>>[2] = x
    OBVIOUS
  <2>2. ~(y < x)
    BY <1>2, <2>1, Zenon DEF OpToRel
  <2> QED BY <2>2
<1> QED BY <1>2, <1>3 DEF Min

LEMMA RecordsTyped ==
  /\ NoRow \in RowType /\ NoBox \in BoxType /\ Idle \in CallType /\ NoRequest \in RequestType
BY DEF NoRow, RowType, NoBox, BoxType, Idle, CallType, NoRequest, RequestType, PCs, NoTag

\* The step changes no call but c.
Only(c) == call' \in [Calls -> CallType] /\ \A d \in Calls \ {c} : call'[d] = call[d]

LEMMA GotoIs ==
  ASSUME TypeOK, NEW c \in Calls, NEW pc \in PCs, Goto(c, pc)
  PROVE  /\ Only(c) /\ call'[c].pc = pc /\ call'[c].at = call[c].at /\ call'[c].st = call[c].st
         /\ call'[c].process = call[c].process /\ call'[c].end = call[c].end
         /\ call'[c].kind = call[c].kind
BY DEF TypeOK, CallType, Goto, Only

LEMMA ReturnIs ==
  ASSUME TypeOK, NEW c \in Calls, Return(c)
  PROVE  Only(c) /\ call'[c] = Idle
BY RecordsTyped DEF TypeOK, Return, Only

LEMMA FailedIs ==
  ASSUME TypeOK, NEW c \in Calls, NEW end \in Ends, NEW process \in BOOLEAN,
         Failed(c, end, process)
  PROVE  /\ Only(c) /\ call'[c].pc = "stop" /\ call'[c].at = call[c].at
         /\ call'[c].st = call[c].st /\ call'[c].process = process /\ call'[c].end = end
         /\ call'[c].kind = "failure"
BY DEF TypeOK, CallType, Failed, Only, Idle, PCs, Kinds
-----------------------------------------------------------------------------
(* Every step of a call replaces the call's own record.                     *)

LEMMA CallOnly ==
  ASSUME IInv, NEW c \in Calls, CallStep(c) \/ CallLost(c)
  PROVE  Only(c)
<1>0. /\ TypeOK /\ call \in [Calls -> CallType] /\ call[c] \in CallType /\ CallFits(call[c])
      /\ row \in [Attempts -> RowType] /\ box \in [Attempts -> BoxType] /\ VaultType
  BY DEF IInv, TypeOK, CallsFit
<1> USE <1>0
<1>1. call[c].pc \notin {"idle", "read"} => call[c].at \in Attempts
  BY DEF CallFits, AttemptFits
<1>2. CASE Begin(c) \/ Read(c)
  <2>1. CASE Begin(c)
    <3>1. visit \in Nat /\ after \subseteq Attempts
      BY ConstantFacts DEF TypeOK
    <3>2. PICK s : s = [Idle EXCEPT !.pc = "read", !.visit = visit, !.after = after]
      OBVIOUS
    <3>3. s \in CallType
      BY <3>1, <3>2, RecordsTyped DEF CallType, PCs
    <3>4. call' = [call EXCEPT ![c] = s]
      BY <2>1, <3>2 DEF Begin
    <3> QED BY <3>3, <3>4 DEF Only
  <2>2. CASE Read(c)
    <3>1. CASE Return(c)
      BY <3>1, ReturnIs
    <3>2. CASE issued + 1 \in Attempts /\ issued' = issued + 1
               /\ call' = [call EXCEPT ![c].pc = "create", ![c].at = issued', ![c].after = {}]
      BY <3>2 DEF Only, CallType, PCs
    <3>3. ASSUME NEW a \in Rows,
                 call' = [call EXCEPT ![c] =
                     IF row[a].state \in Ends THEN Idle
                     ELSE [Idle EXCEPT !.at = a, !.st = row[a].state,
                             !.process = row[a].process,
                             !.pc = IF row[a].state = "pending" THEN "claim" ELSE "observe"]]
          PROVE  Only(c)
      <4>1. a \in Attempts /\ row[a] \in RowType
        BY DEF Rows
      <4>2. CASE row[a].state \in Ends
        BY <3>3, <4>2, ReturnIs DEF Return
      <4>3. CASE row[a].state \notin Ends
        <5>1. PICK s : s = [Idle EXCEPT !.at = a, !.st = row[a].state, !.process = row[a].process,
                              !.pc = IF row[a].state = "pending" THEN "claim" ELSE "observe"]
          OBVIOUS
        <5>2. row[a].state \in {"none"} \cup Live /\ row[a].process \in BOOLEAN
          BY <4>1, <4>3 DEF RowType
        <5>3. s \in CallType
          <6>1. PICK p \in PCs : p = IF row[a].state = "pending" THEN "claim" ELSE "observe"
            BY DEF PCs
          <6>2. s = [Idle EXCEPT !.at = a, !.st = row[a].state, !.process = row[a].process,
                                 !.pc = p]
            BY <5>1, <6>1
          <6> QED BY <4>1, <5>2, <6>2, RecordsTyped DEF CallType
        <5>4. call' = [call EXCEPT ![c] = s]
          BY <3>3, <4>3, <5>1
        <5> QED BY <5>3, <5>4 DEF Only
      <4> QED BY <4>2, <4>3
    <3> QED BY <2>2, <3>1, <3>2, <3>3 DEF Read
  <2> QED BY <1>2, <2>1, <2>2
<1>3. CASE Create(c) \/ ReleaseLogin(c) \/ Stop(c) \/ Scrub(c) \/ Drop(c)
           \/ Gather(c) \/ Stored(c) \/ Destroy(c)
  BY <1>3, GotoIs DEF Create, ReleaseLogin, Stop, Scrub, Drop, Gather, Stored, Destroy, PCs
<1>4. CASE Touch(c) \/ Hold(c) \/ DestroyFails(c) \/ MarkDestroyed(c) \/ CallLost(c)
  BY <1>4, ReturnIs DEF Touch, Hold, DestroyFails, MarkDestroyed, CallLost
<1>5. CASE ReadBack(c)
  <2>1. PICK s : s = [Idle EXCEPT !.pc = "claim", !.at = call[c].at, !.st = "pending"]
    OBVIOUS
  <2>2. s \in CallType
    BY <1>1, <1>5, <2>1, RecordsTyped DEF ReadBack, CallType, PCs, Live
  <2>3. call' = [call EXCEPT ![c] = s] \/ call' = [call EXCEPT ![c] = Idle]
    BY <1>5, <2>1 DEF ReadBack
  <2> QED BY <2>2, <2>3, RecordsTyped DEF Only
<1>6. CASE Claim(c) \/ ToCollecting(c)
  BY <1>6, ReturnIs DEF Claim, ToCollecting, Only, CallType, PCs
<1>7. CASE AcquireLogin(c) \/ WriteLogin(c) \/ Collect(c)
  BY <1>7 DEF AcquireLogin, WriteLogin, Collect, Only, CallType, PCs, VaultType
<1>8. CASE Exec(c) \/ MarkStarted(c) \/ StartFails(c)
  BY <1>8, GotoIs, FailedIs, ReturnIs DEF Exec, MarkStarted, StartFails, PCs, Ends
<1>9. CASE Observe(c)
  BY <1>9, GotoIs, FailedIs DEF Observe, PCs, Ends
<1>10. CASE Resume(c)
  <2>1. CASE Failed(c, "failed", FALSE)
    BY <2>1, FailedIs DEF Ends
  <2>2. CASE call' = [call EXCEPT ![c].pc = "put", ![c].tag = lease[call[c].at],
                                  ![c].holds = box[call[c].at].holds]
    <3>1. /\ lease[call[c].at] \in Tags \cup {NoTag}
          /\ box[call[c].at].holds \in SUBSET Refreshers
      BY <1>1, <1>10 DEF Resume, VaultType, BoxType
    <3> QED BY <2>2, <3>1 DEF Only, CallType, PCs
  <2> QED BY <1>10, <2>1, <2>2 DEF Resume
<1>11. CASE Put(c)
  <2>1. object'.etag \in Tags
    BY <1>11, ConstantFacts DEF Put, Replace, VaultType, Tags, vaultVars
  <2> QED BY <1>11, <2>1 DEF Put, Only, CallType, PCs
<1>12. CASE PutFails(c) \/ Record(c)
  BY <1>12 DEF PutFails, Record, Only, CallType, PCs, Ends, NoTag
<1>13. CASE DeleteLogin(c) \/ GatherFails(c)
  <2>1. CASE Failed(c, "failed", FALSE)
    BY <2>1, FailedIs DEF Ends
  <2>2. CASE call' = [call EXCEPT ![c].pc = "gather", ![c].kind = "result"]
    <3>1. "gather" \in PCs /\ "result" \in Kinds
      BY DEF PCs, Kinds
    <3> QED BY <2>2, <3>1 DEF Only, CallType
  <2>3. CASE Return(c)
    BY <2>3, ReturnIs
  <2> QED BY <1>13, <2>1, <2>2, <2>3 DEF DeleteLogin, GatherFails
<1>14. CASE Accept(c) \/ Unverified(c)
  BY <1>14, ReturnIs DEF Accept, Unverified, PCs, Ends, Only, CallType
<1>15. CASE Finish(c)
  BY <1>15, GotoIs, ReturnIs DEF Finish, PCs
<1> QED
  BY <1>2, <1>3, <1>4, <1>5, <1>6, <1>7, <1>8, <1>9, <1>10, <1>11, <1>12, <1>13, <1>14, <1>15
     DEF CallStep
-----------------------------------------------------------------------------
(* What a step does to the row of an attempt.                               *)

Inserted(a) == /\ row[a] = NoRow
               /\ row'[a] \in RowType /\ row'[a].state = "pending" /\ ~row'[a].process
               /\ row'[a].cleanup = "pending" /\ ~row'[a].operator
Claimed(a) == row[a].state = "pending" /\ row'[a] = [row[a] EXCEPT !.state = "starting"]
Recorded(a) == /\ row[a].state = "starting"
               /\ row'[a] = [row[a] EXCEPT !.state = "running", !.process = TRUE]
Collected(a) == /\ row[a].state \in Live
                /\ row[a].process => box[a].proc # "running" /\ box'[a] = box[a]
                /\ row'[a] = [row[a] EXCEPT !.state = "collecting"]
Finished(a) == /\ row[a].state = "collecting"
               /\ \E end \in Ends, kind \in Kinds :
                    /\ row'[a] = [row[a] EXCEPT !.state = end, !.manifest = kind]
                    /\ <<a, kind>> \in r2
                    /\ end \in {"completed", "blocked"} => LoginGone(a)
               /\ UNCHANGED <<lease, box>>
Interrupted(a) == /\ row[a].state = "collecting"
                  /\ row'[a] = [row[a] EXCEPT !.state = "interrupted", !.operator = TRUE]
Cleaned(a) == \E cleanup \in {"pending", "destroyed", "failed"}, hold \in {"none", "held", "over"} :
                /\ row[a] # NoRow /\ (cleanup = row[a].cleanup \/ a \in Ended)
                /\ row'[a] = [row[a] EXCEPT !.cleanup = cleanup, !.hold = hold]

RowMoves(a) == \/ row'[a] = row[a]
               \/ Inserted(a) \/ Claimed(a) \/ Recorded(a) \/ Collected(a)
               \/ Finished(a) \/ Interrupted(a) \/ Cleaned(a)

\* The steps that are neither a call's nor the loss of one.
Outside == \/ CronStep \/ CronLost \/ OperatorStep
           \/ \E a \in Attempts : AgentExits(a) \/ Happens(a)
           \/ OthersRefresh \/ Revisit \/ UNCHANGED vars

LEMMA RowMovesTyped ==
  ASSUME NEW a \in Attempts, row[a] \in RowType, RowMoves(a)
  PROVE  row'[a] \in RowType
<1>1. CASE Inserted(a)
  BY <1>1, RecordsTyped DEF Inserted, RowType, Live
<1>2. CASE Claimed(a) \/ Recorded(a) \/ Collected(a) \/ Interrupted(a)
  BY <1>2 DEF Claimed, Recorded, Collected, Interrupted, RowType, Live, Ends
<1>3. CASE Finished(a)
  BY <1>3 DEF Finished, RowType, Kinds
<1>4. CASE Cleaned(a)
  BY <1>4 DEF Cleaned, RowType
<1> QED BY <1>1, <1>2, <1>3, <1>4 DEF RowMoves

\* The row of one attempt is set.
LEMMA RowSet ==
  ASSUME row \in [Attempts -> RowType], NEW at \in Attempts, NEW r,
         row' = [row EXCEPT ![at] = r], RowMoves(at)
  PROVE  /\ row' \in [Attempts -> RowType]
         /\ \A a \in Attempts : RowMoves(a)
         /\ \A a \in Attempts : Inserted(a) \/ Recorded(a) => a = at
<1>1. r \in RowType
  BY RowMovesTyped
<1>2. \A a \in Attempts : a # at => row'[a] = row[a]
  OBVIOUS
<1>3. ASSUME NEW a \in Attempts, a # at
      PROVE  RowMoves(a) /\ ~Inserted(a) /\ ~Recorded(a)
  <2>1. row'[a] = row[a]
    BY <1>2, <1>3
  <2>2. ~Inserted(a)
    BY <2>1 DEF Inserted, NoRow
  <2>3. ~Recorded(a)
    BY <2>1 DEF Recorded, RowType
  <2> QED BY <2>1, <2>2, <2>3 DEF RowMoves
<1> QED BY <1>1, <1>3

LEMMA RowSame ==
  ASSUME row \in [Attempts -> RowType], row' = row
  PROVE  /\ row' \in [Attempts -> RowType]
         /\ \A a \in Attempts : RowMoves(a)
         /\ \A a \in Attempts : ~Inserted(a) /\ ~Recorded(a) /\ row'[a].state = row[a].state
<1>1. ASSUME NEW a \in Attempts
      PROVE  RowMoves(a) /\ ~Inserted(a) /\ ~Recorded(a) /\ row'[a].state = row[a].state
  <2>1. row'[a] = row[a] /\ row[a] \in RowType
    OBVIOUS
  <2>2. ~Inserted(a)
    BY <2>1 DEF Inserted, NoRow
  <2>3. ~Recorded(a)
    BY <2>1 DEF Recorded, RowType
  <2> QED BY <2>1, <2>2, <2>3 DEF RowMoves
<1> QED BY <1>1

\* The cleanup state and the hold of one attempt are set.
LEMMA CleanedSet ==
  ASSUME row \in [Attempts -> RowType], NEW at \in Attempts, row[at] # NoRow,
         NEW cleanup \in {"pending", "destroyed", "failed"}, NEW hold \in {"none", "held", "over"},
         cleanup = row[at].cleanup \/ at \in Ended,
         row' = [row EXCEPT ![at] = [row[at] EXCEPT !.cleanup = cleanup, !.hold = hold]]
  PROVE  /\ row' \in [Attempts -> RowType]
         /\ \A a \in Attempts : RowMoves(a)
         /\ \A a \in Attempts : ~Inserted(a) /\ ~Recorded(a) /\ row'[a].state = row[a].state
<1>1. row'[at] = [row[at] EXCEPT !.cleanup = cleanup, !.hold = hold] /\ row[at] \in RowType
  OBVIOUS
<1>2. Cleaned(at)
  BY <1>1, Zenon DEF Cleaned
<1>3. ~Inserted(at)
  BY DEF Inserted
<1>4. ~Recorded(at)
  BY <1>1 DEF Recorded, RowType
<1>5. \A a \in Attempts : row'[a].state = row[a].state
  BY <1>1 DEF RowType
<1> QED BY <1>2, <1>3, <1>4, <1>5, RowSet DEF RowMoves

\* A call changes at most the row of its own attempt.
LEMMA CallRow ==
  ASSUME IInv, NEW c \in Calls, CallStep(c) \/ CallLost(c)
  PROVE  /\ row' \in [Attempts -> RowType]
         /\ \A a \in Attempts : RowMoves(a)
         /\ \A a \in Attempts : Inserted(a) => Create(c) /\ a = call[c].at
         /\ \A a \in Attempts : Recorded(a) => MarkStarted(c) /\ a = call[c].at
<1>0. /\ TypeOK /\ row \in [Attempts -> RowType] /\ CallFits(call[c]) /\ call[c] \in CallType
      /\ ProcessFits /\ Stopped
  BY DEF IInv, TypeOK, CallsFit
<1>a. PICK at : at = call[c].at
  OBVIOUS
<1> USE <1>a
<1> DEFINE Goal == /\ row' \in [Attempts -> RowType]
                   /\ \A a \in Attempts : RowMoves(a)
                   /\ \A a \in Attempts : Inserted(a) => Create(c) /\ a = call[c].at
                   /\ \A a \in Attempts : Recorded(a) => MarkStarted(c) /\ a = call[c].at
<1>1. ASSUME NEW r, at \in Attempts, row' = [row EXCEPT ![at] = r],
             RowMoves(at), Inserted(at) => Create(c), Recorded(at) => MarkStarted(c)
      PROVE  Goal
  BY <1>0, <1>1, <1>a, RowSet
<1>2. row' = row => Goal
  BY <1>0, RowSame
<1> SUFFICES Goal
  OBVIOUS
<1> HIDE DEF Goal
<1>3. call[c].pc \notin {"idle", "read"} => at \in Attempts
  BY <1>0, <1>a DEF CallFits, AttemptFits
<1>4. CASE Create(c)
  <2>1. /\ at \in Attempts /\ row[at] = NoRow /\ call[c].visit \in Nat
    BY <1>0, <1>3, <1>4 DEF Create, CallFits, AttemptFits, CallType
  <2>2. row' = [row EXCEPT ![at] = [NoRow EXCEPT !.state = "pending", !.visit = call[c].visit]]
    BY <1>4 DEF Create, SetRow
  <2>3. row'[at] = [NoRow EXCEPT !.state = "pending", !.visit = call[c].visit]
    BY <1>0, <2>1, <2>2
  <2>4. Inserted(at) /\ ~Recorded(at)
    BY <2>1, <2>3 DEF Inserted, Recorded, NoRow, RowType, Live
  <2> QED BY <1>1, <1>4, <2>1, <2>2, <2>4 DEF RowMoves
<1>5. CASE Claim(c)
  <2>1. at \in Attempts
    BY <1>3, <1>5 DEF Claim
  <2>2. CASE row' = row
    BY <1>2, <2>2
  <2>3. CASE row[at].state = "pending" /\ row' = [row EXCEPT ![at].state = "starting"]
    <3>1. row' = [row EXCEPT ![at] = [row[at] EXCEPT !.state = "starting"]]
      BY <2>3
    <3>2. row'[at] = [row[at] EXCEPT !.state = "starting"]
      BY <1>0, <2>1, <3>1
    <3>3. Claimed(at) /\ ~Inserted(at) /\ ~Recorded(at)
      BY <2>3, <3>2 DEF Claimed, Inserted, Recorded, NoRow
    <3> QED BY <1>1, <2>1, <3>1, <3>3 DEF RowMoves
  <2> QED BY <1>5, <2>2, <2>3 DEF Claim, SetState
<1>6. CASE MarkStarted(c)
  <2>1. at \in Attempts /\ row[at].state # "pending"
    BY <1>0, <1>3, <1>6 DEF MarkStarted, CallFits, StartFits, Starting
  <2>2. CASE row' = row
    BY <1>2, <2>2
  <2>3. CASE row[at].state = "starting"
             /\ row' = [row EXCEPT ![at] = [row[at] EXCEPT !.state = "running", !.process = TRUE]]
    <3>1. row'[at] = [row[at] EXCEPT !.state = "running", !.process = TRUE]
      BY <1>0, <2>1, <2>3
    <3>2. Recorded(at) /\ ~Inserted(at)
      BY <2>3, <3>1 DEF Inserted, Recorded, NoRow
    <3> QED BY <1>1, <1>6, <2>1, <2>3, <3>2 DEF RowMoves
  <2> QED BY <1>6, <2>1, <2>2, <2>3 DEF MarkStarted, SetRow
<1>7. CASE Collect(c) \/ ToCollecting(c)
  <2>1. at \in Attempts /\ box' = box /\ row[at] \in RowType
    BY <1>0, <1>3, <1>7 DEF Collect, ToCollecting
  <2>2. CASE row' = row
    BY <1>2, <2>2
  <2>3. ASSUME row' = [row EXCEPT ![at].state = "collecting"], row[at].state \in Live,
               row[at].process => box[at].proc # "running"
        PROVE  Goal
    <3>1. row' = [row EXCEPT ![at] = [row[at] EXCEPT !.state = "collecting"]]
      BY <2>3
    <3>2. row'[at] = [row[at] EXCEPT !.state = "collecting"]
      BY <1>0, <2>1, <3>1
    <3>3. Collected(at)
      BY <2>1, <2>3, <3>2 DEF Collected
    <3>4. ~Inserted(at)
      BY <2>3 DEF Inserted, NoRow, Live
    <3>5. ~Recorded(at)
      BY <2>1, <3>2 DEF Recorded, RowType
    <3> QED BY <1>1, <2>1, <3>1, <3>3, <3>4, <3>5 DEF RowMoves
  <2>4. CASE Collect(c)
    <3>1. row' = [row EXCEPT ![at].state = IF row[at].state = "running" THEN "collecting"
                                           ELSE row[at].state]
      BY <2>4 DEF Collect
    <3>2. CASE row[at].state = "running"
      <4>1. box[at].proc # "running"
        BY <1>0, <2>4 DEF Collect, CallFits, LoginFits
      <4>2. row' = [row EXCEPT ![at].state = "collecting"]
        BY <3>1, <3>2
      <4> QED BY <2>3, <3>2, <4>1, <4>2 DEF Live
    <3>3. CASE row[at].state # "running"
      <4>1. row' = [row EXCEPT ![at].state = row[at].state]
        BY <3>1, <3>3
      <4>2. [row[at] EXCEPT !.state = row[at].state] = row[at]
        BY <2>1 DEF RowType
      <4>3. row' = row
        BY <1>0, <2>1, <4>1, <4>2
      <4> QED BY <2>2, <4>3
    <3> QED BY <3>2, <3>3
  <2>5. CASE ToCollecting(c)
    <3>1. CASE row[at].state = call[c].st
      <4>1. row' = [row EXCEPT ![at].state = "collecting"]
        BY <2>5, <3>1 DEF ToCollecting, SetState
      <4>2. row[at].state # "none"
        BY <1>0, <2>5 DEF ToCollecting, CallFits, AttemptFits, Rows
      <4>3. row[at].state \in Live
        BY <1>0, <3>1, <4>2 DEF CallType
      <4>4. row[at].process => row[at].state \in {"running", "collecting"}
        BY <1>0, <2>1, <4>3 DEF ProcessFits, Live, Ends
      <4>5. call[c].st = "running" => box[at].proc # "running"
        BY <1>0, <2>5 DEF ToCollecting, CallFits, ProcessSeen, Failing
      <4>6. row[at].process => box[at].proc # "running"
        BY <1>0, <2>1, <3>1, <4>4, <4>5 DEF Stopped
      <4> QED BY <2>3, <4>1, <4>3, <4>6
    <3>2. CASE row[at].state # call[c].st
      BY <2>2, <2>5, <3>2 DEF ToCollecting
    <3> QED BY <3>1, <3>2
  <2> QED BY <1>7, <2>4, <2>5
<1>8. CASE Finish(c)
  <2>1. at \in Attempts
    BY <1>3, <1>8 DEF Finish
  <2>2. CASE row' = row
    BY <1>2, <2>2
  <2>3. CASE row' # row
    <3>1. /\ row[at].state = "collecting" /\ UNCHANGED <<lease, box>>
          /\ row' = [row EXCEPT ![at] = [row[at] EXCEPT !.state = call[c].end,
                                                         !.manifest = call[c].kind]]
      BY <1>8, <2>3 DEF Finish, SetRow, vaultVars
    <3>2. /\ call[c].end \in Ends /\ call[c].kind \in Kinds /\ <<at, call[c].kind>> \in r2
          /\ call[c].end \in {"completed", "blocked"} => LoginGone(at)
      BY <1>0, <1>8 DEF Finish, CallFits, EndFits, LoginFits, Kinds, Keeping
    <3>3. row'[at] = [row[at] EXCEPT !.state = call[c].end, !.manifest = call[c].kind]
      BY <1>0, <2>1, <3>1
    <3>4. Finished(at)
      BY <3>1, <3>2, <3>3, Zenon DEF Finished
    <3>5. ~Inserted(at) /\ ~Recorded(at)
      BY <3>1 DEF Inserted, Recorded, NoRow
    <3> QED BY <1>1, <2>1, <3>1, <3>4, <3>5 DEF RowMoves
  <2> QED BY <2>2, <2>3
<1>9. CASE Hold(c) \/ DestroyFails(c) \/ MarkDestroyed(c)
  <2>1. at \in Attempts /\ at \in Ended
    BY <1>0, <1>3, <1>9 DEF Hold, DestroyFails, MarkDestroyed, CallFits, EndFits, Ending
  <2>2. row[at].state \in Ends /\ row[at] \in RowType
    BY <1>0, <2>1 DEF Ended
  <2>3. PICK cleanup \in {"pending", "destroyed", "failed"}, hold \in {"none", "held", "over"} :
          row' = [row EXCEPT ![at] = [row[at] EXCEPT !.cleanup = cleanup, !.hold = hold]]
    <3>1. CASE Hold(c)
      <4>1. PICK hold \in {"none", "held", "over"} : row' = [row EXCEPT ![at].hold = hold]
        BY <2>2, <3>1 DEF Hold, RowType
      <4>2. row' = [row EXCEPT ![at] = [row[at] EXCEPT !.cleanup = row[at].cleanup, !.hold = hold]]
        BY <2>2, <4>1 DEF RowType
      <4> QED BY <2>2, <4>1, <4>2 DEF RowType
    <3>2. CASE DestroyFails(c) \/ MarkDestroyed(c)
      <4>0. /\ row[at].hold \in {"none", "held", "over"}
            /\ "destroyed" \in {"destroyed", "failed"} /\ "failed" \in {"destroyed", "failed"}
        BY <2>2 DEF RowType
      <4>1. PICK cleanup \in {"destroyed", "failed"} :
              row' = [row EXCEPT ![at] = [row[at] EXCEPT !.cleanup = cleanup]]
        BY <3>2, <4>0, Zenon DEF DestroyFails, MarkDestroyed, SetRow
      <4>2. row' = [row EXCEPT ![at] = [row[at] EXCEPT !.cleanup = cleanup, !.hold = row[at].hold]]
        BY <2>2, <4>1 DEF RowType
      <4> QED BY <2>2, <4>1, <4>2 DEF RowType
    <3> QED BY <1>9, <3>1, <3>2
  <2>4. row[at] # NoRow
    BY <2>2 DEF NoRow, Ends
  <2> QED BY <1>0, <2>1, <2>3, <2>4, CleanedSet DEF Goal
<1>10. CASE \/ Begin(c) \/ Read(c) \/ ReadBack(c) \/ AcquireLogin(c) \/ WriteLogin(c) \/ Exec(c)
            \/ StartFails(c) \/ Observe(c) \/ Touch(c) \/ Resume(c) \/ Put(c) \/ PutFails(c)
            \/ Record(c) \/ ReleaseLogin(c) \/ DeleteLogin(c) \/ Accept(c) \/ Stop(c) \/ Scrub(c)
            \/ Drop(c) \/ Gather(c) \/ Stored(c) \/ Unverified(c) \/ GatherFails(c) \/ Destroy(c)
            \/ CallLost(c)
  <2>1. row' = row
    BY <1>10 DEF Begin, Read, ReadBack, AcquireLogin, WriteLogin, Exec, StartFails, Observe,
       Touch, Resume, Put, PutFails, Record, ReleaseLogin, DeleteLogin, Accept, Stop, Scrub,
       Drop, Gather, Stored, Unverified, GatherFails, Destroy, CallLost
  <2> QED BY <1>2, <2>1
<1> QED BY <1>4, <1>5, <1>6, <1>7, <1>8, <1>9, <1>10 DEF CallStep

\* Without a step of a call no row is inserted and no process recorded.
LEMMA OutsideRow ==
  ASSUME IInv, Outside
  PROVE  /\ call' = call
         /\ row' \in [Attempts -> RowType]
         /\ \A a \in Attempts : RowMoves(a) /\ ~Inserted(a) /\ ~Recorded(a)
         /\ \A a \in Attempts : row'[a].state = row[a].state \/ Interrupted(a)
<1>0. /\ TypeOK /\ row \in [Attempts -> RowType] /\ CleanupFits
      /\ operator \in RequestType /\ cron \in [todo : SUBSET Attempts, at : Attempts \cup {0}]
  BY DEF IInv, TypeOK
<1> DEFINE Goal == /\ row' \in [Attempts -> RowType]
                   /\ \A a \in Attempts : RowMoves(a) /\ ~Inserted(a) /\ ~Recorded(a)
                   /\ \A a \in Attempts : row'[a].state = row[a].state \/ Interrupted(a)
<1>1. call' = call
  BY DEF Outside, CronStep, CronList, CronDestroy, CronDestroyFails, CronMark, CronLost,
     OperatorStep, OperatorAsks, OperatorClaim, OperatorDestroy, OperatorMark, AgentExits,
     Happens, DeadlinePasses, HoldExpires, ContainerLost, OthersRefresh, Revisit, others, rest, vars
<1>2. row' = row => Goal
  BY <1>0, RowSame
<1>3. ASSUME NEW at \in Ended, NEW cleanup \in {"pending", "destroyed", "failed"},
             NEW hold \in {"none", "held", "over"},
             row' = [row EXCEPT ![at] = [row[at] EXCEPT !.cleanup = cleanup, !.hold = hold]]
      PROVE  Goal
  <2>1. at \in Attempts /\ row[at] # NoRow
    BY DEF Ended, NoRow, Ends
  <2> QED BY <1>0, <1>3, <2>1, CleanedSet
<1> SUFFICES Goal
  BY <1>1
<1> HIDE DEF Goal
<1>4. CASE CronDestroyFails
  <2>1. cron.todo \in SUBSET Attempts /\ cron.todo # {}
    BY <1>0, <1>4 DEF CronDestroyFails
  <2>2. PICK at : at = Min(cron.todo)
    OBVIOUS
  <2>3. at \in Ended
    BY <1>0, <2>1, <2>2, MinIs, ConstantFacts DEF CleanupFits
  <2>4. row' = [row EXCEPT ![at] = [row[at] EXCEPT !.cleanup = "failed", !.hold = "none"]]
    BY <1>4, <2>2 DEF CronDestroyFails, SetRow
  <2> QED BY <1>3, <2>3, <2>4
<1>5. CASE CronMark
  <2>1. PICK at : at = cron.at
    OBVIOUS
  <2>2. at \in Ended
    BY <1>0, <1>5, <2>1 DEF CronMark, CleanupFits
  <2>3. row' = [row EXCEPT ![at] = [row[at] EXCEPT !.cleanup = "destroyed", !.hold = "none"]]
    BY <1>5, <2>1 DEF CronMark, SetRow
  <2> QED BY <1>3, <2>2, <2>3
<1>6. CASE OperatorClaim
  <2>1. CASE row' = row
    BY <1>2, <2>1
  <2>2. CASE row' # row
    <3>1. PICK at : at = operator.at
      OBVIOUS
    <3>2. at \in Attempts /\ row[at] \in RowType
      BY <1>0, <1>6, <3>1 DEF OperatorClaim, CleanupFits
    <3>3. CASE operator.seen.state = "collecting"
      <4>1. row[at].state = "collecting"
        BY <1>6, <2>2, <3>1, <3>3 DEF OperatorClaim
      <4>2. row' = [row EXCEPT ![at] = [row[at] EXCEPT !.state = "interrupted", !.operator = TRUE]]
        BY <1>6, <2>2, <3>1, <3>3 DEF OperatorClaim, SetRow
      <4>3. row'[at] = [row[at] EXCEPT !.state = "interrupted", !.operator = TRUE]
        BY <1>0, <3>2, <4>2
      <4>4. Interrupted(at)
        BY <4>1, <4>3 DEF Interrupted
      <4>5. ~Inserted(at) /\ ~Recorded(at)
        BY <4>1 DEF Inserted, Recorded, NoRow
      <4>6. \A a \in Attempts : a # at => row'[a] = row[a]
        BY <1>0, <4>2
      <4> QED BY <1>0, <3>2, <4>2, <4>4, <4>5, <4>6, RowSet DEF RowMoves, Goal
    <3>4. CASE operator.seen.state # "collecting"
      <4>1. row' = [row EXCEPT ![at] = [row[at] EXCEPT !.state = row[at].state,
                                          !.operator = row[at].operator \/ FALSE]]
        BY <1>6, <2>2, <3>1, <3>4 DEF OperatorClaim, SetRow
      <4>2. [row[at] EXCEPT !.state = row[at].state, !.operator = row[at].operator \/ FALSE]
              = row[at]
        BY <3>2 DEF RowType
      <4>3. row' = row
        BY <1>0, <3>2, <4>1, <4>2
      <4> QED BY <2>2, <4>3
    <3> QED BY <3>3, <3>4
  <2> QED BY <2>1, <2>2
<1>7. CASE OperatorMark
  <2>1. PICK at : at = operator.at
    OBVIOUS
  <2>2. at \in Ended
    BY <1>0, <1>7, <2>1 DEF OperatorMark, CleanupFits
  <2>3. PICK cleanup \in {"pending", "destroyed", "failed"} :
          row' = [row EXCEPT ![at] = [row[at] EXCEPT !.cleanup = cleanup, !.hold = "none"]]
    BY <1>7, <2>1 DEF OperatorMark, SetRow
  <2> QED BY <1>3, <2>2, <2>3
<1>8. ASSUME NEW at \in Attempts, HoldExpires(at)
      PROVE  Goal
  <2>1. row[at].hold = "held" /\ row[at] \in RowType
    BY <1>0, <1>8 DEF HoldExpires
  <2>2. row' = [row EXCEPT ![at] = [row[at] EXCEPT !.hold = "over"]]
    BY <1>8 DEF HoldExpires, SetRow
  <2>3. [row[at] EXCEPT !.hold = "over"]
          = [row[at] EXCEPT !.cleanup = row[at].cleanup, !.hold = "over"]
    BY <2>1 DEF RowType
  <2>4. row[at] # NoRow /\ row[at].cleanup \in {"pending", "destroyed", "failed"}
    BY <2>1 DEF NoRow, RowType
  <2>5. row' = [row EXCEPT ![at] = [row[at] EXCEPT !.cleanup = row[at].cleanup, !.hold = "over"]]
    BY <2>2, <2>3
  <2> QED BY <1>0, <2>4, <2>5, CleanedSet DEF Goal
<1>9. CASE \/ CronList \/ CronDestroy \/ CronLost \/ OperatorAsks \/ OperatorDestroy
           \/ OthersRefresh \/ Revisit \/ UNCHANGED vars
           \/ \E a \in Attempts : AgentExits(a) \/ DeadlinePasses(a) \/ ContainerLost(a)
  <2>1. row' = row
    BY <1>9 DEF CronList, CronDestroy, CronLost, OperatorAsks, OperatorDestroy, OthersRefresh,
       Revisit, AgentExits, DeadlinePasses, ContainerLost, vars
  <2> QED BY <1>2, <2>1
<1> QED
  BY <1>4, <1>5, <1>6, <1>7, <1>8, <1>9 DEF Outside, CronStep, OperatorStep, Happens
-----------------------------------------------------------------------------
(* What no step takes back.                                                 *)

\* Once its process is recorded, no login comes back and no process starts.
Kept(a) == row[a].process =>
             /\ lease[a] = NoTag => lease'[a] = NoTag
             /\ ~box[a].auth => ~box'[a].auth
             /\ box[a].proc # "running" => box'[a].proc # "running"

Moves == /\ row \in [Attempts -> RowType] /\ row' \in [Attempts -> RowType]
         /\ \A a \in Attempts : RowMoves(a) /\ Kept(a)
         /\ r2 \subseteq r2' /\ issued <= issued' /\ issued \in Nat /\ issued' \in Nat

LEMMA RowStays ==
  ASSUME NEW a \in Attempts, row[a] \in RowType, RowMoves(a)
  PROVE  /\ row'[a] \in RowType
         /\ row[a].state # "none" => row'[a].state # "none"
         /\ row[a].state \notin {"none", "pending"} => row'[a].state \notin {"none", "pending"}
         /\ row[a].process => row'[a].process
         /\ row[a].state \in Ends => /\ row'[a].state = row[a].state
                                     /\ row'[a].manifest = row[a].manifest
                                     /\ row'[a].operator = row[a].operator
         /\ row'[a].process /\ ~row[a].process => Recorded(a)
         /\ row'[a].state = "running" /\ row[a].state # "running" => Recorded(a)
         /\ row[a] = NoRow /\ ~Inserted(a) => row'[a] = NoRow
<1>0. row'[a] \in RowType
  BY RowMovesTyped
<1>1. CASE row'[a] = row[a]
  BY <1>0, <1>1
<1>2. CASE Inserted(a)
  BY <1>0, <1>2 DEF Inserted, NoRow, Ends
<1>3. CASE Claimed(a)
  BY <1>0, <1>3 DEF Claimed, RowType, NoRow, Ends
<1>4. CASE Recorded(a)
  BY <1>0, <1>4 DEF Recorded, RowType, NoRow, Ends
<1>5. CASE Collected(a)
  BY <1>0, <1>5 DEF Collected, RowType, NoRow, Ends, Live
<1>6. CASE Finished(a)
  BY <1>0, <1>6 DEF Finished, RowType, NoRow, Ends
<1>7. CASE Interrupted(a)
  BY <1>0, <1>7 DEF Interrupted, RowType, NoRow, Ends
<1>8. CASE Cleaned(a)
  BY <1>0, <1>8 DEF Cleaned, RowType
<1> QED BY <1>1, <1>2, <1>3, <1>4, <1>5, <1>6, <1>7, <1>8 DEF RowMoves

LEMMA EndedStays ==
  ASSUME Moves
  PROVE  Ended \subseteq Ended' /\ Rows \subseteq Rows'
BY RowStays DEF Moves, Ended, Rows

\* The sandbox of one attempt is set.
LEMMA BoxSet ==
  ASSUME box \in [Attempts -> BoxType], BoxFits, NEW at \in Attempts, NEW b \in BoxType,
         box' = [box EXCEPT ![at] = b], ~b.up => ~b.auth /\ b.proc = "none"
  PROVE  /\ box' \in [Attempts -> BoxType] /\ BoxFits' /\ box'[at] = b
         /\ \A a \in Attempts : a # at => box'[a] = box[a]
BY DEF BoxFits

\* Only the calls that start an attempt bring a login or a process.
LEMMA CallKeeps ==
  ASSUME IInv, NEW c \in Calls, CallStep(c) \/ CallLost(c)
  PROVE  /\ VaultType' /\ box' \in [Attempts -> BoxType] /\ BoxFits'
         /\ \A a \in Attempts : Kept(a)
<1>0. /\ VaultType /\ BoxFits /\ CallFits(call[c]) /\ call[c] \in CallType
      /\ box \in [Attempts -> BoxType] /\ lease \in [Attempts -> Tags \cup {NoTag}]
      /\ object \in [etag : Tags, holds : SUBSET Refreshers]
  BY DEF IInv, TypeOK, CallsFit, VaultType
<1>a. PICK at : at = call[c].at
  OBVIOUS
<1> USE <1>a
<1> DEFINE Goal == /\ VaultType' /\ box' \in [Attempts -> BoxType] /\ BoxFits'
                   /\ \A a \in Attempts : Kept(a)
<1>1. CASE lease' = lease /\ object' = object /\ box' = box
  BY <1>0, <1>1 DEF VaultType, BoxFits, Kept
<1>2. ASSUME NEW b \in BoxType, at \in Attempts, lease' = lease, object' = object,
             box' = [box EXCEPT ![at] = b], ~b.up => ~b.auth /\ b.proc = "none",
             row[at].process => /\ ~box[at].auth => ~b.auth
                                /\ box[at].proc # "running" => b.proc # "running"
      PROVE  Goal
  <2>1. /\ box' \in [Attempts -> BoxType] /\ BoxFits' /\ box'[at] = b
        /\ \A a \in Attempts : a # at => box'[a] = box[a]
    BY <1>0, <1>2, BoxSet
  <2>2. VaultType'
    BY <1>0, <1>2 DEF VaultType
  <2> QED BY <1>2, <2>1, <2>2 DEF Kept
<1>3. ASSUME NEW t \in Tags \cup {NoTag}, at \in Attempts, object' = object, box' = box,
             lease' = [lease EXCEPT ![at] = t],
             row[at].process => (lease[at] = NoTag => t = NoTag)
      PROVE  Goal
  BY <1>0, <1>3 DEF VaultType, BoxFits, Kept
<1> SUFFICES Goal
  OBVIOUS
<1> HIDE DEF Goal
<1>4. call[c].pc \notin {"idle", "read"} => at \in Attempts /\ box[at] \in BoxType
  BY <1>0 DEF CallFits, AttemptFits
<1>5. CASE AcquireLogin(c)
  <2>1. at \in Attempts /\ ~row[at].process
    BY <1>0, <1>4, <1>5 DEF AcquireLogin, CallFits, StartFits, Starting
  <2>2. PICK t \in Tags : t = object.etag
    BY <1>0
  <2>3. object' = object /\ box' = box /\ lease' = [lease EXCEPT ![at] = t]
    BY <1>5, <2>2 DEF AcquireLogin, Acquire
  <2> QED BY <1>3, <2>1, <2>2, <2>3
<1>6. CASE WriteLogin(c)
  <2>1. at \in Attempts /\ ~row[at].process /\ box[at] \in BoxType
    BY <1>0, <1>4, <1>6 DEF WriteLogin, CallFits, StartFits, Starting
  <2>2. PICK b : b = [box[at] EXCEPT !.up = TRUE, !.auth = TRUE, !.holds = call[c].holds]
    OBVIOUS
  <2>3. b \in BoxType /\ b.up
    BY <1>0, <2>1, <2>2 DEF BoxType, CallType
  <2>4. box' = [box EXCEPT ![at] = b] /\ lease' = lease /\ object' = object
    BY <1>6, <2>2 DEF WriteLogin, SetBox, vaultVars
  <2> QED BY <1>2, <2>1, <2>3, <2>4
<1>7. CASE Exec(c)
  <2>1. at \in Attempts /\ ~row[at].process /\ box[at] \in BoxType
    BY <1>0, <1>4, <1>7 DEF Exec, CallFits, StartFits, Starting
  <2>2. CASE box[at].auth
    <3>1. PICK b : b = [box[at] EXCEPT !.proc = "running"]
      OBVIOUS
    <3>2. b \in BoxType /\ b.up
      BY <1>0, <2>1, <2>2, <3>1 DEF BoxType, BoxFits
    <3>3. box' = [box EXCEPT ![at] = b] /\ lease' = lease /\ object' = object
      BY <1>7, <2>2, <3>1 DEF Exec, SetBox, vaultVars
    <3> QED BY <1>2, <2>1, <3>2, <3>3
  <2>3. CASE ~box[at].auth
    BY <1>1, <1>7, <2>3 DEF Exec, vaultVars, Goal
  <2> QED BY <2>2, <2>3
<1>8. CASE Put(c)
  <2>1. CASE UNCHANGED vaultVars
    BY <1>1, <1>8, <2>1 DEF Put, vaultVars, Goal
  <2>2. CASE Replace(call[c].tag, call[c].holds)
    <3>1. object' \in [etag : Tags, holds : SUBSET Refreshers]
      BY <1>0, <2>2, ConstantFacts DEF Replace, Tags, CallType
    <3>2. box' = box /\ lease' = lease
      BY <1>8, <2>2 DEF Put, Replace
    <3> QED BY <1>0, <3>1, <3>2 DEF VaultType, BoxFits, Kept, Goal
  <2> QED BY <1>8, <2>1, <2>2 DEF Put
<1>9. CASE Record(c)
  <2>1. at \in Attempts
    BY <1>4, <1>9 DEF Record
  <2>2. PICK t \in Tags \cup {NoTag} : t = IF lease[at] = NoTag THEN NoTag ELSE call[c].tag
    BY <1>0 DEF CallType
  <2>3. lease' = [lease EXCEPT ![at] = t] /\ object' = object /\ box' = box
    BY <1>9, <2>2 DEF Record, RecordRefresh
  <2> QED BY <1>3, <2>1, <2>2, <2>3
<1>10. CASE ReleaseLogin(c) \/ Drop(c)
  <2>1. at \in Attempts
    BY <1>4, <1>10 DEF ReleaseLogin, Drop
  <2>2. CASE Release(at)
    <3>1. lease' = [lease EXCEPT ![at] = NoTag] /\ object' = object /\ box' = box
      BY <1>10, <2>2 DEF ReleaseLogin, Drop, Release
    <3> QED BY <1>3, <2>1, <3>1
  <2>3. CASE UNCHANGED vaultVars
    BY <1>1, <1>10, <2>3 DEF ReleaseLogin, Drop, vaultVars, Goal
  <2> QED BY <1>10, <2>2, <2>3 DEF ReleaseLogin, Drop
<1>11. CASE DeleteLogin(c) \/ Scrub(c)
  <2>1. at \in Attempts /\ box[at] \in BoxType /\ lease' = lease /\ object' = object
    BY <1>4, <1>11 DEF DeleteLogin, Scrub, vaultVars
  <2>2. PICK b : b = [box[at] EXCEPT !.auth = FALSE, !.holds = {}]
    OBVIOUS
  <2>3. /\ b \in BoxType /\ ~b.auth /\ b.proc = box[at].proc /\ b.up = box[at].up
    BY <2>1, <2>2 DEF BoxType
  <2>4. ~b.up => ~b.auth /\ b.proc = "none"
    BY <1>0, <2>1, <2>3 DEF BoxFits
  <2>5. CASE box' = [box EXCEPT ![at] = b]
    BY <1>2, <2>1, <2>3, <2>4, <2>5
  <2>6. CASE box' = box
    BY <1>1, <2>1, <2>6 DEF Goal
  <2> QED BY <1>11, <2>2, <2>5, <2>6 DEF DeleteLogin, Scrub, SetBox
<1>12. CASE Stop(c)
  <2>1. at \in Attempts /\ box[at] \in BoxType /\ lease' = lease /\ object' = object
    BY <1>4, <1>12 DEF Stop, vaultVars
  <2>2. PICK b : b = [box[at] EXCEPT !.proc = "error"]
    OBVIOUS
  <2>3. b \in BoxType /\ b.auth = box[at].auth /\ b.proc = "error" /\ b.up = box[at].up
    BY <2>1, <2>2 DEF BoxType
  <2>4. CASE box[at].proc = "running" /\ box' = [box EXCEPT ![at] = b]
    <3>1. box[at].up
      BY <1>0, <2>1, <2>4 DEF BoxFits
    <3> QED BY <1>2, <2>1, <2>3, <2>4, <3>1
  <2>5. CASE box' = box
    BY <1>1, <2>1, <2>5 DEF Goal
  <2> QED BY <1>12, <2>2, <2>4, <2>5 DEF Stop, SetBox
<1>13. CASE Destroy(c)
  <2>1. at \in Attempts /\ box' = [box EXCEPT ![at] = NoBox] /\ lease' = lease /\ object' = object
    BY <1>4, <1>13 DEF Destroy, SetBox, vaultVars
  <2>2. NoBox \in BoxType /\ ~NoBox.auth /\ NoBox.proc = "none"
    BY RecordsTyped DEF NoBox
  <2> QED BY <1>2, <2>1, <2>2
<1>14. CASE \/ Begin(c) \/ Read(c) \/ Create(c) \/ ReadBack(c) \/ Claim(c) \/ MarkStarted(c)
            \/ StartFails(c) \/ Observe(c) \/ Touch(c) \/ Collect(c) \/ Resume(c) \/ PutFails(c)
            \/ Accept(c) \/ ToCollecting(c) \/ Gather(c) \/ Stored(c) \/ Unverified(c)
            \/ GatherFails(c) \/ Finish(c) \/ Hold(c) \/ DestroyFails(c) \/ MarkDestroyed(c)
            \/ CallLost(c)
  <2>1. UNCHANGED <<lease, object, box>>
    BY <1>14 DEF Begin, Read, Create, ReadBack, Claim, MarkStarted, StartFails, Observe, Touch,
       Collect, Resume, PutFails, Accept, ToCollecting, Gather, Stored, Unverified, GatherFails,
       Finish, Hold, DestroyFails, MarkDestroyed, CallLost, vaultVars
  <2> QED BY <1>1, <2>1 DEF Goal
<1> QED
  BY <1>5, <1>6, <1>7, <1>8, <1>9, <1>10, <1>11, <1>12, <1>13, <1>14 DEF CallStep

\* Scans, operators, agents and the platform only stop and destroy.
LEMMA OutsideKeeps ==
  ASSUME IInv, Outside
  PROVE  /\ VaultType' /\ box' \in [Attempts -> BoxType] /\ BoxFits'
         /\ \A a \in Attempts : Kept(a)
<1>0. /\ VaultType /\ BoxFits /\ CleanupFits /\ operator \in RequestType
      /\ cron \in [todo : SUBSET Attempts, at : Attempts \cup {0}]
      /\ box \in [Attempts -> BoxType] /\ lease \in [Attempts -> Tags \cup {NoTag}]
      /\ object \in [etag : Tags, holds : SUBSET Refreshers]
  BY DEF IInv, TypeOK, VaultType
<1> DEFINE Goal == /\ VaultType' /\ box' \in [Attempts -> BoxType] /\ BoxFits'
                   /\ \A a \in Attempts : Kept(a)
<1>1. CASE lease' = lease /\ object' = object /\ box' = box
  BY <1>0, <1>1 DEF VaultType, BoxFits, Kept
<1>2. ASSUME NEW at \in Attempts, NEW b \in BoxType, lease' = lease, object' = object,
             box' = [box EXCEPT ![at] = b], ~b.up => ~b.auth /\ b.proc = "none",
             row[at].process => /\ ~box[at].auth => ~b.auth
                                /\ box[at].proc # "running" => b.proc # "running"
      PROVE  Goal
  <2>1. /\ box' \in [Attempts -> BoxType] /\ BoxFits' /\ box'[at] = b
        /\ \A a \in Attempts : a # at => box'[a] = box[a]
    BY <1>0, <1>2, BoxSet
  <2>2. VaultType'
    BY <1>0, <1>2 DEF VaultType
  <2> QED BY <1>2, <2>1, <2>2 DEF Kept
<1>3. ASSUME NEW at \in Attempts, lease' = lease, object' = object,
             box' = [box EXCEPT ![at] = NoBox]
      PROVE  Goal
  <2>1. NoBox \in BoxType /\ ~NoBox.auth /\ NoBox.proc = "none"
    BY RecordsTyped DEF NoBox
  <2> QED BY <1>2, <1>3, <2>1
<1> SUFFICES Goal
  OBVIOUS
<1> HIDE DEF Goal
<1>4. CASE CronDestroy
  <2>1. PICK at : at = Min(cron.todo)
    OBVIOUS
  <2>2. cron.todo \subseteq Attempts /\ cron.todo # {} /\ cron.todo \subseteq Nat
    BY <1>0, <1>4, ConstantFacts DEF CronDestroy
  <2>3. at \in Attempts
    BY <2>1, <2>2, MinIs
  <2>4. box' = [box EXCEPT ![at] = NoBox] /\ lease' = lease /\ object' = object
    BY <1>4, <2>1 DEF CronDestroy, SetBox, vaultVars
  <2> QED BY <1>3, <2>3, <2>4
<1>5. CASE OperatorDestroy
  <2>1. PICK at : at = operator.at
    OBVIOUS
  <2>2. at \in Attempts
    BY <1>0, <1>5, <2>1 DEF OperatorDestroy, CleanupFits, Ended
  <2>3. box' = [box EXCEPT ![at] = NoBox] /\ lease' = lease /\ object' = object
    BY <1>5, <2>1 DEF OperatorDestroy, SetBox, vaultVars
  <2> QED BY <1>3, <2>2, <2>3
<1>6. ASSUME NEW at \in Attempts, AgentExits(at)
      PROVE  Goal
  <2>1. box[at] \in BoxType /\ lease' = lease /\ object' = object /\ box[at].proc = "running"
    BY <1>0, <1>6 DEF AgentExits, vaultVars
  <2>2. box[at].up
    BY <1>0, <2>1 DEF BoxFits
  <2>3. CASE SetBox(at, [box[at] EXCEPT !.proc = "error"])
    <3>1. PICK b : b = [box[at] EXCEPT !.proc = "error"]
      OBVIOUS
    <3>2. b \in BoxType /\ b.auth = box[at].auth /\ b.up /\ b.proc = "error"
      BY <2>1, <2>2, <3>1 DEF BoxType
    <3>3. box' = [box EXCEPT ![at] = b]
      BY <2>3, <3>1 DEF SetBox
    <3> QED BY <1>2, <2>1, <3>2, <3>3
  <2>4. ASSUME NEW holds \in {box[at].holds, box[at].holds \cup {at}},
               SetBox(at, [box[at] EXCEPT !.proc = "ok",
                                          !.holds = IF box[at].auth THEN holds ELSE {}])
        PROVE  Goal
    <3>1. PICK h : h = IF box[at].auth THEN holds ELSE {}
      OBVIOUS
    <3>2. h \in SUBSET Refreshers
      <4>1. box[at].holds \in SUBSET Refreshers /\ at \in Refreshers
        BY <2>1 DEF BoxType, Refreshers
      <4> QED BY <3>1, <4>1
    <3>3. PICK b : b = [box[at] EXCEPT !.proc = "ok", !.holds = h]
      OBVIOUS
    <3>4. b \in BoxType /\ b.auth = box[at].auth /\ b.up /\ b.proc = "ok"
      BY <2>1, <2>2, <3>2, <3>3 DEF BoxType
    <3>5. box' = [box EXCEPT ![at] = b]
      BY <2>4, <3>1, <3>3 DEF SetBox
    <3> QED BY <1>2, <2>1, <3>4, <3>5
  <2> QED BY <1>6, <2>3, <2>4 DEF AgentExits
<1>7. ASSUME NEW at \in Attempts, ContainerLost(at)
      PROVE  Goal
  BY <1>3, <1>7 DEF ContainerLost, SetBox, vaultVars
<1>8. CASE OthersRefresh
  <2>1. PICK e : e = object.etag
    OBVIOUS
  <2>2. object' \in [etag : Tags, holds : SUBSET Refreshers] /\ lease' = lease /\ box' = box
    <3>1. object.holds \cup {Other} \in SUBSET Refreshers
      BY <1>0 DEF Refreshers
    <3>2. object.etag + 1 \in Tags
      BY <1>0, <1>8, ConstantFacts DEF OthersRefresh, Replace, Tags
    <3> QED BY <1>8, <3>1, <3>2 DEF OthersRefresh, Replace
  <2> QED BY <1>0, <2>2 DEF VaultType, BoxFits, Kept, Goal
<1>9. CASE \/ CronList \/ CronDestroyFails \/ CronMark \/ CronLost \/ OperatorAsks
           \/ OperatorClaim \/ OperatorMark \/ Revisit \/ UNCHANGED vars
           \/ \E a \in Attempts : DeadlinePasses(a) \/ HoldExpires(a)
  <2>1. UNCHANGED <<lease, object, box>>
    BY <1>9 DEF CronList, CronDestroyFails, CronMark, CronLost, OperatorAsks, OperatorClaim,
       OperatorMark, Revisit, DeadlinePasses, HoldExpires, vaultVars, vars
  <2> QED BY <1>1, <2>1 DEF Goal
<1> QED
  BY <1>4, <1>5, <1>6, <1>7, <1>8, <1>9 DEF Outside, CronStep, OperatorStep, Happens
-----------------------------------------------------------------------------
(* Every step is one of these; manifests in R2 and identities only grow.    *)

Step == (\E c \in Calls : CallStep(c) \/ CallLost(c)) \/ Outside

LEMMA NextIsStep ==
  ASSUME [Next]_vars
  PROVE  Step
BY DEF Next, Step, Outside

LEMMA EvidenceGrows ==
  ASSUME IInv, Step
  PROVE  /\ manifest' \in [Attempts \X Kinds -> {"none", "pending", "complete", "failed"}]
         /\ r2' \subseteq Attempts \X Kinds /\ r2 \subseteq r2'
         /\ issued' \in Attempts \cup {0} /\ issued <= issued'
<1>0. /\ manifest \in [Attempts \X Kinds -> {"none", "pending", "complete", "failed"}]
      /\ r2 \subseteq Attempts \X Kinds /\ issued \in Attempts \cup {0}
      /\ Attempts \subseteq Nat
  BY ConstantFacts DEF IInv, TypeOK
<1> DEFINE Goal == /\ manifest' \in [Attempts \X Kinds -> {"none", "pending", "complete", "failed"}]
                   /\ r2' \subseteq Attempts \X Kinds /\ r2 \subseteq r2'
                   /\ issued' \in Attempts \cup {0} /\ issued <= issued'
<1> SUFFICES Goal
  OBVIOUS
<1>1. CASE UNCHANGED <<manifest, r2, issued>>
  BY <1>0, <1>1
<1> HIDE DEF Goal
<1>2. CASE Outside
  <2>1. UNCHANGED <<manifest, r2, issued>>
    BY <1>2 DEF Outside, CronStep, CronList, CronDestroy, CronDestroyFails, CronMark, CronLost,
       OperatorStep, OperatorAsks, OperatorClaim, OperatorDestroy, OperatorMark, AgentExits,
       Happens, DeadlinePasses, HoldExpires, ContainerLost, OthersRefresh, Revisit,
       evidenceVars, runVars, vars
  <2> QED BY <1>1, <2>1
<1>3. ASSUME NEW c \in Calls, CallStep(c) \/ CallLost(c)
      PROVE  Goal
  <2>a. PICK m : m = <<call[c].at, call[c].kind>>
    OBVIOUS
  <2>0. call[c].pc \in {"gather", "store"} => m \in Attempts \X Kinds
    BY <2>a DEF IInv, CallsFit, CallFits, AttemptFits, EndFits, Keeping
  <2>1. CASE Read(c)
    <3>1. UNCHANGED <<manifest, r2>>
      BY <2>1 DEF Read, evidenceVars
    <3>2. issued' = issued \/ (issued' = issued + 1 /\ issued + 1 \in Attempts)
      BY <2>1 DEF Read
    <3> QED BY <1>0, <3>1, <3>2 DEF Goal
  <2>2. ASSUME NEW v \in {"none", "pending", "complete", "failed"}, m \in Attempts \X Kinds,
               manifest' = [manifest EXCEPT ![m] = v], r2' = r2 \/ r2' = r2 \cup {m},
               issued' = issued
        PROVE  Goal
    <3>1. manifest' \in [Attempts \X Kinds -> {"none", "pending", "complete", "failed"}]
      BY <1>0, <2>2, Zenon
    <3>2. r2' \subseteq Attempts \X Kinds /\ r2 \subseteq r2'
      BY <1>0, <2>2
    <3> QED BY <1>0, <2>2, <3>1, <3>2 DEF Goal
  <2>3. CASE Gather(c)
    <3>1. PICK v : v = IF manifest[m] = "complete" THEN manifest[m] ELSE "pending"
      OBVIOUS
    <3>2. m \in Attempts \X Kinds
      BY <2>0, <2>3 DEF Gather
    <3>3. v \in {"none", "pending", "complete", "failed"}
      BY <3>1
    <3>4. manifest' = [manifest EXCEPT ![m] = v] /\ r2' = r2 /\ issued' = issued
      BY <2>3, <2>a, <3>1 DEF Gather, runVars
    <3> QED BY <2>2, <3>2, <3>3, <3>4
  <2>4. CASE Stored(c) \/ Unverified(c)
    <3>1. PICK v : v = IF manifest[m] \in {"pending", "complete"} THEN "complete" ELSE manifest[m]
      OBVIOUS
    <3>2. m \in Attempts \X Kinds
      BY <2>0, <2>4 DEF Stored, Unverified
    <3>3. v \in {"none", "pending", "complete", "failed"}
      BY <1>0, <3>1, <3>2
    <3>4. manifest' = [manifest EXCEPT ![m] = v] /\ r2' = r2 \cup {m} /\ issued' = issued
      BY <2>4, <2>a, <3>1 DEF Stored, Unverified, StoreManifest, runVars
    <3> QED BY <2>2, <3>2, <3>3, <3>4
  <2>5. CASE GatherFails(c)
    <3>1. PICK v : v = IF manifest[m] = "pending" THEN "failed" ELSE manifest[m]
      OBVIOUS
    <3>2. m \in Attempts \X Kinds
      BY <2>0, <2>5 DEF GatherFails
    <3>3. v \in {"none", "pending", "complete", "failed"}
      BY <1>0, <3>1, <3>2
    <3>4. manifest' = [manifest EXCEPT ![m] = v] /\ r2' = r2 /\ issued' = issued
      BY <2>5, <2>a, <3>1 DEF GatherFails, runVars
    <3> QED BY <2>2, <3>2, <3>3, <3>4
  <2>6. CASE \/ Begin(c) \/ Create(c) \/ ReadBack(c) \/ Claim(c) \/ AcquireLogin(c)
             \/ WriteLogin(c) \/ Exec(c) \/ MarkStarted(c) \/ StartFails(c) \/ Observe(c)
             \/ Touch(c) \/ Collect(c) \/ Resume(c) \/ Put(c) \/ PutFails(c) \/ Record(c)
             \/ ReleaseLogin(c) \/ DeleteLogin(c) \/ Accept(c) \/ Stop(c) \/ Scrub(c) \/ Drop(c)
             \/ ToCollecting(c) \/ Finish(c) \/ Hold(c) \/ Destroy(c) \/ DestroyFails(c)
             \/ MarkDestroyed(c) \/ CallLost(c)
    <3>1. UNCHANGED <<manifest, r2, issued>>
      BY <2>6 DEF Begin, Create, ReadBack, Claim, AcquireLogin, WriteLogin, Exec, MarkStarted,
         StartFails, Observe, Touch, Collect, Resume, Put, PutFails, Record, ReleaseLogin,
         DeleteLogin, Accept, Stop, Scrub, Drop, ToCollecting, Finish, Hold, Destroy,
         DestroyFails, MarkDestroyed, CallLost, evidenceVars, runVars
    <3> QED BY <1>1, <3>1 DEF Goal
  <2> QED BY <1>3, <2>1, <2>3, <2>4, <2>5, <2>6 DEF CallStep
<1> QED BY <1>2, <1>3 DEF Step

LEMMA StepMoves ==
  ASSUME IInv, Step
  PROVE  Moves /\ VaultType' /\ box' \in [Attempts -> BoxType] /\ BoxFits'
<1>1. /\ row \in [Attempts -> RowType] /\ issued \in Nat /\ issued' \in Nat
      /\ r2 \subseteq r2' /\ issued <= issued'
  <2>1. row \in [Attempts -> RowType] /\ issued \in Attempts \cup {0}
    BY DEF IInv, TypeOK
  <2>2. issued' \in Attempts \cup {0} /\ r2 \subseteq r2' /\ issued <= issued'
    BY EvidenceGrows
  <2> QED BY <2>1, <2>2, ConstantFacts
<1>2. CASE Outside
  BY <1>1, <1>2, OutsideRow, OutsideKeeps DEF Moves
<1>3. ASSUME NEW c \in Calls, CallStep(c) \/ CallLost(c)
      PROVE  Moves /\ VaultType' /\ box' \in [Attempts -> BoxType] /\ BoxFits'
  BY <1>1, <1>3, CallRow, CallKeeps DEF Moves
<1> QED BY <1>2, <1>3 DEF Step
-----------------------------------------------------------------------------
(* What the rows say stays true.                                            *)

\* A row is inserted, and a process recorded, by a call for its own attempt.
LEMMA InsertedBy ==
  ASSUME IInv, Step, NEW a \in Attempts
  PROVE  /\ Inserted(a) => \E c \in Calls : call[c].pc = "create" /\ call[c].at = a
         /\ Recorded(a) => \E c \in Calls : call[c].pc = "mark" /\ call[c].at = a
<1>1. CASE Outside
  BY <1>1, OutsideRow
<1>2. ASSUME NEW c \in Calls, CallStep(c) \/ CallLost(c)
      PROVE  /\ Inserted(a) => call[c].pc = "create" /\ call[c].at = a
             /\ Recorded(a) => call[c].pc = "mark" /\ call[c].at = a
  BY <1>2, CallRow DEF Create, MarkStarted
<1> QED BY <1>1, <1>2 DEF Step

LEMMA UnissuedStays ==
  ASSUME IInv, Step
  PROVE  Unissued'
<1>0. Moves /\ Unissued
  BY StepMoves DEF IInv
<1> SUFFICES ASSUME NEW a \in Attempts, a > issued'
             PROVE  row'[a] = NoRow
  BY DEF Unissued, NoRow
<1>1. a > issued /\ a \in Nat /\ issued \in Nat
  BY <1>0, ConstantFacts DEF Moves
<1>2. row[a] = NoRow
  BY <1>0, <1>1 DEF Unissued
<1>3. ~Inserted(a)
  <2> SUFFICES ASSUME NEW c \in Calls, call[c].pc = "create", call[c].at = a
               PROVE  FALSE
    BY InsertedBy
  <2>1. call[c].at <= issued
    BY DEF IInv, CallsFit, CallFits, AttemptFits
  <2> QED BY <1>1, <2>1
<1>4. RowMoves(a) /\ row[a] \in RowType
  BY <1>0 DEF Moves
<1> QED BY <1>2, <1>3, <1>4, RowStays

LEMMA ProcessFitsStays ==
  ASSUME IInv, Moves
  PROVE  ProcessFits'
<1> SUFFICES ASSUME NEW a \in Attempts
             PROVE  /\ row'[a].process => row'[a].state \in {"running", "collecting"} \cup Ends
                    /\ row'[a].state = "running" => row'[a].process
  BY DEF ProcessFits
<1>0. /\ row[a] \in RowType /\ RowMoves(a)
      /\ row[a].process => row[a].state \in {"running", "collecting"} \cup Ends
      /\ row[a].state = "running" => row[a].process
  BY DEF Moves, IInv, ProcessFits
<1>1. CASE row'[a] = row[a]
  BY <1>0, <1>1
<1>2. CASE Inserted(a)
  BY <1>0, <1>2 DEF Inserted
<1>3. CASE Claimed(a)
  BY <1>0, <1>3 DEF Claimed, RowType, Ends
<1>4. CASE Recorded(a)
  BY <1>0, <1>4 DEF Recorded, RowType
<1>5. CASE Collected(a)
  BY <1>0, <1>5 DEF Collected, RowType
<1>6. CASE Finished(a)
  BY <1>0, <1>6 DEF Finished, RowType, Ends
<1>7. CASE Interrupted(a)
  BY <1>0, <1>7 DEF Interrupted, RowType, Ends
<1>8. CASE Cleaned(a)
  BY <1>0, <1>8 DEF Cleaned, RowType
<1> QED BY <1>0, <1>1, <1>2, <1>3, <1>4, <1>5, <1>6, <1>7, <1>8 DEF RowMoves

LEMMA StoppedStays ==
  ASSUME IInv, Moves
  PROVE  Stopped'
<1> SUFFICES ASSUME NEW a \in Attempts, row'[a].process,
                    row'[a].state \in {"collecting"} \cup Ends
             PROVE  box'[a].proc # "running"
  BY DEF Stopped
<1>0. /\ row[a] \in RowType /\ RowMoves(a) /\ Kept(a)
      /\ (row[a].process /\ row[a].state \in {"collecting"} \cup Ends)
           => box[a].proc # "running"
  BY DEF Moves, IInv, Stopped
<1>1. CASE Collected(a)
  <2>1. row[a].process
    BY <1>0, <1>1 DEF Collected, RowType
  <2> QED BY <1>1, <2>1 DEF Collected
<1>2. CASE row[a].process /\ row[a].state \in {"collecting"} \cup Ends
  BY <1>0, <1>2 DEF Kept
<1>3. ~Inserted(a) /\ ~Claimed(a) /\ ~Recorded(a)
  <2>1. ~Inserted(a)
    BY DEF Inserted
  <2>2. ~Claimed(a)
    BY <1>0 DEF Claimed, RowType, Ends
  <2>3. ~Recorded(a)
    BY <1>0 DEF Recorded, RowType, Ends
  <2> QED BY <2>1, <2>2, <2>3
<1>4. CASE Finished(a)
  <2>1. row[a].process /\ row[a].state = "collecting"
    BY <1>0, <1>4 DEF Finished, RowType
  <2> QED BY <1>2, <2>1
<1>5. CASE Interrupted(a)
  <2>1. row[a].process /\ row[a].state = "collecting"
    BY <1>0, <1>5 DEF Interrupted, RowType
  <2> QED BY <1>2, <2>1
<1>6. CASE Cleaned(a) \/ row'[a] = row[a]
  <2>1. row[a].process /\ row[a].state = row'[a].state
    BY <1>0, <1>6 DEF Cleaned, RowType
  <2> QED BY <1>2, <2>1
<1> QED BY <1>0, <1>1, <1>3, <1>4, <1>5, <1>6 DEF RowMoves

\* How an attempt comes to be in a final state.
LEMMA EndsBy ==
  ASSUME NEW a \in Attempts, row[a] \in RowType, RowMoves(a), row'[a].state \in Ends
  PROVE  \/ row[a].state \in Ends /\ row'[a].state = row[a].state
         \/ Finished(a)
         \/ Interrupted(a)
<1>1. ~Inserted(a)
  BY DEF Inserted, Ends
<1>2. ~Claimed(a)
  BY DEF Claimed, RowType, Ends
<1>3. ~Recorded(a)
  BY DEF Recorded, RowType, Ends
<1>4. ~Collected(a)
  BY DEF Collected, RowType, Ends
<1>5. CASE Cleaned(a) \/ row'[a] = row[a]
  BY <1>5 DEF Cleaned, RowType
<1> QED BY <1>1, <1>2, <1>3, <1>4, <1>5 DEF RowMoves

LEMMA AcceptedStays ==
  ASSUME IInv, Moves
  PROVE  Accepted'
<1> SUFFICES ASSUME NEW a \in Attempts, row'[a].state \in {"completed", "blocked"}
             PROVE  row'[a].process /\ lease'[a] = NoTag /\ ~box'[a].auth
  BY DEF Accepted, LoginGone, NoTag
<1>0. row[a] \in RowType /\ RowMoves(a) /\ Kept(a)
  BY DEF Moves
<1>1. CASE row[a].state \in Ends /\ row'[a].state = row[a].state
  <2>1. LoginGone(a)
    BY <1>1 DEF IInv, Accepted
  <2>2. row'[a].process
    BY <1>0, <2>1, RowStays DEF LoginGone
  <2> QED BY <1>0, <2>1, <2>2 DEF LoginGone, Kept
<1>2. CASE Finished(a)
  <2>1. LoginGone(a) /\ lease' = lease /\ box' = box
    BY <1>0, <1>2 DEF Finished, RowType
  <2>2. row'[a].process
    BY <1>0, <2>1, RowStays DEF LoginGone
  <2> QED BY <2>1, <2>2 DEF LoginGone
<1>3. CASE Interrupted(a)
  BY <1>0, <1>3 DEF Interrupted, RowType
<1> QED BY <1>0, <1>1, <1>2, <1>3, EndsBy DEF Ends

LEMMA EndHasEvidenceStays ==
  ASSUME IInv, Moves
  PROVE  EndHasEvidence'
<1> SUFFICES ASSUME NEW a \in Attempts, row'[a].state \in Ends
             PROVE  row'[a].operator \/ <<a, row'[a].manifest>> \in r2'
  BY DEF EndHasEvidence, Ended, Ends
<1>0. row[a] \in RowType /\ RowMoves(a) /\ r2 \subseteq r2'
  BY DEF Moves
<1>1. CASE row[a].state \in Ends
  <2>1. row[a].operator \/ <<a, row[a].manifest>> \in r2
    BY <1>1 DEF IInv, EndHasEvidence, Ended
  <2>2. row'[a].manifest = row[a].manifest /\ row'[a].operator = row[a].operator
    BY <1>0, <1>1, RowStays
  <2> QED BY <1>0, <2>1, <2>2
<1>2. CASE Finished(a)
  <2>1. <<a, row'[a].manifest>> \in r2
    BY <1>0, <1>2 DEF Finished, RowType
  <2> QED BY <1>0, <2>1
<1>3. CASE Interrupted(a)
  BY <1>0, <1>3 DEF Interrupted, RowType
<1> QED BY <1>0, <1>1, <1>2, <1>3, EndsBy
-----------------------------------------------------------------------------
(* The clean-up and the counters.                                           *)

\* No call touches the scan or the request, and none moves the run on.
LEMMA CallOthers ==
  ASSUME IInv, NEW c \in Calls, CallStep(c) \/ CallLost(c)
  PROVE  /\ UNCHANGED <<cron, operator, visit>>
         /\ after' \subseteq Attempts /\ late' \subseteq Attempts /\ faults' \in 0 .. MaxFaults
<1>0. /\ after \subseteq Attempts /\ late \subseteq Attempts /\ faults \in 0 .. MaxFaults
      /\ MaxFaults \in Nat /\ Ended \subseteq Attempts
  BY ConstantFacts DEF IInv, TypeOK, Ended
<1>1. UNCHANGED <<cron, operator, visit>>
  BY DEF CallStep, Begin, Read, Create, ReadBack, Claim, AcquireLogin, WriteLogin, Exec,
     MarkStarted, StartFails, Observe, Touch, Collect, Resume, Put, PutFails, Record,
     ReleaseLogin, DeleteLogin, Accept, Stop, Scrub, Drop, ToCollecting, Gather, Stored,
     Unverified, GatherFails, Finish, Hold, Destroy, DestroyFails, MarkDestroyed, CallLost,
     others, rest, runVars
<1>2. (after' = after \/ after' = Ended \/ after' \subseteq after) /\ late' \subseteq late
  BY DEF CallStep, Begin, Read, Create, ReadBack, Claim, AcquireLogin, WriteLogin, Exec,
     MarkStarted, StartFails, Observe, Touch, Collect, Resume, Put, PutFails, Record,
     ReleaseLogin, DeleteLogin, Accept, Stop, Scrub, Drop, ToCollecting, Gather, Stored,
     Unverified, GatherFails, Finish, Hold, Destroy, DestroyFails, MarkDestroyed, CallLost,
     others, rest, runVars
<1>3. faults' = faults \/ Fault
  BY DEF CallStep, Begin, Read, Create, ReadBack, Claim, AcquireLogin, WriteLogin, Exec,
     MarkStarted, StartFails, Observe, Touch, Collect, Resume, Put, PutFails, Record,
     ReleaseLogin, DeleteLogin, Accept, Stop, Scrub, Drop, ToCollecting, Gather, Stored,
     Unverified, GatherFails, Finish, Hold, Destroy, DestroyFails, MarkDestroyed, CallLost,
     others, NoFault
<1>4. faults' \in 0 .. MaxFaults
  BY <1>0, <1>3 DEF Fault
<1>5. after' \subseteq Attempts /\ late' \subseteq Attempts
  BY <1>0, <1>2
<1> QED BY <1>1, <1>4, <1>5

LEMMA OutsideOthers ==
  ASSUME IInv, Outside
  PROVE  /\ visit' \in 1 .. MaxVisits
         /\ after' \subseteq Attempts /\ late' \subseteq Attempts /\ faults' \in 0 .. MaxFaults
<1>0. /\ after \subseteq Attempts /\ late \subseteq Attempts /\ faults \in 0 .. MaxFaults
      /\ MaxFaults \in Nat /\ Ended \subseteq Attempts
      /\ visit \in 1 .. MaxVisits /\ MaxVisits \in Nat \ {0}
  BY ConstantFacts DEF IInv, TypeOK, Ended
<1>1. visit' = visit \/ (visit < MaxVisits /\ visit' = visit + 1)
  BY DEF Outside, CronStep, CronList, CronDestroy, CronDestroyFails, CronMark, CronLost,
     OperatorStep, OperatorAsks, OperatorClaim, OperatorDestroy, OperatorMark, AgentExits,
     Happens, DeadlinePasses, HoldExpires, ContainerLost, OthersRefresh, Revisit, runVars, vars
<1>2. after' = Ended \/ after' \subseteq after
  BY DEF Outside, CronStep, CronList, CronDestroy, CronDestroyFails, CronMark, CronLost,
     OperatorStep, OperatorAsks, OperatorClaim, OperatorDestroy, OperatorMark, AgentExits,
     Happens, DeadlinePasses, HoldExpires, ContainerLost, OthersRefresh, Revisit, runVars, vars
<1>3. late' \subseteq late \/ \E a \in Attempts : late' = late \cup {a}
  BY DEF Outside, CronStep, CronList, CronDestroy, CronDestroyFails, CronMark, CronLost,
     OperatorStep, OperatorAsks, OperatorClaim, OperatorDestroy, OperatorMark, AgentExits,
     Happens, DeadlinePasses, HoldExpires, ContainerLost, OthersRefresh, Revisit, others, rest, vars
<1>4. faults' = faults \/ Fault
  BY DEF Outside, CronStep, CronList, CronDestroy, CronDestroyFails, CronMark, CronLost,
     OperatorStep, OperatorAsks, OperatorClaim, OperatorDestroy, OperatorMark, AgentExits,
     Happens, DeadlinePasses, HoldExpires, ContainerLost, OthersRefresh, Revisit, others, NoFault,
     vars
<1>5. visit' \in 1 .. MaxVisits
  BY <1>0, <1>1
<1>6. faults' \in 0 .. MaxFaults
  BY <1>0, <1>4 DEF Fault
<1>7. after' \subseteq Attempts /\ late' \subseteq Attempts
  BY <1>0, <1>2, <1>3
<1> QED BY <1>5, <1>6, <1>7

\* The scan destroys, and marks, sandboxes of ended attempts only.
CronFits == cron.todo \subseteq Ended /\ (cron.at # 0 => cron.at \in Ended)
OperatorFits ==
  /\ operator.pc \in {"destroy", "mark"} => operator.at \in Ended
  /\ operator.pc = "claim" =>
       /\ operator.at \in Attempts
       /\ operator.seen.state \in {"collecting", "failed", "interrupted", "absolute_timeout"}
CronType == cron \in [todo : SUBSET Attempts, at : Attempts \cup {0}]

LEMMA CronStays ==
  ASSUME IInv, Step
  PROVE  CronFits' /\ CronType'
<1>0. /\ CronFits /\ Ended \subseteq Ended' /\ CronType /\ Ended \subseteq Attempts
  BY StepMoves, EndedStays DEF IInv, TypeOK, CleanupFits, CronFits, CronType, Ended
<1>1. CASE cron' = cron
  BY <1>0, <1>1 DEF CronFits, CronType
<1>2. CASE CronList
  <2>1. PICK S : S = Sweepable
    OBVIOUS
  <2>2. S \subseteq Ended
    BY <2>1 DEF Sweepable
  <2>3. cron' = [cron EXCEPT !.todo = S]
    BY <1>2, <2>1 DEF CronList
  <2>4. cron'.todo = S /\ cron'.at = cron.at
    BY <1>0, <2>3 DEF CronType
  <2>5. CronType'
    BY <1>0, <2>2, <2>3 DEF CronType
  <2> QED BY <1>0, <2>2, <2>4, <2>5 DEF CronFits
<1>3. CASE CronDestroy
  <2>1. PICK at : at = Min(cron.todo)
    OBVIOUS
  <2>2. cron.todo \subseteq Attempts /\ cron.todo # {} /\ cron.todo \subseteq Nat
    BY <1>0, <1>3, ConstantFacts DEF CronDestroy, CronType
  <2>3. at \in Ended
    BY <1>0, <2>1, <2>2, MinIs DEF CronFits
  <2>4. cron' = [cron EXCEPT !.at = at]
    BY <1>3, <2>1 DEF CronDestroy
  <2>5. cron'.todo = cron.todo /\ cron'.at = at /\ CronType'
    BY <1>0, <2>3, <2>4 DEF CronType
  <2> QED BY <1>0, <2>3, <2>5 DEF CronFits
<1>4. CASE CronDestroyFails
  <2>1. PICK at : at = Min(cron.todo)
    OBVIOUS
  <2>2. cron' = [cron EXCEPT !.todo = cron.todo \ {at}]
    BY <1>4, <2>1 DEF CronDestroyFails
  <2>3. cron'.todo = cron.todo \ {at} /\ cron'.at = cron.at /\ CronType'
    BY <1>0, <2>2 DEF CronType
  <2> QED BY <1>0, <2>3 DEF CronFits
<1>5. CASE CronMark \/ CronLost
  <2>1. PICK S : cron' = [todo |-> S, at |-> 0] /\ S \subseteq cron.todo
    BY <1>5 DEF CronMark, CronLost
  <2>2. cron'.todo = S /\ cron'.at = 0 /\ CronType'
    BY <1>0, <2>1 DEF CronType
  <2> QED BY <1>0, <2>1, <2>2 DEF CronFits
<1>6. CASE Outside
  <2>1. \/ cron' = cron \/ CronList \/ CronDestroy \/ CronDestroyFails \/ CronMark \/ CronLost
    BY <1>6 DEF Outside, CronStep, OperatorStep, OperatorAsks, OperatorClaim, OperatorDestroy,
       OperatorMark, AgentExits, Happens, DeadlinePasses, HoldExpires, ContainerLost,
       OthersRefresh, Revisit, others, rest, vars
  <2> QED BY <1>1, <1>2, <1>3, <1>4, <1>5, <2>1
<1>7. CASE \E c \in Calls : CallStep(c) \/ CallLost(c)
  BY <1>1, <1>7, CallOthers
<1> QED BY <1>6, <1>7 DEF Step

LEMMA OperatorStays ==
  ASSUME IInv, Step
  PROVE  OperatorFits' /\ operator' \in RequestType
<1>0. /\ OperatorFits /\ Ended \subseteq Ended' /\ operator \in RequestType
      /\ row \in [Attempts -> RowType]
  BY StepMoves, EndedStays DEF IInv, TypeOK, CleanupFits, OperatorFits
<1>1. CASE operator' = operator
  BY <1>0, <1>1 DEF OperatorFits
<1>2. CASE operator' = NoRequest
  BY <1>2, RecordsTyped DEF OperatorFits, NoRequest
<1>3. CASE OperatorAsks
  <2>1. PICK a \in Attempts :
          /\ row[a].state \in {"collecting", "failed", "interrupted", "absolute_timeout"}
          /\ operator' = [pc |-> "claim", at |-> a, seen |-> row[a]]
    BY <1>3 DEF OperatorAsks
  <2>2. operator' \in RequestType
    BY <1>0, <2>1 DEF RequestType
  <2> QED BY <2>1, <2>2 DEF OperatorFits
<1>4. CASE OperatorClaim
  <2>1. PICK at : at = operator.at
    OBVIOUS
  <2>2. CASE operator' = [operator EXCEPT !.pc = "destroy", !.seen = NoRow] /\ operator' # NoRequest
             /\ row[at] = operator.seen
    <3>1. /\ operator'.pc = "destroy" /\ operator'.at = at /\ operator' \in RequestType
      BY <1>0, <2>1, <2>2, RecordsTyped DEF RequestType
    <3>2. /\ at \in Attempts /\ operator.pc = "claim"
          /\ operator.seen.state \in {"collecting", "failed", "interrupted", "absolute_timeout"}
      BY <1>0, <1>4, <2>1 DEF OperatorClaim, OperatorFits
    <3>3. CASE operator.seen.state = "collecting"
      <4>1. row' = [row EXCEPT ![at] = [row[at] EXCEPT !.state = "interrupted", !.operator = TRUE]]
        BY <1>4, <2>1, <2>2, <3>3 DEF OperatorClaim, SetRow
      <4>2. row'[at] = [row[at] EXCEPT !.state = "interrupted", !.operator = TRUE]
        BY <1>0, <3>2, <4>1
      <4>3. row'[at].state = "interrupted"
        BY <1>0, <3>2, <4>2 DEF RowType
      <4>4. at \in Ended'
        BY <3>2, <4>3 DEF Ended, Ends
      <4> QED BY <3>1, <4>4 DEF OperatorFits
    <3>4. CASE operator.seen.state # "collecting"
      <4>1. at \in Ended
        BY <2>2, <3>2, <3>4 DEF Ended, Ends
      <4> QED BY <1>0, <3>1, <4>1 DEF OperatorFits
    <3> QED BY <3>3, <3>4
  <2> QED BY <1>2, <1>4, <2>1, <2>2 DEF OperatorClaim
<1>5. CASE OperatorDestroy
  <2>1. operator' = [operator EXCEPT !.pc = "mark"] /\ operator.pc = "destroy"
    BY <1>5 DEF OperatorDestroy
  <2>2. operator'.pc = "mark" /\ operator'.at = operator.at /\ operator' \in RequestType
    BY <1>0, <2>1 DEF RequestType
  <2> QED BY <1>0, <2>1, <2>2 DEF OperatorFits
<1>6. CASE OperatorMark
  BY <1>2, <1>6 DEF OperatorMark
<1>7. CASE Outside
  <2>1. \/ operator' = operator \/ OperatorAsks \/ OperatorClaim \/ OperatorDestroy \/ OperatorMark
    BY <1>7 DEF Outside, CronStep, CronList, CronDestroy, CronDestroyFails, CronMark, CronLost,
       OperatorStep, AgentExits, Happens, DeadlinePasses, HoldExpires, ContainerLost,
       OthersRefresh, Revisit, others, rest, vars
  <2> QED BY <1>1, <1>3, <1>4, <1>5, <1>6, <2>1
<1>8. CASE \E c \in Calls : CallStep(c) \/ CallLost(c)
  BY <1>1, <1>8, CallOthers
<1> QED BY <1>7, <1>8 DEF Step

LEMMA CleanupStays ==
  ASSUME IInv, Step
  PROVE  CleanupFits'
<1>1. ASSUME NEW a \in Attempts, row'[a].cleanup = "destroyed"
      PROVE  a \in Ended'
  <2>0. /\ row[a] \in RowType /\ RowMoves(a) /\ Ended \subseteq Ended'
        /\ row[a].cleanup = "destroyed" => a \in Ended
    BY StepMoves, EndedStays DEF Moves, IInv, CleanupFits
  <2>1. ~Inserted(a)
    BY <1>1 DEF Inserted
  <2>2. CASE row[a].cleanup = "destroyed" \/ a \in Ended
    BY <2>0, <2>2
  <2>3. CASE Claimed(a) \/ Recorded(a) \/ Collected(a) \/ Interrupted(a)
    BY <1>1, <2>0, <2>2, <2>3 DEF Claimed, Recorded, Collected, Interrupted, RowType
  <2>4. CASE Finished(a)
    BY <1>1, <2>0, <2>2, <2>4 DEF Finished, RowType
  <2>5. CASE Cleaned(a)
    BY <1>1, <2>0, <2>2, <2>5 DEF Cleaned, RowType
  <2> QED BY <1>1, <2>0, <2>1, <2>2, <2>3, <2>4, <2>5 DEF RowMoves
<1>2. CronFits' /\ OperatorFits'
  BY CronStays, OperatorStays
<1> QED BY <1>1, <1>2 DEF CleanupFits, CronFits, OperatorFits
-----------------------------------------------------------------------------
(* What a call relies on stays true while others step.                      *)

LEMMA FitsStays ==
  ASSUME Moves, NEW s \in CallType, CallFits(s),
         s.pc = "create" => ~Inserted(s.at), s.pc \in Starting => ~Recorded(s.at)
  PROVE  CallFits(s)'
<1>0. /\ s.pc \notin {"idle", "read"} => s.at \in Attempts /\ s.at <= issued
      /\ s.pc = "create" => row[s.at] = NoRow
      /\ s.pc \notin {"idle", "read", "create"} => s.at \in Rows
  BY DEF CallFits, AttemptFits
<1>1. \A a \in Attempts : row[a] \in RowType /\ RowMoves(a) /\ Kept(a)
  BY DEF Moves
<1>2. Ended \subseteq Ended' /\ Rows \subseteq Rows' /\ r2 \subseteq r2'
  BY EndedStays DEF Moves
<1>3. AttemptFits(s)'
  <2>1. s.pc \notin {"idle", "read"} => s.at <= issued'
    <3>1. /\ issued \in Nat /\ issued' \in Nat /\ issued <= issued'
          /\ s.at \in Attempts => s.at \in Nat
      BY ConstantFacts DEF Moves
    <3> QED BY <1>0, <3>1
  <2>2. s.pc = "create" => row'[s.at] = NoRow
    BY <1>0, <1>1, RowStays
  <2> QED BY <1>0, <1>2, <2>1, <2>2 DEF AttemptFits, NoRow
<1>4. StartFits(s)'
  <2> SUFFICES ASSUME s.pc \in Starting
               PROVE  s.st = "starting" /\ row'[s.at].state # "pending" /\ ~row'[s.at].process
    BY DEF StartFits, Starting
  <2>1. s.at \in Attempts /\ s.at \in Rows
    BY <1>0 DEF Starting
  <2>2. s.st = "starting" /\ row[s.at].state # "pending" /\ ~row[s.at].process
    BY DEF CallFits, StartFits
  <2> QED BY <1>1, <2>1, <2>2, RowStays DEF Rows
<1>5. ProcessSeen(s)'
  <2>1. s.at \in Attempts /\ row[s.at].process => row'[s.at].process
    BY <1>1, RowStays
  <2>2. ProcessSeen(s)
    BY DEF CallFits
  <2>3. s.pc = "observe" \/ s.pc \in Failing => s.at \in Attempts
    BY <1>0 DEF Failing
  <2>4. s.at \in Attempts /\ row[s.at].process /\ box[s.at].proc # "running"
          => box'[s.at].proc # "running"
    BY <1>1 DEF Kept
  <2>5. s.pc = "observe" => (s.process => row'[s.at].process) /\ (s.st = "running" => s.process)
    BY <2>1, <2>2, <2>3 DEF ProcessSeen
  <2>6. s.st = "running" /\ s.pc \in Failing =>
          row'[s.at].process /\ row[s.at].process /\ s.at \in Attempts
    BY <2>1, <2>2, <2>3 DEF ProcessSeen
  <2>7. s.st = "running" /\ s.pc = "stop" => s.process \/ box'[s.at].proc # "running"
    BY <2>2, <2>4, <2>6 DEF ProcessSeen, Failing
  <2>8. s.st = "running" /\ s.pc \in Failing \ {"stop"} => box'[s.at].proc # "running"
    BY <2>2, <2>4, <2>6 DEF ProcessSeen
  <2> QED BY <2>5, <2>6, <2>7, <2>8 DEF ProcessSeen, Failing
<1>6. LoginFits(s)'
  <2>0. LoginFits(s) /\ EndFits(s)
    BY DEF CallFits
  <2>1. s.at \in Attempts /\ row[s.at].process => row'[s.at].process
    BY <1>1, RowStays
  <2>2. s.pc \in Storing => s.at \in Attempts
    BY <1>0 DEF Storing
  <2>3. s.pc \in Storing => row[s.at].process /\ row'[s.at].process
    BY <2>0, <2>1, <2>2 DEF LoginFits
  <2>4. s.pc = "collect" => box'[s.at].proc # "running"
    BY <1>1, <2>0, <2>2, <2>3 DEF LoginFits, Kept, Storing
  <2>5. s.pc = "delete" => lease'[s.at] = NoTag
    BY <1>1, <2>0, <2>2, <2>3 DEF LoginFits, Kept, Storing
  <2>6. s.at \in Attempts /\ LoginGone(s.at) =>
          row'[s.at].process /\ lease'[s.at] = NoTag /\ ~box'[s.at].auth
    BY <1>1, <2>1 DEF LoginGone, Kept
  <2>7. s.pc \in Keeping => s.at \in Attempts
    BY <1>0 DEF Keeping
  <2> QED BY <2>0, <2>3, <2>4, <2>5, <2>6, <2>7 DEF LoginFits, LoginGone, Storing, Keeping, NoTag
<1>7. EndFits(s)'
  BY <1>2 DEF CallFits, EndFits, Failing, Kinds, Ends, Ending, Keeping, Storing
<1> QED BY <1>3, <1>4, <1>5, <1>6, <1>7 DEF CallFits

LEMMA IdleFits == CallFits(Idle)'
BY DEF CallFits, AttemptFits, StartFits, ProcessSeen, LoginFits, EndFits, Starting, Storing,
   Failing, Keeping, Ending, Idle, Kinds, Ends

\* A call that fails its attempt works on its row, and has stopped, or will stop,
\* the process of a running one.
LEMMA FailingFits ==
  ASSUME Moves, NEW s \in CallType, CallFits(s), s.at \in Rows, s.at <= issued,
         s.st = "running" => row[s.at].process,
         NEW t \in CallType, t.pc = "stop", t.at = s.at, t.st = s.st, t.kind = "failure",
         t.end \in Ends \ {"completed", "blocked"},
         s.st = "running" => t.process \/ box[s.at].proc # "running"
  PROVE  CallFits(t)'
<1>0. /\ s.at \in Attempts /\ s.at \in Rows' /\ RowMoves(s.at) /\ Kept(s.at)
      /\ row[s.at] \in RowType /\ s.at \in Nat
      /\ issued \in Nat /\ issued' \in Nat /\ issued <= issued'
  BY EndedStays, ConstantFacts DEF Moves, Rows
<1>1. AttemptFits(t)'
  BY <1>0 DEF AttemptFits
<1>2. ProcessSeen(t)'
  BY <1>0, RowStays DEF ProcessSeen, Failing, Kept
<1>3. StartFits(t)' /\ LoginFits(t)' /\ EndFits(t)'
  BY DEF StartFits, LoginFits, EndFits, Starting, Storing, Failing, Keeping, Ending
<1> QED BY <1>1, <1>2, <1>3 DEF CallFits

\* A call's own step leaves it where its next step may begin.
LEMMA OwnFits ==
  ASSUME IInv, NEW c \in Calls, CallStep(c) \/ CallLost(c)
  PROVE  CallFits(call[c])'
<1>0. /\ Moves /\ Only(c) /\ call \in [Calls -> CallType] /\ TypeOK
      /\ VaultType /\ BoxFits /\ ProcessFits /\ Unissued /\ CallFits(call[c])
      /\ box \in [Attempts -> BoxType] /\ box' \in [Attempts -> BoxType]
  BY StepMoves, CallOnly DEF IInv, Step, CallsFit, TypeOK
<1>a. PICK s : s = call[c]
  OBVIOUS
<1>b. PICK t : t = call'[c]
  OBVIOUS
<1>1. s \in CallType /\ t \in CallType /\ CallFits(s)
  BY <1>0, <1>a, <1>b DEF Only
<1>2. PICK at : at = s.at
  OBVIOUS
<1>3. s.pc \notin {"idle", "read"} =>
        /\ at \in Attempts /\ at <= issued /\ at <= issued' /\ at \in Nat
        /\ row[at] \in RowType /\ row'[at] \in RowType /\ RowMoves(at) /\ Kept(at)
        /\ box[at] \in BoxType /\ box'[at] \in BoxType
        /\ row[at].process => row'[at].process
        /\ s.pc # "create" => at \in Rows /\ at \in Rows'
  <2>1. s.pc \notin {"idle", "read"} => at \in Attempts /\ at <= issued
    BY <1>1, <1>2 DEF CallFits, AttemptFits
  <2>2. /\ issued \in Nat /\ issued' \in Nat /\ issued <= issued'
        /\ at \in Attempts => at \in Nat
    BY <1>0, ConstantFacts DEF Moves
  <2>3. at \in Attempts => /\ row[at] \in RowType /\ RowMoves(at) /\ Kept(at)
                           /\ box[at] \in BoxType /\ box'[at] \in BoxType
    BY <1>0 DEF Moves
  <2>4. at \in Attempts => row'[at] \in RowType /\ (row[at].process => row'[at].process)
    BY <2>3, RowStays
  <2>5. s.pc \notin {"idle", "read", "create"} => at \in Rows /\ at \in Rows'
    BY <1>0, <1>1, <1>2, EndedStays DEF CallFits, AttemptFits
  <2> QED BY <2>1, <2>2, <2>3, <2>4, <2>5
<1>4. Ended \subseteq Ended' /\ r2 \subseteq r2'
  BY <1>0, EndedStays DEF Moves
<1>5. AttemptFits(s) /\ StartFits(s) /\ ProcessSeen(s) /\ LoginFits(s) /\ EndFits(s)
  BY <1>1 DEF CallFits
<1>c. AttemptFits(t)' /\ StartFits(t)' /\ ProcessSeen(t)' /\ LoginFits(t)' /\ EndFits(t)'
        => CallFits(t)'
  BY DEF CallFits
<1> SUFFICES CallFits(t)'
  BY <1>b DEF CallFits, AttemptFits, StartFits, ProcessSeen, LoginFits, EndFits, LoginGone, Rows
<1>6. CASE t = Idle
  BY <1>6, IdleFits DEF CallFits, AttemptFits, StartFits, ProcessSeen, LoginFits, EndFits,
     LoginGone, Rows
<1>7. ASSUME NEW end \in Ends \ {"completed", "blocked"}, NEW process \in BOOLEAN,
             Failed(c, end, process), s.pc \notin {"idle", "read", "create"},
             s.st = "running" => row[at].process /\ (process \/ box[at].proc # "running")
      PROVE  CallFits(t)'
  <2>1. /\ t.pc = "stop" /\ t.at = at /\ t.st = s.st /\ t.process = process
        /\ t.end = end /\ t.kind = "failure"
    BY <1>0, <1>7, <1>a, <1>b, <1>2, FailedIs
  <2> QED BY <1>0, <1>1, <1>2, <1>3, <1>7, <2>1, FailingFits
<1>8. ASSUME NEW pc \in PCs, Goto(c, pc)
      PROVE  /\ t.pc = pc /\ t.at = at /\ t.st = s.st /\ t.process = s.process
             /\ t.end = s.end /\ t.kind = s.kind
  BY <1>0, <1>8, <1>a, <1>b, <1>2, GotoIs
<1> DEFINE Fits == CallFits(t)'
<1> HIDE DEF Fits
<1> SUFFICES Fits
  BY DEF Fits
<1>9. CASE Begin(c)
  <2>1. t = [Idle EXCEPT !.pc = "read", !.visit = visit, !.after = after]
    BY <1>0, <1>9, <1>b DEF Begin
  <2>2. t.pc = "read" /\ t.st = "none" /\ t.kind = "none"
    BY <2>1 DEF Idle
  <2> QED BY <1>c, <2>2 DEF Fits, AttemptFits, StartFits, ProcessSeen, LoginFits, EndFits, Starting, Storing,
              Failing, Keeping, Ending, Kinds
<1>10. CASE Read(c)
  <2>0. row' = row /\ box' = box /\ s.pc = "read"
    BY <1>10, <1>a DEF Read
  <2>1. CASE Return(c)
    BY <1>0, <1>6, <1>b, <2>1, ReturnIs DEF Fits
  <2>2. CASE issued + 1 \in Attempts /\ issued' = issued + 1
             /\ call' = [call EXCEPT ![c].pc = "create", ![c].at = issued', ![c].after = {}]
    <3>1. t.pc = "create" /\ t.at = issued + 1 /\ t.st = s.st /\ t.kind = s.kind /\ t.end = s.end
      BY <1>0, <1>1, <1>a, <1>b, <2>2 DEF CallType
    <3>2. /\ t.at \in Attempts /\ t.at = issued' /\ t.at > issued
      BY <1>0, <2>2, <3>1 DEF Moves
    <3>3. row'[t.at] = NoRow
      BY <1>0, <2>0, <3>2 DEF Unissued
    <3>4. t.at <= issued'
      BY <1>0, <3>2 DEF Moves
    <3>5. AttemptFits(t)'
      BY <3>1, <3>2, <3>3, <3>4 DEF AttemptFits, NoRow
    <3> QED BY <1>c, <1>5, <3>1, <3>5 DEF Fits, StartFits, ProcessSeen, LoginFits, EndFits, Starting,
                Storing, Failing, Keeping, Ending
  <2>3. ASSUME NEW a \in Rows,
               call' = [call EXCEPT ![c] =
                   IF row[a].state \in Ends THEN Idle
                   ELSE [Idle EXCEPT !.at = a, !.st = row[a].state,
                           !.process = row[a].process,
                           !.pc = IF row[a].state = "pending" THEN "claim" ELSE "observe"]]
        PROVE  Fits
    <3>1. /\ a \in Attempts /\ row[a].state # "none" /\ row[a] \in RowType
          /\ row[a].state = "running" => row[a].process
      BY <1>0 DEF Rows, Moves, ProcessFits
    <3>2. CASE row[a].state \in Ends
      BY <1>0, <1>6, <1>b, <2>3, <3>2 DEF Fits
    <3>3. CASE row[a].state \notin Ends
      <4>1. /\ t.at = a /\ t.st = row[a].state /\ t.process = row[a].process
            /\ t.pc = (IF row[a].state = "pending" THEN "claim" ELSE "observe")
            /\ t.kind = "none"
        BY <1>0, <1>b, <2>3, <3>3 DEF Idle
      <4>2. a <= issued'
        <5>1. a \in Nat /\ issued \in Nat /\ issued' \in Nat /\ issued <= issued'
          BY <1>0, <3>1, ConstantFacts DEF Moves
        <5>2. ~(a > issued)
          BY <1>0, <3>1 DEF Unissued, NoRow
        <5> QED BY <5>1, <5>2
      <4>3. a \in Rows'
        BY <2>0, <3>1 DEF Rows
      <4>4. t.pc \in {"claim", "observe"}
        BY <4>1
      <4>5. AttemptFits(t)'
        BY <3>1, <4>1, <4>2, <4>3, <4>4 DEF AttemptFits
      <4>6. ProcessSeen(t)'
        BY <2>0, <3>1, <4>1, <4>4 DEF ProcessSeen, Failing
      <4> QED BY <1>c, <4>1, <4>4, <4>5, <4>6 DEF Fits, StartFits, LoginFits, EndFits, Starting, Storing,
                  Failing, Keeping, Ending, Kinds
    <3> QED BY <3>2, <3>3
  <2> QED BY <1>10, <2>1, <2>2, <2>3 DEF Read
<1>11. CASE Create(c)
  <2>1. s.pc = "create" /\ t.pc = "readback" /\ t.at = at /\ t.st = s.st /\ t.kind = s.kind
        /\ t.end = s.end
    BY <1>8, <1>11, <1>a DEF Create, PCs
  <2>2. row'[at].state = "pending"
    <3>1. row' = [row EXCEPT ![at] = [NoRow EXCEPT !.state = "pending", !.visit = call[c].visit]]
      BY <1>11, <1>a, <1>2 DEF Create, SetRow
    <3>2. row'[at] = [NoRow EXCEPT !.state = "pending", !.visit = call[c].visit]
      BY <1>0, <1>3, <2>1, <3>1 DEF Moves
    <3> QED BY <3>2 DEF NoRow
  <2>3. AttemptFits(t)'
    BY <1>3, <2>1, <2>2 DEF AttemptFits, Rows
  <2> QED BY <1>c, <1>5, <2>1, <2>3 DEF Fits, StartFits, ProcessSeen, LoginFits, EndFits, Starting,
              Storing, Failing, Keeping, Ending
<1>12. CASE ReadBack(c)
  <2>1. CASE call' = [call EXCEPT ![c] = Idle]
    BY <1>0, <1>6, <1>b, <2>1 DEF Fits
  <2>2. CASE call' = [call EXCEPT ![c] = [Idle EXCEPT !.pc = "claim", !.at = call[c].at, !.st = "pending"]]
    <3>1. t.pc = "claim" /\ t.at = at /\ t.st = "pending" /\ t.kind = "none"
      BY <1>0, <1>a, <1>b, <1>2, <2>2 DEF Idle
    <3>2. s.pc = "readback"
      BY <1>12, <1>a DEF ReadBack
    <3> QED BY <1>c, <1>3, <3>1, <3>2 DEF Fits, AttemptFits, StartFits, ProcessSeen, LoginFits, EndFits, Starting,
                Storing, Failing, Keeping, Ending, Kinds
  <2> QED BY <1>12, <2>1, <2>2 DEF ReadBack
<1>13. CASE Claim(c)
  <2>0. s.pc = "claim"
    BY <1>13, <1>a DEF Claim
  <2>1. CASE Return(c)
    BY <1>0, <1>6, <1>b, <2>1, ReturnIs DEF Fits
  <2>2. CASE row[at].state = "pending" /\ SetState(at, "starting")
             /\ call' = [call EXCEPT ![c].pc = "acquire", ![c].st = "starting"]
    <3>1. t.pc = "acquire" /\ t.st = "starting" /\ t.at = at /\ t.kind = s.kind /\ t.end = s.end
      BY <1>0, <1>1, <1>a, <1>b, <1>2, <2>2 DEF CallType
    <3>2. row' = [row EXCEPT ![at] = [row[at] EXCEPT !.state = "starting"]]
      BY <2>2 DEF SetState
    <3>3. row'[at] = [row[at] EXCEPT !.state = "starting"]
      BY <1>0, <1>3, <2>0, <3>2 DEF Moves
    <3>4. ~row[at].process
      BY <1>0, <1>3, <2>0, <2>2 DEF ProcessFits, Ends
    <3>5. row'[at].state = "starting" /\ ~row'[at].process
      BY <1>3, <2>0, <3>3, <3>4 DEF RowType
    <3>6. AttemptFits(t)' /\ StartFits(t)'
      BY <1>3, <2>0, <3>1, <3>5 DEF AttemptFits, StartFits, Starting
    <3> QED BY <1>c, <1>5, <3>1, <3>6 DEF Fits, ProcessSeen, LoginFits, EndFits, Starting,
                Storing, Failing, Keeping, Ending
  <2> QED BY <1>13, <1>a, <1>2, <2>1, <2>2 DEF Claim
<1>14. CASE AcquireLogin(c) \/ WriteLogin(c) \/ (Exec(c) /\ Goto(c, "mark"))
  <2>1. s.pc \in {"acquire", "write", "exec"} /\ row' = row
    BY <1>14, <1>a DEF AcquireLogin, WriteLogin, Exec
  <2>2. t.pc \in {"write", "exec", "mark"} /\ t.st = s.st /\ t.at = at /\ t.kind = s.kind
        /\ t.end = s.end
    BY <1>0, <1>1, <1>a, <1>b, <1>2, <1>8, <1>14 DEF CallType, PCs, AcquireLogin, WriteLogin
  <2>3. AttemptFits(t)'
    BY <1>3, <2>1, <2>2 DEF AttemptFits
  <2>4. StartFits(t)'
    BY <1>2, <1>3, <1>5, <2>1, <2>2 DEF StartFits, Starting
  <2> QED BY <1>c, <1>5, <2>1, <2>2, <2>3, <2>4 DEF Fits, StartFits, ProcessSeen, LoginFits, EndFits, Starting,
              Storing, Failing, Keeping, Ending
<1>15. CASE (Exec(c) \/ MarkStarted(c) \/ StartFails(c))
            /\ ~(Exec(c) /\ Goto(c, "mark")) /\ ~Return(c)
  <2>1. s.pc \in Starting /\ s.st = "starting"
    BY <1>5, <1>15, <1>a DEF Exec, MarkStarted, StartFails, StartFits, Starting
  <2>2. PICK process \in BOOLEAN : Failed(c, "failed", process)
    BY <1>15 DEF Exec, MarkStarted, StartFails
  <2> QED BY <1>7, <2>1, <2>2 DEF Fits, Starting, Ends
<1>16. CASE Observe(c)
  <2>1. s.pc = "observe" /\ row' = row /\ box' = box
    BY <1>16, <1>a DEF Observe
  <2>2. PICK known : known = (s.process /\ box[at].up /\ box[at].proc # "none")
    OBVIOUS
  <2>3. /\ known \in BOOLEAN /\ known => row[at].process
        /\ s.st = "running" => row[at].process
        /\ ~known /\ s.st = "running" => box[at].proc # "running"
    BY <1>0, <1>1, <1>2, <1>3, <1>5, <2>1, <2>2 DEF ProcessSeen, BoxFits, CallType
  <2>4. CASE \E end \in {"absolute_timeout", "interrupted", "failed"}, process \in BOOLEAN :
               Failed(c, end, process) /\ (process \/ ~known)
    <3>1. PICK end \in {"absolute_timeout", "interrupted", "failed"}, process \in BOOLEAN :
            Failed(c, end, process) /\ (process \/ ~known)
      BY <2>4
    <3>2. end \in Ends \ {"completed", "blocked"}
      BY DEF Ends
    <3> QED BY <1>7, <2>1, <2>3, <3>1, <3>2 DEF Fits
  <2>5. CASE Goto(c, "touch")
    <3>1. t.pc = "touch" /\ t.at = at /\ t.st = s.st /\ t.kind = s.kind /\ t.end = s.end
      BY <1>8, <2>5 DEF PCs
    <3> QED BY <1>c, <1>3, <1>5, <2>1, <3>1 DEF Fits, AttemptFits, StartFits, ProcessSeen, LoginFits, EndFits,
                Starting, Storing, Failing, Keeping, Ending
  <2>6. CASE known /\ box[at].proc = "ok" /\ Goto(c, "collect")
    <3>1. t.pc = "collect" /\ t.at = at /\ t.st = s.st /\ t.kind = s.kind /\ t.end = s.end
      BY <1>8, <2>6 DEF PCs
    <3>2. LoginFits(t)'
      BY <2>1, <2>3, <2>6, <3>1 DEF LoginFits, Keeping
    <3> QED BY <1>c, <1>3, <1>5, <2>1, <3>1, <3>2 DEF Fits, AttemptFits, StartFits, ProcessSeen, EndFits,
                Starting, Storing, Failing, Keeping, Ending
  <2>7. \/ \E end \in {"absolute_timeout", "interrupted", "failed"}, process \in BOOLEAN :
             Failed(c, end, process) /\ (process \/ ~known)
        \/ Goto(c, "touch")
        \/ known /\ box[at].proc = "ok" /\ Goto(c, "collect")
    BY <1>16, <1>a, <1>2, <2>2, <2>3 DEF Observe
  <2> QED BY <2>4, <2>5, <2>6, <2>7
<1>17. CASE Collect(c)
  <2>1. s.pc = "collect" /\ t.pc = "resume" /\ t.at = at /\ t.st = "collecting"
        /\ t.kind = s.kind /\ t.end = s.end
    BY <1>0, <1>1, <1>17, <1>a, <1>b, <1>2 DEF Collect, CallType
  <2>2. row'[at].process
    BY <1>2, <1>3, <1>5, <2>1 DEF LoginFits, Storing
  <2> QED BY <1>c, <1>3, <1>5, <2>1, <2>2 DEF Fits, AttemptFits, StartFits, ProcessSeen, LoginFits,
              EndFits, Starting, Storing, Failing, Keeping, Ending
<1>18. CASE (Resume(c) \/ DeleteLogin(c) \/ GatherFails(c)) /\ Failed(c, "failed", FALSE)
            /\ (GatherFails(c) => s.kind = "result")
  <2>1. s.pc \in {"resume", "delete", "store"}
    BY <1>18, <1>a DEF Resume, DeleteLogin, GatherFails
  <2>2. s.st = "collecting"
    BY <1>5, <2>1 DEF EndFits, Storing, Keeping
  <2>3. "failed" \in Ends \ {"completed", "blocked"}
    BY DEF Ends
  <2> QED BY <1>7, <1>18, <2>1, <2>2, <2>3 DEF Fits
<1>19. CASE (Resume(c) /\ ~Failed(c, "failed", FALSE)) \/ Put(c) \/ PutFails(c) \/ Record(c)
  <2>1. /\ s.pc \in {"resume", "put", "record"} /\ t.pc \in {"put", "record", "release"}
        /\ t.at = at /\ t.st = s.st /\ t.kind = s.kind /\ (t.end = s.end \/ t.end = "failed")
    <3>1. CASE Resume(c) /\ ~Failed(c, "failed", FALSE)
      <4>1. call' = [call EXCEPT ![c].pc = "put", ![c].tag = lease[at], ![c].holds = box[at].holds]
        BY <3>1, <1>a, <1>2 DEF Resume
      <4>2. s.pc = "resume"
        BY <3>1, <1>a DEF Resume
      <4> QED BY <1>0, <1>1, <1>a, <1>b, <1>2, <4>1, <4>2 DEF CallType
    <3>2. CASE Put(c)
      BY <1>0, <1>1, <3>2, <1>a, <1>b, <1>2 DEF Put, CallType
    <3>3. CASE PutFails(c)
      BY <1>0, <1>1, <3>3, <1>a, <1>b, <1>2 DEF PutFails, CallType
    <3>4. CASE Record(c)
      BY <1>0, <1>1, <3>4, <1>a, <1>b, <1>2 DEF Record, CallType
    <3> QED BY <1>19, <3>1, <3>2, <3>3, <3>4
  <2>2. row'[at].process /\ s.st = "collecting"
    BY <1>2, <1>3, <1>5, <2>1 DEF LoginFits, EndFits, Storing
  <2> QED BY <1>c, <1>3, <1>5, <2>1, <2>2 DEF Fits, AttemptFits, StartFits, ProcessSeen, LoginFits,
              EndFits, Starting, Storing, Failing, Keeping, Ending, Ends
<1>20. CASE ReleaseLogin(c)
  <2>1. /\ s.pc = "release" /\ t.pc = "delete"
        /\ t.at = at /\ t.st = s.st /\ t.kind = s.kind /\ t.end = s.end
    BY <1>8, <1>20, <1>a DEF ReleaseLogin, PCs
  <2>2. row'[at].process /\ s.st = "collecting"
    BY <1>2, <1>3, <1>5, <2>1 DEF LoginFits, EndFits, Storing
  <2>3. lease'[at] = NoTag
    <3>1. lease' = [lease EXCEPT ![at] = NoTag]
      BY <1>20, <1>a, <1>2 DEF ReleaseLogin, Release
    <3>2. lease \in [Attempts -> Tags \cup {NoTag}] /\ at \in Attempts
      BY <1>0, <1>3, <2>1 DEF VaultType
    <3> QED BY <3>1, <3>2
  <2>4. LoginFits(t)'
    BY <2>1, <2>2, <2>3 DEF LoginFits, Keeping, NoTag
  <2> QED BY <1>c, <1>3, <1>5, <2>1, <2>2, <2>4 DEF Fits, AttemptFits, StartFits, ProcessSeen,
              EndFits, Starting, Storing, Failing, Keeping, Ending, Ends
<1>21. CASE DeleteLogin(c) /\ ~Failed(c, "failed", FALSE)
  <2>1. /\ s.pc = "delete" /\ t.pc = "gather" /\ t.at = at /\ t.st = s.st /\ t.kind = "result"
    <3>1. /\ call' = [call EXCEPT ![c].pc = "gather", ![c].kind = "result"]
          /\ s.pc = "delete"
      BY <1>21, <1>a DEF DeleteLogin
    <3> QED BY <1>0, <1>1, <1>a, <1>b, <1>2, <3>1 DEF CallType
  <2>2. row'[at].process /\ s.st = "collecting" /\ lease'[at] = NoTag
    BY <1>2, <1>3, <1>5, <1>21, <2>1 DEF LoginFits, EndFits, Storing, DeleteLogin, vaultVars
  <2>3. ~box'[at].auth
    <3>1. box' = [box EXCEPT ![at] = [box[at] EXCEPT !.auth = FALSE, !.holds = {}]]
      BY <1>21, <1>a, <1>2 DEF DeleteLogin, SetBox
    <3>2. box'[at] = [box[at] EXCEPT !.auth = FALSE, !.holds = {}]
      BY <1>0, <1>3, <2>1, <3>1
    <3> QED BY <1>3, <2>1, <3>2 DEF BoxType
  <2>4. LoginFits(t)'
    BY <2>1, <2>2, <2>3 DEF LoginFits, LoginGone, Storing, NoTag
  <2> QED BY <1>c, <1>3, <1>5, <2>1, <2>2, <2>4 DEF Fits, AttemptFits, StartFits, ProcessSeen,
              EndFits, Starting, Storing, Failing, Keeping, Ending, Kinds
<1>22. CASE Accept(c)
  <2>1. /\ s.pc = "accept" /\ t.pc = "finish" /\ t.at = at /\ t.st = s.st /\ t.kind = s.kind
        /\ t.end \in {"completed", "blocked", "failed"}
    BY <1>0, <1>1, <1>22, <1>a, <1>b, <1>2 DEF Accept, CallType
  <2>2. /\ s.kind = "result" /\ s.st = "collecting" /\ <<at, s.kind>> \in r2' /\ LoginGone(at)
    BY <1>2, <1>4, <1>5, <2>1 DEF EndFits, LoginFits, Storing, Keeping
  <2>3. LoginFits(t)'
    BY <1>3, <2>1, <2>2 DEF LoginFits, LoginGone, Kept, Storing, NoTag
  <2> QED BY <1>c, <1>3, <2>1, <2>2, <2>3 DEF Fits, AttemptFits, StartFits, ProcessSeen,
              EndFits, Starting, Storing, Failing, Keeping, Ending, Kinds, Ends
<1>23. CASE Stop(c) \/ Scrub(c)
  <2>1. /\ s.pc \in {"stop", "scrub"} /\ t.pc \in {"scrub", "drop"}
        /\ t.at = at /\ t.st = s.st /\ t.kind = s.kind /\ t.end = s.end
    BY <1>8, <1>23, <1>a DEF Stop, Scrub, PCs
  <2>2. s.st = "running" => row[at].process
    BY <1>2, <1>5, <2>1 DEF ProcessSeen, Failing
  <2>3. s.st = "running" => box'[at].proc # "running"
    <3>1. CASE s.pc = "scrub" \/ box[at].proc # "running"
      BY <1>2, <1>3, <1>5, <2>1, <2>2, <3>1 DEF ProcessSeen, Failing, Kept
    <3>2. CASE s.pc = "stop" /\ box[at].proc = "running"
      <4>1. s.st = "running" => s.process
        BY <1>2, <1>5, <3>2 DEF ProcessSeen
      <4>2. s.st = "running" => box' = [box EXCEPT ![at] = [box[at] EXCEPT !.proc = "error"]]
        BY <1>23, <1>a, <1>2, <3>2, <4>1 DEF Stop, Scrub, SetBox
      <4>3. s.st = "running" => box'[at] = [box[at] EXCEPT !.proc = "error"]
        BY <1>0, <1>3, <3>2, <4>2
      <4> QED BY <1>3, <3>2, <4>3 DEF BoxType
    <3> QED BY <2>1, <3>1, <3>2
  <2> QED BY <1>c, <1>3, <1>5, <2>1, <2>2, <2>3 DEF Fits, AttemptFits, StartFits, ProcessSeen, LoginFits,
              EndFits, Starting, Storing, Failing, Keeping, Ending
<1>24. CASE Drop(c)
  <2>1. /\ s.pc = "drop" /\ t.at = at /\ t.st = s.st /\ t.kind = s.kind /\ t.end = s.end
        /\ t.pc = (IF s.st = "collecting" THEN "gather" ELSE "collecting")
    BY <1>8, <1>24, <1>a DEF Drop, PCs
  <2>2. s.st = "running" => row[at].process /\ row'[at].process /\ box'[at].proc # "running"
    BY <1>2, <1>3, <1>5, <2>1 DEF ProcessSeen, Failing, Kept
  <2>3. s.kind = "failure" /\ t.pc \in {"gather", "collecting"}
    BY <1>5, <2>1 DEF EndFits, Failing
  <2> QED BY <1>c, <1>3, <1>5, <2>1, <2>2, <2>3 DEF Fits, AttemptFits, StartFits, ProcessSeen, LoginFits,
              EndFits, Starting, Storing, Failing, Keeping, Ending, Kinds
<1>25. CASE ToCollecting(c)
  <2>1. CASE Return(c)
    BY <1>0, <1>6, <1>b, <2>1, ReturnIs DEF Fits
  <2>2. CASE call' = [call EXCEPT ![c].pc = "gather", ![c].st = "collecting"]
    <3>1. /\ s.pc = "collecting" /\ t.pc = "gather" /\ t.at = at /\ t.st = "collecting"
          /\ t.kind = s.kind /\ t.end = s.end
      BY <1>0, <1>1, <1>25, <1>a, <1>b, <1>2, <2>2 DEF ToCollecting, CallType
    <3>2. s.kind = "failure"
      BY <1>5, <3>1 DEF EndFits, Failing
    <3> QED BY <1>c, <1>3, <1>5, <3>1, <3>2 DEF Fits, AttemptFits, StartFits, ProcessSeen, LoginFits,
                EndFits, Starting, Storing, Failing, Keeping, Ending, Kinds
  <2> QED BY <1>25, <2>1, <2>2 DEF ToCollecting
<1>26. CASE Gather(c) \/ (Stored(c) /\ ~Return(c)) \/ (Unverified(c) /\ ~Return(c))
  <2>1. /\ s.pc \in {"gather", "store"} /\ t.pc \in {"store", "accept", "finish"}
        /\ t.at = at /\ t.st = s.st /\ t.kind = s.kind
        /\ s.pc = "gather" <=> t.pc = "store"
        /\ t.pc = "accept" => s.kind = "result"
        /\ t.end = s.end \/ (s.kind = "result" /\ t.pc = "finish" /\ t.end = "failed")
        /\ t.pc = "finish" => s.kind # "result" \/ t.end = "failed"
    BY <1>0, <1>1, <1>8, <1>26, <1>a, <1>b, <1>2 DEF Gather, Stored, Unverified, PCs, CallType
  <2>2. /\ s.kind \in Kinds /\ s.st = "collecting"
        /\ s.kind = "result" => LoginGone(at)
    BY <1>2, <1>5, <2>1 DEF EndFits, LoginFits, Keeping
  <2>3. t.pc \in {"accept", "finish"} => <<at, s.kind>> \in r2'
    BY <1>26, <1>a, <1>2, <2>1 DEF Gather, Stored, Unverified, StoreManifest
  <2>4. s.kind = "result" => row'[at].process /\ lease'[at] = NoTag /\ ~box'[at].auth
    BY <1>3, <2>1, <2>2 DEF LoginGone, Kept
  <2>5. t.pc = "accept" => row'[at].process
    BY <2>1, <2>4
  <2>6. LoginFits(t)'
    BY <2>1, <2>4, <2>5 DEF LoginFits, LoginGone, Storing, Keeping, NoTag
  <2>7. EndFits(t)'
    BY <1>5, <2>1, <2>2, <2>3 DEF EndFits, Failing, Storing, Keeping, Ending, Kinds, Ends
  <2> QED BY <1>c, <1>3, <2>1, <2>2, <2>6, <2>7 DEF Fits, AttemptFits, StartFits, ProcessSeen,
              Starting, Failing
<1>27. CASE (Finish(c) /\ ~Return(c)) \/ Destroy(c)
  <2>1. /\ s.pc \in {"finish", "destroy"} /\ t.pc \in Ending
        /\ t.at = at /\ t.st = s.st /\ t.kind = s.kind /\ t.end = s.end
    BY <1>8, <1>27, <1>a DEF Finish, Destroy, PCs, Ending
  <2>2. at \in Ended'
    <3>1. CASE Destroy(c)
      BY <1>2, <1>4, <1>5, <1>a, <3>1 DEF Destroy, EndFits, Ending
    <3>2. CASE Finish(c) /\ ~Return(c)
      <4>1. s.pc = "finish" /\ s.end \in Ends
        BY <1>5, <1>a, <3>2 DEF Finish, EndFits
      <4>2. row' = [row EXCEPT ![at] = [row[at] EXCEPT !.state = s.end, !.manifest = s.kind]]
        BY <1>a, <1>2, <3>2 DEF Finish, SetRow
      <4>3. row'[at] = [row[at] EXCEPT !.state = s.end, !.manifest = s.kind]
        BY <1>0, <1>3, <4>1, <4>2 DEF Moves
      <4>4. row'[at].state = s.end
        BY <1>3, <4>1, <4>3 DEF RowType
      <4> QED BY <1>3, <4>1, <4>4 DEF Ended
    <3> QED BY <1>27, <3>1, <3>2
  <2> QED BY <1>c, <1>3, <1>5, <2>1, <2>2 DEF Fits, AttemptFits, StartFits, ProcessSeen, LoginFits,
              EndFits, Starting, Storing, Failing, Keeping, Ending, Ends
<1>28. CASE Return(c)
  BY <1>0, <1>6, <1>b, <1>28, ReturnIs DEF Fits
<1>29. Touch(c) \/ Hold(c) \/ DestroyFails(c) \/ MarkDestroyed(c) \/ CallLost(c) => Return(c)
  BY DEF Touch, Hold, DestroyFails, MarkDestroyed, CallLost
<1>30. Exec(c) \/ MarkStarted(c) \/ StartFails(c) =>
         \/ AcquireLogin(c) \/ WriteLogin(c) \/ (Exec(c) /\ Goto(c, "mark"))
         \/ (Exec(c) \/ MarkStarted(c) \/ StartFails(c))
              /\ ~(Exec(c) /\ Goto(c, "mark")) /\ ~Return(c)
         \/ Return(c)
  OBVIOUS
<1>31. GatherFails(c) => (s.kind = "result" /\ Failed(c, "failed", FALSE)) \/ Return(c)
  BY <1>a DEF GatherFails
<1> QED
  BY <1>9, <1>10, <1>11, <1>12, <1>13, <1>14, <1>15, <1>16, <1>17, <1>18, <1>19, <1>20, <1>21,
     <1>22, <1>23, <1>24, <1>25, <1>26, <1>27, <1>28, <1>29, <1>30, <1>31 DEF CallStep
-----------------------------------------------------------------------------
(* Creating and starting an attempt.                                        *)

\* A call comes to create an identity nobody has, and to start an attempt that
\* was pending.
LEMMA ComesTo ==
  ASSUME IInv, NEW c \in Calls, CallStep(c) \/ CallLost(c)
  PROVE  /\ call'[c].pc = "create" => call'[c].at = issued + 1
         /\ call'[c].pc \in Starting =>
              /\ call'[c].at = call[c].at
              /\ call[c].pc \in Starting \/ row[call[c].at].state = "pending"
<1>0. TypeOK /\ call \in [Calls -> CallType]
  BY DEF IInv, TypeOK
<1> DEFINE Goal == /\ call'[c].pc = "create" => call'[c].at = issued + 1
                   /\ call'[c].pc \in Starting =>
                        /\ call'[c].at = call[c].at
                        /\ call[c].pc \in Starting \/ row[call[c].at].state = "pending"
<1> SUFFICES Goal
  OBVIOUS
<1>1. ASSUME NEW pc \in PCs \ ({"create"} \cup Starting), Goto(c, pc)
      PROVE  Goal
  BY <1>0, <1>1, GotoIs
<1>2. CASE Return(c)
  BY <1>0, <1>2, ReturnIs DEF Idle, Starting
<1>3. ASSUME NEW end \in Ends, NEW process \in BOOLEAN, Failed(c, end, process)
      PROVE  Goal
  BY <1>0, <1>3, FailedIs DEF Starting
<1>4. CASE call'[c].pc \notin {"create"} \cup Starting
  BY <1>4
<1>5. CASE Read(c)
  <2>1. CASE call' = [call EXCEPT ![c].pc = "create", ![c].at = issued', ![c].after = {}]
             /\ issued' = issued + 1
    BY <1>0, <2>1 DEF CallType, Starting
  <2>2. ASSUME NEW a \in Rows,
               call' = [call EXCEPT ![c] =
                   IF row[a].state \in Ends THEN Idle
                   ELSE [Idle EXCEPT !.at = a, !.st = row[a].state,
                           !.process = row[a].process,
                           !.pc = IF row[a].state = "pending" THEN "claim" ELSE "observe"]]
        PROVE  Goal
    <3>1. call'[c].pc \in {"idle", "claim", "observe"}
      BY <1>0, <2>2 DEF Idle
    <3> QED BY <1>4, <3>1 DEF Starting
  <2> QED BY <1>2, <1>5, <2>1, <2>2 DEF Read
<1> HIDE DEF Goal
<1>6. CASE Begin(c) \/ ReadBack(c)
  <2>1. call'[c].pc \in {"idle", "read", "claim"}
    <3>1. CASE Begin(c)
      BY <1>0, <3>1 DEF Begin, Idle
    <3>2. CASE ReadBack(c)
      <4>1. CASE LatestIs(call[c].at)
        BY <1>0, <3>2, <4>1 DEF ReadBack, Idle
      <4>2. CASE ~LatestIs(call[c].at)
        BY <1>0, <3>2, <4>2 DEF ReadBack, Idle
      <4> QED BY <4>1, <4>2
    <3> QED BY <1>6, <3>1, <3>2
  <2> QED BY <1>4, <2>1 DEF Starting
<1>7. CASE Claim(c) \/ AcquireLogin(c) \/ WriteLogin(c)
  <2>1. CASE Return(c)
    BY <1>2, <2>1
  <2>2. CASE /\ call'[c].pc \in Starting /\ call'[c].at = call[c].at
             /\ call[c].pc \in Starting \/ row[call[c].at].state = "pending"
    BY <2>2 DEF Goal, Starting
  <2>3. CASE Claim(c) /\ ~Return(c)
    BY <1>0, <2>2, <2>3 DEF Claim, CallType, Starting
  <2>4. CASE AcquireLogin(c) \/ WriteLogin(c)
    BY <1>0, <2>2, <2>4 DEF AcquireLogin, WriteLogin, CallType, Starting
  <2> QED BY <1>7, <2>1, <2>3, <2>4
<1>8. CASE Exec(c)
  <2>1. CASE Goto(c, "mark")
    <3>1. call'[c].pc = "mark" /\ call'[c].at = call[c].at /\ call[c].pc = "exec"
      BY <1>0, <1>8, <2>1, GotoIs DEF PCs, Exec
    <3> QED BY <3>1 DEF Goal, Starting
  <2>2. CASE Failed(c, "failed", FALSE)
    BY <1>3, <2>2 DEF Ends
  <2> QED BY <1>8, <2>1, <2>2 DEF Exec
<1>9. CASE MarkStarted(c) \/ StartFails(c) \/ Observe(c)
  BY <1>1, <1>2, <1>3, <1>9 DEF MarkStarted, StartFails, Observe, Ends, PCs, Starting
<1>10. CASE Collect(c) \/ Put(c) \/ PutFails(c) \/ Record(c) \/ Accept(c)
  <2>1. call'[c].pc \in {"resume", "record", "release", "finish"}
    BY <1>0, <1>10 DEF Collect, Put, PutFails, Record, Accept, CallType
  <2> QED BY <1>4, <2>1 DEF Starting
<1>11. CASE Resume(c) \/ DeleteLogin(c) \/ ToCollecting(c) \/ Unverified(c) \/ GatherFails(c)
  <2>1. CASE Failed(c, "failed", FALSE)
    BY <1>3, <2>1 DEF Ends
  <2>2. CASE Return(c)
    BY <1>2, <2>2
  <2>3. CASE ~Failed(c, "failed", FALSE) /\ ~Return(c)
    <3>1. call'[c].pc \in {"put", "gather", "finish"}
      <4>1. CASE Resume(c)
        <5>1. call' = [call EXCEPT ![c].pc = "put", ![c].tag = lease[call[c].at],
                                   ![c].holds = box[call[c].at].holds]
          BY <2>3, <4>1 DEF Resume
        <5> QED BY <1>0, <5>1 DEF CallType
      <4>2. CASE DeleteLogin(c)
        <5>1. call' = [call EXCEPT ![c].pc = "gather", ![c].kind = "result"]
          BY <2>3, <4>2 DEF DeleteLogin
        <5> QED BY <1>0, <5>1 DEF CallType
      <4>3. CASE ToCollecting(c)
        <5>1. call' = [call EXCEPT ![c].pc = "gather", ![c].st = "collecting"]
          BY <2>3, <4>3 DEF ToCollecting
        <5> QED BY <1>0, <5>1 DEF CallType
      <4>4. CASE Unverified(c)
        <5>1. call' = [call EXCEPT ![c].pc = "finish", ![c].end = "failed", ![c].keep = TRUE]
          BY <2>3, <4>4 DEF Unverified
        <5> QED BY <1>0, <5>1 DEF CallType
      <4>5. CASE GatherFails(c)
        BY <2>3, <4>5 DEF GatherFails
      <4> QED BY <1>11, <4>1, <4>2, <4>3, <4>4, <4>5
    <3> QED BY <1>4, <3>1 DEF Starting
  <2> QED BY <2>1, <2>2, <2>3
<1>12. CASE \/ Create(c) \/ ReleaseLogin(c) \/ Stop(c) \/ Scrub(c) \/ Drop(c) \/ Gather(c)
            \/ Stored(c) \/ Finish(c) \/ Destroy(c)
  <2>1. \A pc \in {"readback", "delete", "scrub", "drop", "gather", "collecting", "store",
                   "accept", "finish", "hold", "destroy", "destroyed"} :
          pc \in PCs \ ({"create"} \cup Starting)
    BY DEF PCs, Starting
  <2> QED BY <1>1, <1>2, <1>12, <2>1 DEF Create, ReleaseLogin, Stop, Scrub, Drop, Gather, Stored,
              Finish, Destroy
<1>13. CASE Touch(c) \/ Hold(c) \/ DestroyFails(c) \/ MarkDestroyed(c) \/ CallLost(c)
  BY <1>2, <1>13 DEF Touch, Hold, DestroyFails, MarkDestroyed, CallLost
<1> QED
  BY <1>5, <1>6, <1>7, <1>8, <1>9, <1>10, <1>11, <1>12, <1>13 DEF CallStep

LEMMA ApartStays ==
  ASSUME IInv, NEW e \in Calls, CallStep(e) \/ CallLost(e)
  PROVE  Apart'
<1>0. Apart /\ Only(e) /\ CallsFit /\ issued \in Nat
  BY CallOnly, StepMoves DEF IInv, Step, Moves
<1>1. ASSUME NEW d \in Calls, d # e, call'[e].at = call'[d].at
      PROVE  /\ ~(call'[e].pc = "create" /\ call'[d].pc = "create")
             /\ ~(call'[e].pc \in Starting /\ call'[d].pc \in Starting)
  <2>1. call'[d] = call[d]
    BY <1>0, <1>1 DEF Only
  <2>2. AttemptFits(call[d]) /\ StartFits(call[d])
    BY <1>0 DEF CallsFit, CallFits
  <2>3. ASSUME call'[e].pc = "create", call'[d].pc = "create"
        PROVE  FALSE
    <3>1. call'[e].at = issued + 1
      BY <2>3, ComesTo
    <3>2. call[d].at \in Nat /\ call[d].at <= issued
      BY <2>1, <2>2, <2>3, ConstantFacts DEF AttemptFits
    <3> QED BY <1>0, <1>1, <2>1, <3>1, <3>2
  <2>4. ASSUME call'[e].pc \in Starting, call'[d].pc \in Starting
        PROVE  FALSE
    <3>1. /\ call'[e].at = call[e].at
          /\ call[e].pc \in Starting \/ row[call[e].at].state = "pending"
      BY <2>4, ComesTo
    <3>2. call[d].pc \in Starting /\ call[d].at = call[e].at
      BY <1>1, <2>1, <2>4, <3>1
    <3>3. row[call[e].at].state # "pending"
      BY <2>2, <3>2 DEF StartFits
    <3> QED BY <1>0, <1>1, <3>1, <3>2, <3>3 DEF Apart
  <2> QED BY <2>3, <2>4
<1>2. ASSUME NEW c \in Calls, NEW d \in Calls, c # d, call'[c].at = call'[d].at
      PROVE  /\ ~(call'[c].pc = "create" /\ call'[d].pc = "create")
             /\ ~(call'[c].pc \in Starting /\ call'[d].pc \in Starting)
  <2>1. CASE c = e \/ d = e
    BY <1>1, <1>2, <2>1
  <2>2. CASE c # e /\ d # e
    BY <1>0, <1>2, <2>2 DEF Only, Apart
  <2> QED BY <2>1, <2>2
<1> QED BY <1>2 DEF Apart, Starting

\* The calls that do not step keep what they rely on.
LEMMA CallsStay ==
  ASSUME IInv, Step
  PROVE  call' \in [Calls -> CallType] /\ CallsFit' /\ Apart'
<1>0. /\ Moves /\ CallsFit /\ Apart /\ call \in [Calls -> CallType]
  BY StepMoves DEF IInv, TypeOK
<1>1. CASE Outside
  <2>1. call' = call /\ \A a \in Attempts : ~Inserted(a) /\ ~Recorded(a)
    BY <1>1, OutsideRow
  <2>2. ASSUME NEW d \in Calls
        PROVE  CallFits(call[d])'
    <3>1. PICK s : s = call[d]
      OBVIOUS
    <3>2. s \in CallType /\ CallFits(s)
      BY <1>0, <3>1 DEF CallsFit
    <3>3. s.pc = "create" \/ s.pc \in Starting => s.at \in Attempts
      BY <3>2 DEF CallFits, AttemptFits, Starting
    <3>4. CallFits(s)'
      BY <1>0, <2>1, <3>2, <3>3, FitsStays
    <3>5. call'[d] = s
      BY <2>1, <3>1
    <3> QED BY <3>4, <3>5 DEF CallFits, AttemptFits, StartFits, ProcessSeen, LoginFits, EndFits,
                LoginGone, Rows
  <2> QED BY <1>0, <2>1, <2>2 DEF CallsFit, Apart, Starting
<1>2. ASSUME NEW c \in Calls, CallStep(c) \/ CallLost(c)
      PROVE  call' \in [Calls -> CallType] /\ CallsFit' /\ Apart'
  <2>1. Only(c) /\ Apart' /\ CallFits(call[c])'
    BY <1>2, CallOnly, ApartStays, OwnFits
  <2>2. ASSUME NEW d \in Calls, d # c
        PROVE  CallFits(call[d])'
    <3>1. PICK s : s = call[d]
      OBVIOUS
    <3>2. s \in CallType /\ CallFits(s)
      BY <1>0, <3>1 DEF CallsFit
    <3>3. s.pc = "create" \/ s.pc \in Starting => s.at \in Attempts
      BY <3>2 DEF CallFits, AttemptFits, Starting
    <3>4. s.pc = "create" => ~Inserted(s.at)
      <4> SUFFICES ASSUME s.pc = "create", Inserted(s.at)
                   PROVE  FALSE
        OBVIOUS
      <4>1. call[c].pc = "create" /\ s.at = call[c].at
        BY <1>2, <3>3, CallRow DEF Create
      <4> QED BY <1>0, <2>2, <3>1, <4>1 DEF Apart
    <3>5. s.pc \in Starting => ~Recorded(s.at)
      <4> SUFFICES ASSUME s.pc \in Starting, Recorded(s.at)
                   PROVE  FALSE
        OBVIOUS
      <4>1. call[c].pc = "mark" /\ s.at = call[c].at
        BY <1>2, <3>3, CallRow DEF MarkStarted
      <4>2. call[c].pc \in Starting
        BY <4>1 DEF Starting
      <4> QED BY <1>0, <2>2, <3>1, <4>1, <4>2 DEF Apart
    <3>6. CallFits(s)'
      BY <1>0, <3>2, <3>4, <3>5, FitsStays
    <3>7. call'[d] = s
      BY <2>1, <2>2, <3>1 DEF Only
    <3> QED BY <3>6, <3>7 DEF CallFits, AttemptFits, StartFits, ProcessSeen, LoginFits, EndFits,
                LoginGone, Rows
  <2>3. \A d \in Calls : CallFits(call[d])'
    BY <2>1, <2>2
  <2> QED BY <2>1, <2>3 DEF CallsFit, Only
<1> QED BY <1>1, <1>2 DEF Step
-----------------------------------------------------------------------------
(* The theorems.                                                            *)

LEMMA InitFits ==
  ASSUME Init
  PROVE  IInv
<1>1. VaultType
  BY ConstantFacts DEF Init, VaultInit, VaultType, Tags
<1>2. TypeOK
  BY <1>1, RecordsTyped, ConstantFacts DEF Init, TypeOK
<1>3. Unissued /\ ProcessFits /\ BoxFits /\ Stopped /\ Accepted /\ EndHasEvidence
  BY DEF Init, Unissued, ProcessFits, BoxFits, Stopped, Accepted, EndHasEvidence, Ended, Ends, NoRow, NoBox
<1>4. CleanupFits
  BY ConstantFacts DEF Init, CleanupFits, NoRow, NoRequest
<1>5. CallsFit /\ Apart
  BY DEF Init, CallsFit, Apart, Idle, CallFits, AttemptFits, StartFits, ProcessSeen, LoginFits,
     EndFits, Starting, Storing, Failing, Keeping, Ending, Kinds, Ends
<1> QED BY <1>2, <1>3, <1>4, <1>5 DEF IInv

LEMMA StepFits ==
  ASSUME IInv, Step
  PROVE  IInv'
<1>0. Moves /\ VaultType' /\ box' \in [Attempts -> BoxType] /\ BoxFits'
  BY StepMoves
<1>1. visit' \in 1 .. MaxVisits /\ after' \subseteq Attempts /\ late' \subseteq Attempts
      /\ faults' \in 0 .. MaxFaults
  BY OutsideOthers, CallOthers DEF Step, IInv, TypeOK
<1>2. /\ manifest' \in [Attempts \X Kinds -> {"none", "pending", "complete", "failed"}]
      /\ r2' \subseteq Attempts \X Kinds /\ issued' \in Attempts \cup {0}
  BY EvidenceGrows
<1>3. /\ cron' \in [todo : SUBSET Attempts, at : Attempts \cup {0}]
      /\ operator' \in RequestType /\ row' \in [Attempts -> RowType]
  BY <1>0, CronStays, OperatorStays DEF CronType, Moves
<1>4. call' \in [Calls -> CallType] /\ CallsFit' /\ Apart'
  BY CallsStay
<1>5. TypeOK'
  BY <1>0, <1>1, <1>2, <1>3, <1>4 DEF TypeOK
<1>6. Unissued' /\ ProcessFits' /\ Stopped' /\ Accepted' /\ EndHasEvidence' /\ CleanupFits'
  BY <1>0, UnissuedStays, ProcessFitsStays, StoppedStays, AcceptedStays, EndHasEvidenceStays,
     CleanupStays
<1> QED BY <1>0, <1>4, <1>5, <1>6 DEF IInv

(* The inductive invariant holds in every state the attempts reach.        *)
THEOREM SandboxInvariance == Spec => []IInv
<1>1. Init => IInv
  BY InitFits
<1>2. IInv /\ [Next]_vars => IInv'
  BY StepFits, NextIsStep
<1> QED BY <1>1, <1>2, PTL DEF Spec

(* Every variable keeps its type.                                          *)
THEOREM SandboxTypeCorrect == Spec => []TypeOK
<1>1. IInv => TypeOK
  BY DEF IInv
<1> QED BY <1>1, SandboxInvariance, PTL

(* A sandbox is recorded as destroyed only after a manifest of its outputs *)
(* is in R2, unless an operator ended the attempt during collection.       *)
THEOREM SandboxKeepsEvidence == Spec => []EvidenceBeforeDestroy
<1>1. IInv => EvidenceBeforeDestroy
  BY DEF IInv, CleanupFits, EndHasEvidence, EvidenceBeforeDestroy
<1> QED BY <1>1, SandboxInvariance, PTL

(* An accepted attempt left no login in its sandbox and no checkout row,   *)
(* whatever calls are still at work on it.                                 *)
THEOREM SandboxLeavesNoLogin == Spec => []AcceptedLeavesNoLogin
<1>1. IInv => AcceptedLeavesNoLogin
  BY DEF IInv, Accepted, AcceptedLeavesNoLogin, LoginGone
<1> QED BY <1>1, SandboxInvariance, PTL

(* No ended attempt with a recorded process has a running one.             *)
THEOREM SandboxStops == Spec => []EndedMeansStopped
<1>1. IInv => EndedMeansStopped
  BY DEF IInv, Stopped, EndedMeansStopped
<1> QED BY <1>1, SandboxInvariance, PTL

EndStandsStep == \A a \in Ended :
  row'[a].state = row[a].state /\ row'[a].manifest = row[a].manifest

(* The end of an attempt and its manifest are never rewritten.             *)
THEOREM SandboxEndStands == Spec => EndStands
<1>1. IInv /\ [Next]_vars => [EndStandsStep]_vars
  <2> SUFFICES ASSUME IInv, [Next]_vars, NEW a \in Ended
               PROVE  row'[a].state = row[a].state /\ row'[a].manifest = row[a].manifest
    BY DEF EndStandsStep
  <2>1. a \in Attempts /\ row[a].state \in Ends /\ row[a] \in RowType /\ RowMoves(a)
    BY NextIsStep, StepMoves DEF Ended, Moves
  <2> QED BY <2>1, RowStays
<1>2. [EndStandsStep]_vars <=> [\A a \in Ended :
          row'[a].state = row[a].state /\ row'[a].manifest = row[a].manifest]_vars
  BY DEF EndStandsStep
<1> QED BY <1>1, <1>2, SandboxInvariance, PTL DEF Spec, EndStands
=============================================================================
