--------------------------- MODULE SandboxAttempts ---------------------------
(***************************************************************************)
(* One agent stage of one run: the executor calls of the durable program,  *)
(* the attempt rows, the sandboxes behind them, their evidence and their   *)
(* cleanup (src/src/sandbox-controller.ts, artifact-collector.ts,          *)
(* cleanup-audit.ts), for a Codex job that keeps no bounded review.        *)
(* Every await on shared state is a step of its own.  A step of the        *)
(* durable program that times out is retried while its first call is still *)
(* running, so two calls may overlap; a call may also be lost.               *)
(***************************************************************************)
EXTENDS CredentialVault, FiniteSetsExt

CONSTANTS Calls,        \* slots for executor calls in progress
          Overlap,      \* may a call begin while another is running?
          Retention,    \* is failureRetentionMs above 0?
          Operator,     \* may an operator ask for a sandbox to be destroyed?
          MaxVisits,      \* bound: visits of the stage
          MaxFaults       \* bound: failed awaits, lost calls and containers

ASSUME SandboxAssumption == /\ Attempts = 1 .. Cardinality(Attempts)
                            /\ IsFiniteSet(Attempts)
                            /\ Overlap \in BOOLEAN /\ Retention \in BOOLEAN
                            /\ Operator \in BOOLEAN
                            /\ MaxFaults \in Nat /\ MaxVisits \in Nat \ {0}

Live == {"pending", "starting", "running", "collecting"}
Ends == {"completed", "blocked", "failed", "interrupted", "absolute_timeout"}
Kinds == {"result", "failure"}

VARIABLES row,          \* agent_attempts
          box,          \* the sandboxes
          manifest,     \* artifact_manifests.state of both manifests
          r2,           \* manifests whose object was written to R2
          call,         \* the executor calls
          cron,         \* the scheduled cleanup: its list, and its target
          operator,     \* the operator's destroy request
          issued,       \* attempt identities handed out by allocate
          visit,        \* the run's visit of the stage's node
          after,        \* ended attempts with run.updated_at > ended_at
          late,         \* attempts whose absolute deadline has passed
          faults          \* how many faults have happened

runVars == <<issued, visit, after>>
evidenceVars == <<manifest, r2>>
rest == <<cron, operator, late>>
others == <<rest, faults>>
vars == <<object, lease, row, box, manifest, r2, call, cron,
          operator, issued, visit, after, late, faults>>

NoRow == [state |-> "none", process |-> FALSE, manifest |-> "none",
          visit |-> 0, cleanup |-> "pending", hold |-> "none", operator |-> FALSE]
NoBox == [up |-> FALSE, auth |-> FALSE, holds |-> {}, proc |-> "none"]
NoRequest == [pc |-> "idle", at |-> 0, seen |-> NoRow]
Idle == [pc |-> "idle", at |-> 0, st |-> "none", process |-> FALSE,
         tag |-> NoTag, holds |-> {}, end |-> "none", kind |-> "none",
         keep |-> FALSE, visit |-> 0, after |-> {}]

PCs == {"idle", "read", "create", "readback", "claim", "acquire", "write",
        "exec", "mark", "observe", "touch", "stop", "scrub", "drop",
        "collecting", "gather", "store", "finish", "hold", "destroy",
        "destroyed", "collect", "resume", "put", "record", "release",
        "delete", "accept"}

RowType == [state : {"none"} \cup Live \cup Ends, process : BOOLEAN,
            manifest : {"none"} \cup Kinds, visit : Nat,
            cleanup : {"pending", "destroyed", "failed"},
            hold : {"none", "held", "over"}, operator : BOOLEAN]

BoxType == [up : BOOLEAN, auth : BOOLEAN, holds : SUBSET Refreshers,
            proc : {"none", "running", "ok", "error"}]
CallType == [pc : PCs, at : Attempts \cup {0}, st : {"none"} \cup Live, process : BOOLEAN,
             tag : Tags \cup {NoTag}, holds : SUBSET Refreshers,
             end : {"none"} \cup Ends, kind : {"none"} \cup Kinds,
             keep : BOOLEAN, visit : Nat, after : SUBSET Attempts]
RequestType == [pc : {"idle", "claim", "destroy", "mark"},
                at : Attempts \cup {0}, seen : RowType]

TypeOK ==
    /\ VaultType
    /\ row \in [Attempts -> RowType]
    /\ box \in [Attempts -> BoxType]
    /\ manifest \in [Attempts \X Kinds -> {"none", "pending", "complete", "failed"}]
    /\ r2 \subseteq Attempts \X Kinds
    /\ call \in [Calls -> CallType]
    /\ cron \in [todo : SUBSET Attempts, at : Attempts \cup {0}]
    /\ operator \in RequestType
    /\ issued \in Attempts \cup {0}
    /\ visit \in 1 .. MaxVisits
    /\ after \subseteq Attempts
    /\ late \subseteq Attempts
    /\ faults \in 0 .. MaxFaults

Init ==
    /\ VaultInit
    /\ row = [a \in Attempts |-> NoRow]
    /\ box = [a \in Attempts |-> NoBox]
    /\ manifest = [m \in Attempts \X Kinds |-> "none"]
    /\ r2 = {}
    /\ call = [c \in Calls |-> Idle]
    /\ cron = [todo |-> {}, at |-> 0]
    /\ operator = NoRequest
    /\ issued = 0 /\ visit = 1 /\ after = {} /\ late = {} /\ faults = 0

-----------------------------------------------------------------------------
(* Helpers.                                                                *)

Ended == {a \in Attempts : row[a].state \in Ends}
Rows == {a \in Attempts : row[a].state # "none"}
LatestIs(a) == a \in Rows /\ \A b \in Rows : b <= a

Fault == faults < MaxFaults /\ faults' = faults + 1
NoFault == UNCHANGED faults
Goto(c, pc) == call' = [call EXCEPT ![c].pc = pc]
Return(c) == call' = [call EXCEPT ![c] = Idle]
SetRow(a, r) == row' = [row EXCEPT ![a] = r]
SetState(a, s) == row' = [row EXCEPT ![a].state = s]
SetBox(a, b) == box' = [box EXCEPT ![a] = b]

(* The call turns to finishFailure with this end and this process handle.  *)
Failed(c, end, process) ==
    call' = [call EXCEPT ![c] = [Idle EXCEPT !.pc = "stop", !.at = call[c].at,
        !.st = call[c].st, !.end = end, !.process = process,
        !.kind = "failure", !.keep = TRUE]]

-----------------------------------------------------------------------------
(* SandboxAgentController.execute, called by the step agent:<node>:visit.  *)

(* The program reads the run (authority) and calls execute.                *)
Begin(c) ==
    /\ call[c].pc = "idle"
    /\ Overlap \/ \A d \in Calls : call[d].pc = "idle"
    /\ call' = [call EXCEPT ![c] = [Idle EXCEPT !.pc = "read", !.visit = visit,
                                                !.after = after]]
    /\ UNCHANGED <<vaultVars, row, box, evidenceVars, runVars, others>>

(* Mutant: every ended attempt is taken for one of an earlier visit.       *)
AttemptDueAtEnd(c) == \A a \in Rows : LatestIs(a) => row[a].state \in Ends

(* No attempt yet, or the run was written after the latest one ended.      *)
AttemptDue(c) == \A a \in Rows : LatestIs(a) => a \in call[c].after

(* findLatest, and the branch of execute it selects.  allocate takes the   *)
(* identity and created_at here; its INSERT is a later step.  When the     *)
(* model has no identity left the call is dropped.                         *)
Read(c) ==
    /\ call[c].pc = "read"
    /\ \/ /\ AttemptDue(c) /\ issued + 1 \in Attempts
          /\ issued' = issued + 1
          /\ call' = [call EXCEPT ![c].pc = "create", ![c].at = issued', ![c].after = {}]
       \/ /\ AttemptDue(c) /\ issued + 1 \notin Attempts
          /\ Return(c) /\ UNCHANGED issued
       \/ /\ ~AttemptDue(c)
          /\ \E a \in Rows :
                /\ LatestIs(a)
                /\ call' = [call EXCEPT ![c] =
                     IF row[a].state \in Ends THEN Idle
                     ELSE [Idle EXCEPT !.at = a, !.st = row[a].state,
                             !.process = row[a].process,
                             !.pc = IF row[a].state = "pending" THEN "claim" ELSE "observe"]]
          /\ UNCHANGED issued
    /\ UNCHANGED <<vaultVars, row, box, evidenceVars, visit, after, others>>

(* create: the INSERT; nothing makes a second row for the visit impossible.*)
Create(c) ==
    /\ call[c].pc = "create"
    /\ SetRow(call[c].at, [NoRow EXCEPT !.state = "pending", !.visit = call[c].visit])
    /\ Goto(c, "readback")
    /\ UNCHANGED <<vaultVars, box, evidenceVars, runVars, others>>

(* create reads the latest row back and throws when it is another one.     *)
ReadBack(c) ==
    /\ call[c].pc = "readback"
    /\ call' = [call EXCEPT ![c] =
         IF LatestIs(call[c].at)
         THEN [Idle EXCEPT !.pc = "claim", !.at = call[c].at, !.st = "pending"] ELSE Idle]
    /\ UNCHANGED <<vaultVars, row, box, evidenceVars, runVars, others>>

-----------------------------------------------------------------------------
(* start.                                                                  *)

(* setState pending -> starting: the loser returns "running".              *)
Claim(c) ==
    LET a == call[c].at IN
    /\ call[c].pc = "claim"
    /\ IF row[a].state = "pending"
       THEN /\ SetState(a, "starting")
            /\ call' = [call EXCEPT ![c].pc = "acquire", ![c].st = "starting"]
       ELSE Return(c) /\ UNCHANGED row
    /\ UNCHANGED <<vaultVars, box, evidenceVars, runVars, others>>

AcquireLogin(c) ==
    /\ call[c].pc = "acquire"
    /\ Acquire(call[c].at)
    /\ call' = [call EXCEPT ![c].pc = "write", ![c].holds = object.holds]
    /\ UNCHANGED <<row, box, evidenceVars, runVars, others>>

(* setKeepAlive, mkdir and writeFile: they bring up a container, a fresh   *)
(* one if the sandbox was destroyed meanwhile.                             *)
WriteLogin(c) ==
    LET a == call[c].at IN
    /\ call[c].pc = "write"
    /\ SetBox(a, [box[a] EXCEPT !.up = TRUE, !.auth = TRUE, !.holds = call[c].holds])
    /\ call' = [call EXCEPT ![c].pc = "exec", ![c].holds = {}]
    /\ UNCHANGED <<vaultVars, row, evidenceVars, runVars, others>>

(* The supervisor is started in the prepared container; in a fresh one the *)
(* checkout is missing and start throws.                                   *)
Exec(c) ==
    LET a == call[c].at IN
    /\ call[c].pc = "exec"
    /\ IF box[a].auth
       THEN SetBox(a, [box[a] EXCEPT !.proc = "running"]) /\ Goto(c, "mark")
       ELSE Failed(c, "failed", FALSE) /\ UNCHANGED box
    /\ UNCHANGED <<vaultVars, row, evidenceVars, runVars, others>>

MarkStarted(c) ==
    LET a == call[c].at IN
    /\ call[c].pc = "mark"
    /\ IF row[a].state \in {"pending", "starting"}
       THEN /\ SetRow(a, [row[a] EXCEPT !.state = "running", !.process = TRUE])
            /\ Return(c)
       ELSE Failed(c, "failed", TRUE) /\ UNCHANGED row
    /\ UNCHANGED <<vaultVars, box, evidenceVars, runVars, others>>

(* Any call of start throws; the supervisor is known once exec returned.   *)
StartFails(c) ==
    /\ call[c].pc \in {"acquire", "write", "exec", "mark"}
    /\ Failed(c, "failed", call[c].pc = "mark")
    /\ Fault
    /\ UNCHANGED <<vaultVars, row, box, evidenceVars, runVars, rest>>

-----------------------------------------------------------------------------
(* Mutant: a stale heartbeat ends the attempt without stopping the process.*)
ObserveLeavesRunning(c) ==
    LET a == call[c].at IN
    /\ call[c].pc = "observe"
    /\ Failed(c, "interrupted", FALSE)
    /\ UNCHANGED <<vaultVars, row, box, evidenceVars, runVars, others>>

(* reconcile: the snapshot of the row against the clock, the process and   *)
(* the heartbeat.                                                          *)
Observe(c) ==
    LET a == call[c].at
        known == call[c].process /\ box[a].up /\ box[a].proc # "none" IN
    /\ call[c].pc = "observe"
    /\ \/ /\ a \in late
          /\ Failed(c, "absolute_timeout", known)
       \/ /\ a \notin late /\ ~known
          /\ Failed(c, "interrupted", FALSE)
       \/ /\ a \notin late /\ known /\ box[a].proc = "running"
          /\ \/ Goto(c, "touch")
             \/ Failed(c, "interrupted", TRUE)          \* heartbeat_expired
       \/ /\ a \notin late /\ known /\ box[a].proc = "error"
          /\ Failed(c, "failed", TRUE)
       \/ /\ a \notin late /\ known /\ box[a].proc = "ok"
          /\ Goto(c, "collect")
    /\ UNCHANGED <<vaultVars, row, box, evidenceVars, runVars, others>>

(* touchHeartbeat also writes the run, whatever the attempt's state.       *)
Touch(c) ==
    /\ call[c].pc = "touch"
    /\ after' = Ended
    /\ Return(c)
    /\ UNCHANGED <<vaultVars, row, box, evidenceVars, issued, visit, others>>

-----------------------------------------------------------------------------
(* collect.                                                                *)

(* setState running -> collecting, its result ignored.                     *)
Collect(c) ==
    LET a == call[c].at IN
    /\ call[c].pc = "collect"
    /\ row' = [row EXCEPT ![a].state = IF @ = "running" THEN "collecting" ELSE @]
    /\ call' = [call EXCEPT ![c].pc = "resume", ![c].st = "collecting"]
    /\ UNCHANGED <<vaultVars, box, evidenceVars, runVars, others>>

(* resume and the read of auth.json; without row or file collection fails. *)
Resume(c) ==
    LET a == call[c].at IN
    /\ call[c].pc = "resume"
    /\ IF lease[a] # NoTag /\ box[a].auth
       THEN call' = [call EXCEPT ![c].pc = "put", ![c].tag = lease[a],
                                 ![c].holds = box[a].holds]
       ELSE Failed(c, "failed", FALSE)
    /\ UNCHANGED <<vaultVars, row, box, evidenceVars, runVars, others>>

(* The conditional put; a loser keeps the newer object.                    *)
Put(c) ==
    /\ call[c].pc = "put"
    /\ \/ Replace(call[c].tag, call[c].holds)
       \/ object.etag # call[c].tag /\ UNCHANGED vaultVars
    /\ call' = [call EXCEPT ![c].pc = "record", ![c].tag = object'.etag, ![c].holds = {}]
    /\ UNCHANGED <<row, box, evidenceVars, runVars, others>>

(* The put fails without an answer: the row is released and the error goes *)
(* to the handler of collect once the file is deleted.                     *)
PutFails(c) ==
    /\ call[c].pc = "put"
    /\ call' = [call EXCEPT ![c].pc = "release", ![c].tag = NoTag, ![c].holds = {},
                            ![c].end = "failed"]
    /\ Fault
    /\ UNCHANGED <<vaultVars, row, box, evidenceVars, runVars, rest>>

Record(c) ==
    /\ call[c].pc = "record"
    /\ RecordRefresh(call[c].at, call[c].tag)
    /\ call' = [call EXCEPT ![c].pc = "release", ![c].tag = NoTag]
    /\ UNCHANGED <<row, box, evidenceVars, runVars, others>>

ReleaseLogin(c) ==
    /\ call[c].pc = "release"
    /\ Release(call[c].at)
    /\ Goto(c, "delete")
    /\ UNCHANGED <<row, box, evidenceVars, runVars, others>>

(* Mutant: an error of the deletion is ignored.                            *)
DeleteLoginBestEffort(c) ==
    LET a == call[c].at IN
    /\ call[c].pc = "delete"
    /\ \/ SetBox(a, [box[a] EXCEPT !.auth = FALSE, !.holds = {}]) /\ NoFault
       \/ UNCHANGED box /\ Fault
    /\ call' = [call EXCEPT ![c].pc = "gather", ![c].kind = "result"]
    /\ UNCHANGED <<vaultVars, row, evidenceVars, runVars, rest>>

DeleteLogin(c) ==
    LET a == call[c].at IN
    /\ call[c].pc = "delete"
    /\ \/ /\ SetBox(a, [box[a] EXCEPT !.auth = FALSE, !.holds = {}])
          /\ IF call[c].end = "failed" THEN Failed(c, "failed", FALSE)
             ELSE call' = [call EXCEPT ![c].pc = "gather", ![c].kind = "result"]
          /\ NoFault
       \/ Failed(c, "failed", FALSE) /\ UNCHANGED box /\ Fault
    /\ UNCHANGED <<vaultVars, row, evidenceVars, runVars, rest>>

(* The checks that follow collection decide the end: a result of the agent *)
(* is cleaned up at once, a failed check keeps the sandbox for debugging.  *)
Accept(c) ==
    /\ call[c].pc = "accept"
    /\ \E end \in {"completed", "blocked", "failed"}, keep \in BOOLEAN :
          /\ keep => end = "failed"
          /\ call' = [call EXCEPT ![c].pc = "finish", ![c].end = end, ![c].keep = keep]
    /\ UNCHANGED <<vaultVars, row, box, evidenceVars, runVars, others>>

-----------------------------------------------------------------------------
(* finishFailure.                                                          *)

(* stopProcess, when the caller has a process.                             *)
Stop(c) ==
    LET a == call[c].at IN
    /\ call[c].pc = "stop"
    /\ IF call[c].process /\ box[a].proc = "running"
       THEN SetBox(a, [box[a] EXCEPT !.proc = "error"]) ELSE UNCHANGED box
    /\ Goto(c, "scrub")
    /\ UNCHANGED <<vaultVars, row, evidenceVars, runVars, others>>

(* deleteFile auth.json: an error is recorded and ignored.                 *)
Scrub(c) ==
    LET a == call[c].at IN
    /\ call[c].pc = "scrub"
    /\ \/ SetBox(a, [box[a] EXCEPT !.auth = FALSE, !.holds = {}]) /\ NoFault
       \/ UNCHANGED box /\ Fault
    /\ Goto(c, "drop")
    /\ UNCHANGED <<vaultVars, row, evidenceVars, runVars, rest>>

(* The checkout row is released without a refresh: errors are ignored.     *)
Drop(c) ==
    /\ call[c].pc = "drop"
    /\ \/ Release(call[c].at) /\ NoFault
       \/ UNCHANGED vaultVars /\ Fault
    /\ IF call[c].st = "collecting" THEN Goto(c, "gather") ELSE Goto(c, "collecting")
    /\ UNCHANGED <<row, box, evidenceVars, runVars, rest>>

(* setState from the state of the snapshot; the loser throws.              *)
ToCollecting(c) ==
    LET a == call[c].at IN
    /\ call[c].pc = "collecting"
    /\ IF row[a].state = call[c].st
       THEN /\ SetState(a, "collecting")
            /\ call' = [call EXCEPT ![c].pc = "gather", ![c].st = "collecting"]
       ELSE Return(c) /\ UNCHANGED row
    /\ UNCHANGED <<vaultVars, box, evidenceVars, runVars, others>>

-----------------------------------------------------------------------------
(* ArtifactCollector.collect and collectFailure: two manifests per attempt.*)

(* Mutant: begin finds the row and leaves a failed one as it is.           *)
GatherNotReopened(c) ==
    LET m == <<call[c].at, call[c].kind>> IN
    /\ call[c].pc = "gather"
    /\ manifest' = [manifest EXCEPT ![m] = IF @ = "none" THEN "pending" ELSE @]
    /\ Goto(c, "store")
    /\ UNCHANGED <<vaultVars, row, box, r2, runVars, others>>

(* begin: a failed manifest row is opened again.                           *)
Gather(c) ==
    LET m == <<call[c].at, call[c].kind>> IN
    /\ call[c].pc = "gather"
    /\ manifest' = [manifest EXCEPT ![m] = IF @ = "complete" THEN @ ELSE "pending"]
    /\ Goto(c, "store")
    /\ UNCHANGED <<vaultVars, row, box, r2, runVars, others>>

(* The manifest is written; complete skips a row another collector failed. *)
StoreManifest(m) ==
    /\ manifest' = [manifest EXCEPT ![m] = IF @ \in {"pending", "complete"}
                                           THEN "complete" ELSE @]
    /\ r2' = r2 \cup {m}

(* Everything is stored and verifyDurable reads the manifest back.         *)
Stored(c) ==
    LET m == <<call[c].at, call[c].kind>> IN
    /\ call[c].pc = "store"
    /\ StoreManifest(m)
    /\ IF m[2] = "result" THEN Goto(c, "accept") ELSE Goto(c, "finish")
    /\ UNCHANGED <<vaultVars, row, box, runVars, others>>

(* Everything is stored but verifyDurable throws.  finishFailure leaves    *)
(* the attempt collecting; collect has its collection and fails it.        *)
Unverified(c) ==
    LET m == <<call[c].at, call[c].kind>> IN
    /\ call[c].pc = "store"
    /\ StoreManifest(m)
    /\ IF m[2] = "result"
       THEN call' = [call EXCEPT ![c].pc = "finish", ![c].end = "failed", ![c].keep = TRUE]
       ELSE Return(c)
    /\ Fault
    /\ UNCHANGED <<vaultVars, row, box, runVars, rest>>

(* Mutant: failure evidence is collected as far as it goes.                *)
GatherFailsAnyway(c) ==
    LET m == <<call[c].at, call[c].kind>> IN
    /\ call[c].pc = "store"
    /\ manifest' = [manifest EXCEPT ![m] = IF @ = "pending" THEN "failed" ELSE @]
    /\ IF m[2] = "result" THEN Failed(c, "failed", FALSE) ELSE Goto(c, "finish")
    /\ UNCHANGED <<vaultVars, row, box, r2, runVars, rest>>
    /\ Fault

(* A file cannot be read, checked or stored: the manifest row is failed,   *)
(* collect turns to finishFailure, finishFailure throws.                   *)
GatherFails(c) ==
    LET m == <<call[c].at, call[c].kind>> IN
    /\ call[c].pc = "store"
    /\ manifest' = [manifest EXCEPT ![m] = IF @ = "pending" THEN "failed" ELSE @]
    /\ IF m[2] = "result" THEN Failed(c, "failed", FALSE) ELSE Return(c)
    /\ Fault
    /\ UNCHANGED <<vaultVars, row, box, r2, runVars, rest>>

-----------------------------------------------------------------------------
(* finish and the cleanup by the call.                                     *)

(* Mutant: the end is written without a look at the state.                 *)
FinishUnguarded(c) ==
    LET a == call[c].at IN
    /\ call[c].pc = "finish"
    /\ SetRow(a, [row[a] EXCEPT !.state = call[c].end, !.manifest = call[c].kind])
    /\ after' = after \ {a} /\ late' = late \ {a}
    /\ Goto(c, IF call[c].keep /\ Retention THEN "hold" ELSE "destroy")
    /\ UNCHANGED <<vaultVars, box, evidenceVars, issued, visit, cron, operator, faults>>

(* finish: compare-and-set on collecting; the loser throws.                *)
Finish(c) ==
    LET a == call[c].at IN
    /\ call[c].pc = "finish"
    /\ IF row[a].state = "collecting"
       THEN /\ SetRow(a, [row[a] EXCEPT !.state = call[c].end, !.manifest = call[c].kind])
            /\ after' = after \ {a} /\ late' = late \ {a}
            /\ Goto(c, IF call[c].keep /\ Retention THEN "hold" ELSE "destroy")
       ELSE Return(c) /\ UNCHANGED <<row, after, late>>
    /\ UNCHANGED <<vaultVars, box, evidenceVars, issued, visit, cron, operator, faults>>

(* Mutant: the hold is written into the cleanup state.                     *)
HoldInCleanup(c) ==
    LET a == call[c].at IN
    /\ call[c].pc = "hold"
    /\ SetRow(a, [row[a] EXCEPT !.cleanup = "held"])
    /\ Return(c)
    /\ UNCHANGED <<vaultVars, box, evidenceVars, runVars, others>>

(* markCleanupHold: compare-and-set on cleanup_state = pending.            *)
Hold(c) ==
    LET a == call[c].at IN
    /\ call[c].pc = "hold"
    /\ row' = [row EXCEPT ![a].hold = IF row[a].cleanup = "pending" THEN "held" ELSE @]
    /\ Return(c)
    /\ UNCHANGED <<vaultVars, box, evidenceVars, runVars, others>>

Destroy(c) ==
    LET a == call[c].at IN
    /\ call[c].pc = "destroy"
    /\ SetBox(a, NoBox)
    /\ Goto(c, "destroyed")
    /\ UNCHANGED <<vaultVars, row, evidenceVars, runVars, others>>

DestroyFails(c) ==
    LET a == call[c].at IN
    /\ call[c].pc = "destroy"
    /\ SetRow(a, [row[a] EXCEPT !.cleanup = "failed"])
    /\ Return(c)
    /\ Fault
    /\ UNCHANGED <<vaultVars, box, evidenceVars, runVars, rest>>

MarkDestroyed(c) ==
    LET a == call[c].at IN
    /\ call[c].pc = "destroyed"
    /\ SetRow(a, [row[a] EXCEPT !.cleanup = "destroyed"])
    /\ Return(c)
    /\ UNCHANGED <<vaultVars, box, evidenceVars, runVars, others>>

-----------------------------------------------------------------------------
(* CleanupAuditor.scheduled and handleDestroy.                             *)

HasManifest(a) == \E m \in Kinds : row[a].manifest = m /\ manifest[a, m] = "complete"

(* Mutant: a sandbox whose destruction failed is not tried again.          *)
SweepableOnce == {a \in Ended : row[a].cleanup = "pending" /\ row[a].hold # "held"}

Sweepable == {a \in Ended : row[a].cleanup # "destroyed" /\ row[a].hold # "held"}

(* terminalPendingCleanup: a list read once, worked off sandbox by sandbox.*)
CronList ==
    /\ cron.todo = {} /\ Sweepable # {}
    /\ cron' = [cron EXCEPT !.todo = Sweepable]
    /\ UNCHANGED <<vaultVars, row, box, evidenceVars, call, runVars, operator, late, faults>>

CronDestroy ==
    /\ cron.at = 0 /\ cron.todo # {}
    /\ SetBox(Min(cron.todo), NoBox)
    /\ cron' = [cron EXCEPT !.at = Min(cron.todo)]
    /\ UNCHANGED <<vaultVars, row, evidenceVars, call, runVars, operator, late, faults>>

CronDestroyFails ==
    LET a == Min(cron.todo) IN
    /\ cron.at = 0 /\ cron.todo # {}
    /\ SetRow(a, [row[a] EXCEPT !.cleanup = "failed", !.hold = "none"])
    /\ cron' = [cron EXCEPT !.todo = @ \ {a}]
    /\ Fault
    /\ UNCHANGED <<vaultVars, box, evidenceVars, call, runVars, operator, late>>

CronMark ==
    LET a == cron.at IN
    /\ a # 0
    /\ SetRow(a, [row[a] EXCEPT !.cleanup = "destroyed", !.hold = "none"])
    /\ cron' = [todo |-> cron.todo \ {a}, at |-> 0]
    /\ UNCHANGED <<vaultVars, box, evidenceVars, call, runVars, operator, late, faults>>

(* handleDestroy reads the row and finds no process of it running: an      *)
(* attempt in collection, or an ended one whose hold is to be released.    *)
OperatorAsks ==
    /\ Operator /\ operator.pc = "idle"
    /\ \E a \in Attempts :
          /\ row[a].cleanup # "destroyed"
          /\ row[a].state \in {"collecting", "failed", "interrupted", "absolute_timeout"}
          /\ ~(row[a].process /\ box[a].proc = "running")
          /\ operator' = [pc |-> "claim", at |-> a, seen |-> row[a]]
    /\ UNCHANGED <<vaultVars, row, box, evidenceVars, call, runVars, cron, late, faults>>

(* claimAttemptCleanup: compare-and-set on updated_at; an attempt still in *)
(* collection ends without a manifest, a hold is only released when the    *)
(* recorded manifest is complete.                                          *)
OperatorClaim ==
    LET a == operator.at
        collecting == operator.seen.state = "collecting" IN
    /\ operator.pc = "claim"
    /\ IF row[a] = operator.seen /\ (collecting \/ HasManifest(a))
       THEN /\ operator' = [operator EXCEPT !.pc = "destroy", !.seen = NoRow]
            /\ SetRow(a, [row[a] EXCEPT !.state = IF collecting THEN "interrupted" ELSE @,
                                        !.operator = @ \/ collecting])
            /\ after' = IF collecting THEN after \ {a} ELSE after
            /\ late' = late \ {a}
       ELSE operator' = NoRequest /\ UNCHANGED <<row, after, late>>
    /\ UNCHANGED <<vaultVars, box, evidenceVars, call, issued, visit, cron, faults>>

OperatorDestroy ==
    /\ operator.pc = "destroy"
    /\ SetBox(operator.at, NoBox)
    /\ operator' = [operator EXCEPT !.pc = "mark"]
    /\ UNCHANGED <<vaultVars, row, evidenceVars, call, runVars, cron, late, faults>>

OperatorMark ==
    LET Mark(cleanup) == SetRow(operator.at, [row[operator.at] EXCEPT !.cleanup = cleanup,
                                                                      !.hold = "none"]) IN
    /\ \/ operator.pc = "mark" /\ Mark("destroyed") /\ NoFault
       \/ operator.pc = "destroy" /\ Mark("failed") /\ Fault
    /\ operator' = NoRequest
    /\ UNCHANGED <<vaultVars, box, evidenceVars, call, runVars, cron, late>>

-----------------------------------------------------------------------------
(* The agent, the clock, the platform and the run.                         *)

(* The agent may refresh its copy of the login before it exits.            *)
AgentExits(a) ==
    /\ box[a].proc = "running"
    /\ \/ SetBox(a, [box[a] EXCEPT !.proc = "error"])
       \/ \E holds \in {box[a].holds, box[a].holds \cup {a}} :
             SetBox(a, [box[a] EXCEPT !.proc = "ok",
                                      !.holds = IF box[a].auth THEN holds ELSE {}])
    /\ UNCHANGED <<vaultVars, row, evidenceVars, call, runVars, others>>

(* An attempt of another run stores a refresh of its own.                  *)
OthersRefresh ==
    /\ Replace(object.etag, object.holds \cup {Other})
    /\ Other \notin object.holds
    /\ UNCHANGED <<row, box, evidenceVars, call, runVars, others>>

DeadlinePasses(a) ==
    /\ row[a].state \in Live \ {"pending"} /\ a \notin late
    /\ late' = late \cup {a}
    /\ UNCHANGED <<vaultVars, row, box, evidenceVars, call, runVars, cron, operator, faults>>

HoldExpires(a) ==
    /\ row[a].hold = "held"
    /\ SetRow(a, [row[a] EXCEPT !.hold = "over"])
    /\ UNCHANGED <<vaultVars, box, evidenceVars, call, runVars, others>>

(* The outcome of the last attempt moved the run on, and a later visit     *)
(* brings it back to the stage.                                            *)
Revisit ==
    /\ \E a \in Ended : LatestIs(a) /\ row[a].visit = visit
    /\ visit < MaxVisits
    /\ \E c \in Calls : call[c].pc = "idle"
    /\ Overlap \/ \A c \in Calls : call[c].pc = "idle"
    /\ visit' = visit + 1
    /\ after' = Ended
    /\ UNCHANGED <<vaultVars, row, box, evidenceVars, call, issued, others>>

ContainerLost(a) ==
    /\ box[a].up
    /\ SetBox(a, NoBox)
    /\ Fault
    /\ UNCHANGED <<vaultVars, row, evidenceVars, call, runVars, cron, operator, late>>

(* The isolate is lost, or an await throws out of execute.                 *)
CallLost(c) ==
    /\ call[c].pc # "idle"
    /\ Return(c)
    /\ Fault
    /\ UNCHANGED <<vaultVars, row, box, evidenceVars, runVars, cron, operator, late>>

CronLost ==
    /\ cron.todo # {}
    /\ cron' = [todo |-> {}, at |-> 0]
    /\ Fault
    /\ UNCHANGED <<vaultVars, row, box, evidenceVars, call, runVars, operator, late>>

-----------------------------------------------------------------------------
(* The specification.                                                      *)

CallStep(c) ==
    \/ Begin(c) \/ Read(c) \/ Create(c) \/ ReadBack(c) \/ Claim(c)
    \/ AcquireLogin(c) \/ WriteLogin(c) \/ Exec(c) \/ MarkStarted(c) \/ StartFails(c)
    \/ Observe(c) \/ Touch(c)
    \/ Collect(c) \/ Resume(c) \/ Put(c) \/ PutFails(c) \/ Record(c)
    \/ ReleaseLogin(c) \/ DeleteLogin(c) \/ Accept(c)
    \/ Stop(c) \/ Scrub(c) \/ Drop(c) \/ ToCollecting(c)
    \/ Gather(c) \/ Stored(c) \/ Unverified(c) \/ GatherFails(c)
    \/ Finish(c) \/ Hold(c) \/ Destroy(c) \/ DestroyFails(c) \/ MarkDestroyed(c)

CronStep == CronList \/ CronDestroy \/ CronDestroyFails \/ CronMark
OperatorStep == OperatorAsks \/ OperatorClaim \/ OperatorDestroy \/ OperatorMark
Happens(a) == DeadlinePasses(a) \/ HoldExpires(a) \/ ContainerLost(a)

Next == \/ \E c \in Calls : CallStep(c) \/ CallLost(c)
        \/ CronStep \/ CronLost \/ OperatorStep
        \/ \E a \in Attempts : AgentExits(a) \/ Happens(a)
        \/ OthersRefresh \/ Revisit

Spec == Init /\ [][Next]_vars

FairSpec == /\ Spec
            /\ \A c \in Calls : WF_vars(CallStep(c))
            /\ WF_vars(CronStep)
            /\ \A a \in Attempts : WF_vars(DeadlinePasses(a)) /\ WF_vars(HoldExpires(a))

-----------------------------------------------------------------------------
(* Safety, with overlapping calls.                                         *)

(* Before a sandbox is recorded as destroyed, a manifest of its outputs is *)
(* in R2, whichever call, scan or retry destroyed it; only an operator who *)
(* ends an attempt during collection gives its outputs up.                 *)
EvidenceBeforeDestroy == \A a \in Attempts :
    row[a].cleanup = "destroyed" /\ ~row[a].operator => <<a, row[a].manifest>> \in r2

(* An attempt whose result was accepted has left no login in its sandbox   *)
(* and no checkout row, although a second call may still be collecting it. *)
AcceptedLeavesNoLogin == \A a \in Attempts :
    row[a].state \in {"completed", "blocked"} => lease[a] = NoTag /\ ~box[a].auth

(* An attempt with a recorded process does not end while it runs: stale    *)
(* snapshots of a call never let an agent go on working after its end.     *)
EndedMeansStopped == \A a \in Attempts :
    row[a].process /\ row[a].state \in Ends => box[a].proc # "running"

(* Of all that race to end an attempt one wins; the end and its manifest   *)
(* are never rewritten.                                                    *)
EndStands == [][\A a \in Ended :
    row'[a].state = row[a].state /\ row'[a].manifest = row[a].manifest]_vars

-----------------------------------------------------------------------------
(* Without overlapping calls.                                              *)

(* A call that is lost and repeated does not start the visit's work again. *)
OneAttemptPerVisit == \A a, b \in Rows : a # b => row[a].visit # row[b].visit

(* The manifest an ended attempt names is complete in D1 as well, whatever *)
(* collection failed before it.                                            *)
CompleteManifest == \A a \in Ended : row[a].operator \/ HasManifest(a)

(* Every attempt ends and its sandbox is destroyed, although a call, a scan*)
(* or a container may be lost and a destruction may fail.                  *)
EveryAttemptIsCleaned == \A a \in Attempts :
    row[a].state # "none" ~> row[a].state \in Ends /\ row[a].cleanup = "destroyed"

=============================================================================
