--------------------------- MODULE HumanGateProofs ---------------------------
(***************************************************************************)
(* What HumanGate.tla promises of a run at its human gates, proved for any  *)
(* set of outsiders and every bound on visits, moves and faults.            *)
(***************************************************************************)
EXTENDS HumanGate, TLAPS

\* Events are stored, and wakes sent, only for moves that were made.
EventsAreMoves ==
  /\ \A e \in Delivery : inbox[e] # "absent" => e \in DOMAIN moves
  /\ \A e \in signals : inbox[e] # "absent"

\* The ledger holds a row for every visit before the run's, and no other.
LedgerIsBehind == \A v \in Visit : ledger[v] = NoTransition <=> v >= run.visit

\* Where the program works on an operation, on the gate, and on an event.
OpPc == {"op_find", "op_read", "op_begin", "op_move", "op_failed", "op_ambiguous",
         "op_wait", "op_claim", "op_observe", "op_mark"}
GatePc == OpPc \cup {"confirm", "wait", "claim", "decide", "finish"}
EventPc == {"op_claim", "op_observe", "op_mark", "claim", "decide", "choice", "mark",
            "mark_duplicate"}

GateFits(s) == /\ s.pc \in GatePc => s.node = "gate"
               /\ s.pc \in {"wait", "claim", "decide"} => s.status = "awaiting_human"
               /\ s.pc = "commit" => s.node # "canceled"

\* The operation is one of the gate's; a repair belongs to a move that was made.
OpFits(s) ==
  s.pc \in OpPc \cup {"confirm", "finish"} =>
    /\ s.op \in Op
    /\ s.op[1] = "repair" => s.op[2] \in DOMAIN moves
    /\ s.pc = "finish" => s.op[1] = "repair"

EventFits(s) == s.pc \in EventPc => s.e \in DOMAIN moves

\* A choice rests on an authorized move out of Human Review.
ChoiceFits(s) ==
  (s.pc = "commit" /\ s.node = "gate") =>
    /\ s.e \in DOMAIN moves /\ s.status = "awaiting_human"
    /\ moves[s.e].actor \in {"user", "review"} /\ moves[s.e].from = "review"
    /\ Decision(moves[s.e].to) # "none"

ProgramFits(s) == GateFits(s) /\ OpFits(s) /\ EventFits(s) /\ ChoiceFits(s)

\* The program is about to leave the gate for the event it has read.
Choosing == wf.pc = "commit" /\ wf.node = "gate"

\* A node's completion is committed for the visit it was loaded at, or was.
WorkIsCurrent ==
  (wf.pc = "commit" /\ wf.node # "gate") => Current \/ ledger[wf.visit] = Row

\* An event that made a choice cannot be claimed again, and the gate it decided
\* is closed.
ChoiceIsSpent ==
  \A v \in Visit : ledger[v].from = "gate" =>
    /\ ledger[v].cause \in DOMAIN moves
    /\ inbox[ledger[v].cause] \notin {"absent", "sent"}
    /\ gates[v].state = "decided"

\* The event the program decides on has made no other choice.
ChoiceIsNew ==
  wf.pc = "decide" \/ Choosing =>
    /\ inbox[wf.e] \notin {"absent", "sent"}
    /\ \A v \in Visit : (ledger[v].from = "gate" /\ ledger[v].cause = wf.e)
                          => v = wf.visit /\ wf.pc = "commit"

\* The call to Linear is made at most once under an operation, and what the
\* program has observed of an operation is what is stored.
OpIsOnce == wf.pc = "op_move" => ops[wf.op].moved = 0
OpIsObserved == wf.pc = "op_mark" => wf.observed = ops[wf.op].state

\* The program stays with a repair until its operation is settled.
RepairInProgress ==
  \A e \in Delivery : ops[<<"repair", e>>].state = "pending" =>
    wf.pc = "errored" \/ (wf.pc \in OpPc /\ wf.op = <<"repair", e>>)

\* What the program's own record needs of the store.
Base == TypeOK /\ EventsAreMoves /\ LedgerIsBehind /\ ProgramFits(wf) /\ WorkIsCurrent

IInv == /\ Base
        /\ ChoiceIsSpent /\ ChoiceIsNew
        /\ OpIsOnce /\ OpIsObserved /\ RepairInProgress
        /\ DecidedByPerson /\ OneMovePerOperation
-----------------------------------------------------------------------------
(* The issue's moves are only added to.                                     *)

LEMMA ConstantFacts ==
  /\ MaxVisit \in Nat \ {0} /\ MaxMove \in Nat \ {0}
  /\ MaxOutside \in Nat /\ MaxFault \in Nat
  /\ Outsider \subseteq {"user", "stranger", "bot", "review"}
BY Bounds, OutsiderIsKnown

LEMMA MovesAreDeliveries ==
  ASSUME TypeOK
  PROVE  /\ DOMAIN moves = 1 .. Len(moves) /\ DOMAIN moves \subseteq Delivery
         /\ Len(moves) \in 0 .. MaxMove
         /\ \A e \in DOMAIN moves : moves[e] \in Move
BY ConstantFacts DEF TypeOK, Delivery

LEMMA IssueTyped ==
  ASSUME TypeOK PROVE Issue \in LinearState
<1>1. CASE moves = <<>>
  BY <1>1 DEF Issue, LinearState
<1>2. CASE moves # <<>>
  <2>1. Len(moves) \in DOMAIN moves
    BY <1>2 DEF TypeOK
  <2>2. moves[Len(moves)] \in Move
    BY <2>1, MovesAreDeliveries
  <2> QED BY <1>2, <2>2 DEF Issue, Move
<1> QED BY <1>1, <1>2

\* A move that was made stays as it was.
Kept == /\ DOMAIN moves \subseteq DOMAIN moves'
        /\ \A e \in DOMAIN moves : moves'[e] = moves[e]

LEMMA MovedToTyped ==
  ASSUME TypeOK, NEW a \in {"app", "user", "stranger", "bot", "review"},
         NEW s \in LinearState, Len(moves) < MaxMove, moves' = MovedTo(a, s)
  PROVE  moves' \in Seq(Move) /\ Len(moves') <= MaxMove /\ Kept
<1> DEFINE m == [actor |-> a, from |-> Issue, to |-> s]
<1>1. m \in Move /\ moves \in Seq(Move) /\ MaxMove \in Nat
  BY IssueTyped, ConstantFacts DEF Move, TypeOK
<1>2. CASE Issue = s
  BY <1>1, <1>2 DEF MovedTo, Kept
<1>3. CASE Issue # s
  <2>1. moves' = Append(moves, m)
    BY <1>3 DEF MovedTo
  <2> HIDE DEF m
  <2> QED BY <1>1, <2>1 DEF Kept
<1> QED BY <1>2, <1>3

LEMMA MovesGrow ==
  ASSUME TypeOK, [Next]_vars
  PROVE  moves' \in Seq(Move) /\ Len(moves') <= MaxMove /\ Kept
<1> DEFINE Goal == moves' \in Seq(Move) /\ Len(moves') <= MaxMove /\ Kept
<1>1. moves' = moves => Goal
  BY DEF TypeOK, Kept
<1>2. CASE OpMove
  <2>1. moves' = MovedTo("app", "review") \/ moves' = moves
    BY <1>2 DEF OpMove
  <2>2. Len(moves) < MaxMove
    BY <1>2 DEF OpMove
  <2> QED BY <1>1, <2>1, <2>2, MovedToTyped DEF LinearState
<1>3. ASSUME NEW a \in Outsider, NEW s \in LinearState, OutsideMove(a, s) PROVE Goal
  BY <1>3, MovedToTyped, ConstantFacts DEF OutsideMove
<1>4. CASE Program /\ ~OpMove
  BY <1>1, <1>4 DEF Program, Load, Commit, OpFind, OpRead, OpBegin, OpReconcile, OpFailed,
     OpAmbiguous, OpSettle, OpClaim, OpObserve, OpMark, Confirm, Claim, Decide,
     CompleteChoice, Mark, Finish, linear
<1>5. CASE (\E e \in Delivery : Deliver(e) \/ LoseSignal(e) \/ Resend(e) \/ TakeSignal(e))
           \/ Restart \/ TimeOut \/ UNCHANGED vars
  BY <1>1, <1>5 DEF Deliver, LoseSignal, Resend, TakeSignal, Restart, TimeOut, linear, vars
<1> QED BY <1>2, <1>3, <1>4, <1>5 DEF Next, Environment
-----------------------------------------------------------------------------
(* The program's record.                                                    *)

LEMMA OpsAre ==
  \A o \in Op :
    \/ o[1] = "enter" /\ o[2] \in Visit /\ o = <<"enter", o[2]>>
    \/ o[1] = "repair" /\ o[2] \in Delivery /\ o = <<"repair", o[2]>>
<1> TAKE o \in Op
<1>1. ASSUME NEW v \in Visit, o = <<"enter", v>> PROVE o[1] = "enter" /\ o[2] = v
  BY <1>1
<1>2. ASSUME NEW e \in Delivery, o = <<"repair", e>> PROVE o[1] = "repair" /\ o[2] = e
  BY <1>2
<1>3. (\E v \in Visit : o = <<"enter", v>>) \/ (\E e \in Delivery : o = <<"repair", e>>)
  BY DEF Op
<1> QED BY <1>1, <1>2, <1>3

LEMMA RecordTyped == TypeOK => wf \in ProgramState /\ StepStart(wf.pc) \in Pc
BY DEF TypeOK, ProgramState, StepStart, Pc

\* GoTo keeps everything but the place.
LEMMA GoToIs ==
  ASSUME TypeOK, NEW pc \in Pc
  PROVE  /\ GoTo(pc) \in ProgramState
         /\ GoTo(pc).pc = pc /\ GoTo(pc).node = wf.node /\ GoTo(pc).visit = wf.visit
         /\ GoTo(pc).status = wf.status /\ GoTo(pc).op = wf.op /\ GoTo(pc).pre = wf.pre
         /\ GoTo(pc).e = wf.e /\ GoTo(pc).observed = wf.observed
BY DEF TypeOK, ProgramState, GoTo

LEMMA ErrorIs ==
  ASSUME TypeOK, NEW c \in {"none", "manual", "status", "choice", "conflict"}
  PROVE  Error(c) \in ProgramState /\ Error(c).pc = "errored"
BY DEF TypeOK, ProgramState, Error, Pc

LEMMA ErrorFits ==
  ASSUME TypeOK, NEW c \in {"none", "manual", "status", "choice", "conflict"}
  PROVE  ProgramFits(Error(c))
BY ErrorIs DEF ProgramFits, GateFits, OpFits, EventFits, ChoiceFits, GatePc, OpPc, EventPc

\* A step that runs again finds what it found before.
LEMMA RedoFits ==
  ASSUME Base PROVE ProgramFits(GoTo(StepStart(wf.pc)))
<1>1. TypeOK /\ ProgramFits(wf) /\ StepStart(wf.pc) \in Pc
  BY RecordTyped DEF Base
<1>2. CASE wf.pc \in {"op_read", "op_begin", "op_move", "op_failed", "op_ambiguous"}
  <2>1. StepStart(wf.pc) = "op_find"
    BY <1>2 DEF StepStart
  <2> QED
    BY <1>1, <1>2, <2>1, GoToIs
       DEF ProgramFits, GateFits, OpFits, EventFits, ChoiceFits, GatePc, OpPc, EventPc
<1>3. CASE wf.pc \notin {"op_read", "op_begin", "op_move", "op_failed", "op_ambiguous"}
  <2>1. StepStart(wf.pc) = wf.pc
    BY <1>3 DEF StepStart
  <2> QED
    BY <1>1, <2>1, GoToIs DEF ProgramFits, GateFits, OpFits, EventFits, ChoiceFits
<1> QED BY <1>2, <1>3

Fits(s) == s \in ProgramState /\ ProgramFits(s)

\* So a step need only see to the place it goes to.
LEMMA RecordsFits ==
  ASSUME Base, NEW next, Fits(next), Records(next)
  PROVE  Fits(wf') /\ faults' \in 0 .. MaxFault
<1>1. TypeOK /\ faults \in 0 .. MaxFault /\ MaxFault \in Nat
  BY ConstantFacts DEF Base, TypeOK
<1>2. CASE wf' = next /\ faults' = faults
  BY <1>1, <1>2
<1>3. CASE faults < MaxFault /\ faults' = faults + 1 /\ wf' = GoTo(StepStart(wf.pc))
  BY <1>1, <1>3, RedoFits, RecordTyped, GoToIs DEF Fits
<1> QED BY <1>2, <1>3 DEF Records

\* From the operation's places the program goes to those of the operation.
LEMMA OpGoes ==
  ASSUME Base, wf.pc \in OpPc \cup {"confirm"}, NEW pc \in OpPc \cup {"confirm", "load"},
         pc \in EventPc => wf.pc \in EventPc
  PROVE  Fits(GoTo(pc))
<1>1. TypeOK /\ ProgramFits(wf) /\ pc \in Pc
  BY DEF Base, OpPc, Pc
<1> QED
  BY <1>1, GoToIs
     DEF Fits, ProgramFits, GateFits, OpFits, EventFits, ChoiceFits, GatePc, OpPc, EventPc

LEMMA FinishFits ==
  ASSUME Base, wf.pc \in OpPc, ~Entering PROVE Fits(GoTo("finish"))
<1>1. TypeOK /\ ProgramFits(wf)
  BY DEF Base
<1>2. wf.op[1] = "repair"
  BY <1>1, OpsAre DEF Entering, ProgramFits, OpFits
<1> QED
  BY <1>1, <1>2, GoToIs
     DEF Fits, ProgramFits, GateFits, OpFits, EventFits, ChoiceFits, GatePc, OpPc, EventPc, Pc

\* What follows an operation, and what follows an event that did not settle it.
LEMMA AfterOpFits ==
  ASSUME Base, wf.pc \in OpPc, NEW o \in OpState PROVE Fits(AfterOp(o))
<1>1. TypeOK
  BY DEF Base
<1>2. CASE Manual(o)
  BY <1>1, <1>2, ErrorIs, ErrorFits DEF AfterOp, Fits, Manual, Confirmed
<1>3. CASE Confirmed(o) /\ Entering
  <2>1. AfterOp(o) = GoTo("confirm")
    BY <1>3 DEF AfterOp, Confirmed, Manual
  <2>2. Fits(GoTo("confirm"))
    BY OpGoes DEF EventPc, OpPc
  <2> QED BY <2>1, <2>2
<1>4. CASE Confirmed(o) /\ ~Entering
  BY <1>4, FinishFits DEF AfterOp, Confirmed, Manual
<1>5. CASE ~Manual(o) /\ ~Confirmed(o)
  BY <1>5, OpGoes DEF AfterOp, EventPc, OpPc
<1> QED BY <1>2, <1>3, <1>4, <1>5

LEMMA NotYetFits ==
  ASSUME Base, wf.pc \in OpPc PROVE Fits(NotYet)
BY OpGoes DEF NotYet, EventPc, OpPc
-----------------------------------------------------------------------------
(* Every step leaves the program's record fit.                              *)

LEMMA LoadFits ==
  ASSUME Base, Load PROVE Fits(wf')
<1>1. TypeOK /\ run \in RunRow /\ wf \in ProgramState
  BY DEF Base, TypeOK
<1>2. PICK s : s = wf'
  OBVIOUS
<1>3. s \in ProgramState
  <2>1. Loaded \in Pc
    BY DEF Loaded, Pc
  <2>2. run.node = "gate" => <<"enter", run.visit>> \in Op
    BY <1>1 DEF RunRow, Op
  <2>3. "absent" \in OpState
    BY DEF OpState
  <2> QED BY <1>1, <1>2, <2>1, <2>2, <2>3 DEF Load, ProgramState, RunRow
<1>4. /\ s.pc = Loaded /\ s.node = run.node /\ s.status = run.status
      /\ s.op = IF run.node = "gate" THEN <<"enter", run.visit>> ELSE NoOp
  BY <1>1, <1>2 DEF Load, ProgramState
<1>5. CASE run.node = "gate"
  <2>1. s.pc = IF run.status = "awaiting_human" THEN "wait" ELSE "op_find"
    BY <1>4, <1>5 DEF Loaded
  <2>2. s.op \in Op /\ s.op[1] = "enter"
    BY <1>1, <1>4, <1>5 DEF Op, RunRow
  <2> QED
    BY <1>2, <1>3, <1>4, <1>5, <2>1, <2>2
       DEF Fits, ProgramFits, GateFits, OpFits, EventFits, ChoiceFits, GatePc, OpPc, EventPc
<1>6. CASE run.node # "gate"
  <2>1. s.pc = "ended" \/ (s.pc = "commit" /\ run.node # "canceled")
    BY <1>1, <1>4, <1>6 DEF Loaded, RunRow, Node
  <2> QED
    BY <1>2, <1>3, <1>4, <1>6, <2>1
       DEF Fits, ProgramFits, GateFits, OpFits, EventFits, ChoiceFits, GatePc, OpPc, EventPc
<1> QED BY <1>5, <1>6

\* A commit finds its own row in the ledger or, at a gate, perhaps none.
LEMMA CommitFinds ==
  ASSUME Base, Commit
  PROVE  /\ Current => ledger'[wf.visit] = Row
         /\ ~Current => ledger' = ledger
         /\ Row # NoTransition
         /\ wf.node # "gate" => ledger'[wf.visit] = Row
<1>1. wf \in ProgramState /\ ledger \in [Visit -> LedgerRow \cup {NoTransition}]
  BY DEF Base, TypeOK
<1>2. Current => ledger'[wf.visit] = Row
  BY <1>1 DEF Commit, Left, ProgramState
<1>3. ~Current => ledger' = ledger
  BY DEF Commit
<1>4. Row # NoTransition
  BY <1>1 DEF Row, NoTransition, ProgramState, Node
<1>5. wf.node # "gate" => ledger'[wf.visit] = Row
  BY <1>2, <1>3 DEF Base, WorkIsCurrent, Commit, At
<1> QED BY <1>2, <1>3, <1>4, <1>5

LEMMA CommittedIs ==
  ASSUME Base, Commit
  PROVE  \/ Committed = GoTo("load")
         \/ wf.node = "gate" /\ \E pc \in {"choice", "mark", "mark_duplicate"} : Committed = GoTo(pc)
         \/ Committed = Error("conflict")
<1>1. CASE ledger'[wf.visit] = Row
  <2>1. Committed = GoTo(AfterRow)
    BY <1>1, CommitFinds DEF Committed
  <2>2. AfterRow = "load" \/ (wf.node = "gate" /\ AfterRow \in {"choice", "mark"})
    BY DEF AfterRow
  <2> QED BY <2>1, <2>2
<1>2. CASE ledger'[wf.visit] = NoTransition
  <2>1. Committed = GoTo("mark_duplicate") /\ wf.node = "gate"
    BY <1>2, CommitFinds DEF Committed
  <2> QED BY <2>1
<1>3. CASE ledger'[wf.visit] \notin {Row, NoTransition}
  BY <1>3 DEF Committed
<1> QED BY <1>1, <1>2, <1>3

LEMMA CommitFits ==
  ASSUME Base, Commit PROVE Fits(wf') /\ faults' \in 0 .. MaxFault
<1>1. TypeOK /\ ProgramFits(wf) /\ wf.pc = "commit"
  BY DEF Base, Commit, At
<1>2. \A pc \in {"choice", "mark", "mark_duplicate"} : wf.node = "gate" => Fits(GoTo(pc))
  BY <1>1, GoToIs
     DEF Fits, ProgramFits, GateFits, OpFits, EventFits, ChoiceFits, GatePc, OpPc, EventPc, Pc
<1>3. Fits(GoTo("load"))
  BY <1>1, GoToIs
     DEF Fits, ProgramFits, GateFits, OpFits, EventFits, ChoiceFits, GatePc, OpPc, EventPc, Pc
<1>4. Fits(Error("conflict"))
  BY <1>1, ErrorIs, ErrorFits DEF Fits
<1>5. Fits(Committed)
  BY <1>2, <1>3, <1>4, CommittedIs
<1>6. Records(Committed)
  BY DEF Commit
<1> QED BY <1>5, <1>6, RecordsFits

LEMMA OpStepFits ==
  ASSUME Base, OpFind \/ OpRead \/ OpBegin \/ OpReconcile \/ OpMove \/ OpFailed \/ OpAmbiguous
               \/ OpClaim
  PROVE  Fits(wf') /\ faults' \in 0 .. MaxFault
<1>1. TypeOK /\ ProgramFits(wf) /\ wf \in ProgramState /\ faults \in 0 .. MaxFault
  BY DEF Base, TypeOK
<1>2. \A pc \in {"op_read", "op_begin", "op_move", "op_failed", "op_ambiguous"} :
        wf.pc \in OpPc => Fits(GoTo(pc))
  BY OpGoes DEF EventPc, OpPc
<1>3. \A p \in LinearState : wf.pc \in OpPc => Fits([GoTo("op_begin") EXCEPT !.pre = p])
  <2> TAKE p \in LinearState
  <2> DEFINE g == GoTo("op_begin")
             h == [g EXCEPT !.pre = p]
  <2>1. g \in ProgramState
    BY <1>1, GoToIs DEF Pc
  <2>2. /\ h \in ProgramState /\ h.pc = g.pc /\ h.node = g.node /\ h.status = g.status
        /\ h.op = g.op /\ h.e = g.e
    BY <2>1 DEF ProgramState
  <2> HIDE DEF h, g
  <2>3. wf.pc \in OpPc => Fits(g)
    BY <1>2 DEF g
  <2>4. wf.pc \in OpPc => Fits(h)
    BY <2>2, <2>3 DEF Fits, ProgramFits, GateFits, OpFits, EventFits, ChoiceFits
  <2> QED BY <2>4 DEF h, g
<1>4. CASE OpFind
  <2>1. wf.pc \in OpPc /\ wf.op \in Op /\ faults' = faults
    BY <1>1, <1>4 DEF OpFind, At, OpPc, ProgramFits, OpFits
  <2>2. ops[wf.op].state \in OpState
    BY <1>1, <2>1 DEF TypeOK, Operation
  <2>3. ~Entering => wf.op[2] \in DOMAIN moves /\ moves[wf.op[2]] \in Move
    BY <1>1, <2>1, OpsAre, MovesAreDeliveries DEF Entering, ProgramFits, OpFits
  <2>4. ~Entering => moves[wf.op[2]].to \in LinearState
    BY <2>3 DEF Move
  <2> QED BY <1>1, <1>2, <1>3, <1>4, <2>1, <2>2, <2>4, AfterOpFits DEF OpFind, Found
<1>5. CASE OpRead \/ OpBegin
  <2>1. wf.pc \in OpPc /\ faults' = faults
    BY <1>5 DEF OpRead, OpBegin, At, OpPc
  <2> QED BY <1>1, <1>2, <1>3, <1>5, <2>1, IssueTyped DEF OpRead, OpBegin
<1>6. CASE OpReconcile \/ OpFailed \/ OpAmbiguous
  <2>1. wf.pc \in OpPc
    BY <1>6 DEF OpReconcile, OpFailed, OpAmbiguous, At, OpPc
  <2>2. PICK o \in OpState : Records(AfterOp(o))
    BY <1>6 DEF OpReconcile, OpFailed, OpAmbiguous, OpSettle, OpState
  <2> QED BY <2>1, <2>2, AfterOpFits, RecordsFits
<1>7. CASE OpMove
  <2>1. wf.pc \in OpPc
    BY <1>7 DEF OpMove, At, OpPc
  <2>2. \/ Records(AfterOp("pending"))
        \/ /\ wf' = GoTo("op_ambiguous") \/ wf' = GoTo("op_failed")
           /\ faults' = faults
    BY <1>7 DEF OpMove
  <2>3. Fits(AfterOp("pending"))
    BY <2>1, AfterOpFits DEF OpState
  <2> QED BY <1>1, <1>2, <2>1, <2>2, <2>3, RecordsFits
<1>8. CASE OpClaim
  <2>1. wf.pc \in OpPc /\ wf.pc \in EventPc
    BY <1>8 DEF OpClaim, At, OpPc, EventPc
  <2>2. Fits(GoTo("op_observe")) /\ Fits(NotYet)
    BY <2>1, NotYetFits, OpGoes DEF OpPc
  <2> QED BY <1>8, <2>2, RecordsFits DEF OpClaim, Claimed
<1> QED BY <1>4, <1>5, <1>6, <1>7, <1>8

LEMMA ObserveFits ==
  ASSUME Base, OpObserve \/ OpMark PROVE Fits(wf') /\ faults' \in 0 .. MaxFault
<1>1. TypeOK /\ ProgramFits(wf) /\ wf \in ProgramState /\ faults \in 0 .. MaxFault
  BY DEF Base, TypeOK
<1>2. wf.pc \in OpPc /\ wf.pc \in EventPc /\ wf.op \in Op
  BY <1>1 DEF OpObserve, OpMark, At, OpPc, EventPc, ProgramFits, OpFits
<1>3. CASE OpObserve
  <2> DEFINE g == GoTo("op_mark")
             h == [g EXCEPT !.observed = Observed]
  <2>1. g \in ProgramState /\ Fits(g)
    BY <1>1, <1>2, OpGoes DEF OpPc, Fits
  <2>2. Observed \in OpState
    BY <1>1, <1>2 DEF Observed, OpState, TypeOK, Operation
  <2>3. /\ h \in ProgramState /\ h.pc = g.pc /\ h.node = g.node /\ h.status = g.status
        /\ h.op = g.op /\ h.e = g.e
    BY <2>1, <2>2 DEF ProgramState
  <2>4. Records(h)
    BY <1>3 DEF OpObserve
  <2> HIDE DEF h, g
  <2>5. Fits(h)
    BY <2>1, <2>3 DEF Fits, ProgramFits, GateFits, OpFits, EventFits, ChoiceFits
  <2> QED BY <2>4, <2>5, RecordsFits
<1>4. CASE OpMark
  <2>1. wf' \in {Error("manual"), GoTo("finish"), NotYet} /\ faults' = faults
    BY <1>4 DEF OpMark
  <2>2. wf' = GoTo("finish") => wf' = NotYet \/ wf' = Error("manual") \/ ~Entering
    BY <1>4 DEF OpMark
  <2>3. Fits(NotYet) /\ Fits(Error("manual")) /\ (~Entering => Fits(GoTo("finish")))
    BY <1>1, <1>2, NotYetFits, FinishFits, ErrorIs, ErrorFits DEF Fits
  <2> QED BY <1>1, <2>1, <2>2, <2>3
<1> QED BY <1>3, <1>4

LEMMA ConfirmFits ==
  ASSUME Base, Confirm \/ Finish PROVE Fits(wf') /\ faults' \in 0 .. MaxFault
<1>1. TypeOK /\ ProgramFits(wf) /\ wf \in ProgramState /\ faults \in 0 .. MaxFault
  BY DEF Base, TypeOK
<1>2. Fits(Error("status"))
  BY <1>1, ErrorIs, ErrorFits DEF Fits
<1>3. CASE Confirm
  <2> DEFINE g == GoTo("wait")
             h == [g EXCEPT !.status = "awaiting_human"]
  <2>1. wf.node = "gate"
    BY <1>1, <1>3 DEF Confirm, At, ProgramFits, GateFits, GatePc
  <2>2. g \in ProgramState /\ g.pc = "wait" /\ g.node = wf.node
    BY <1>1, GoToIs DEF Pc
  <2>3. h \in ProgramState /\ h.pc = "wait" /\ h.node = g.node /\ h.status = "awaiting_human"
    BY <2>2 DEF ProgramState, RunStatus
  <2>4. Records(h) \/ (wf' = Error("status") /\ faults' = faults)
    BY <1>3 DEF Confirm
  <2> HIDE DEF h, g
  <2>5. Fits(h)
    BY <2>1, <2>2, <2>3
       DEF Fits, ProgramFits, GateFits, OpFits, EventFits, ChoiceFits, GatePc, OpPc, EventPc
  <2> QED BY <1>1, <1>2, <2>4, <2>5, RecordsFits
<1>4. CASE Finish
  <2>1. Records(GoTo("load")) \/ (wf' = Error("status") /\ faults' = faults)
    BY <1>4 DEF Finish
  <2>2. Fits(GoTo("load"))
    BY <1>1, GoToIs
       DEF Fits, ProgramFits, GateFits, OpFits, EventFits, ChoiceFits, GatePc, OpPc, EventPc, Pc
  <2> QED BY <1>1, <1>2, <2>1, <2>2, RecordsFits
<1> QED BY <1>3, <1>4

LEMMA DecideFits ==
  ASSUME Base, Decide PROVE Fits(wf')
<1>1. TypeOK /\ ProgramFits(wf) /\ wf.pc = "decide"
  BY DEF Base, Decide, At
<1>2. /\ wf.node = "gate" /\ wf.status = "awaiting_human" /\ wf.e \in DOMAIN moves
      /\ wf.e \in Delivery
  BY <1>1, MovesAreDeliveries DEF ProgramFits, GateFits, EventFits, GatePc, EventPc
<1>3. Fits(GoTo("mark"))
  BY <1>1, <1>2, GoToIs
     DEF Fits, ProgramFits, GateFits, OpFits, EventFits, ChoiceFits, GatePc, OpPc, EventPc, Pc
<1>4. ASSUME Authorized, Target # "none", moves[wf.e].from = "review"
      PROVE  Fits(GoTo("commit"))
  <2>1. moves[wf.e].actor \in {"user", "review"} /\ Decision(moves[wf.e].to) # "none"
    BY <1>2, <1>4 DEF Authorized, Target
  <2> QED
    BY <1>1, <1>2, <1>4, <2>1, GoToIs
       DEF Fits, ProgramFits, GateFits, OpFits, EventFits, ChoiceFits, GatePc, OpPc, EventPc, Pc
<1>5. Fits([GoTo("op_find") EXCEPT !.op = <<"repair", wf.e>>])
  <2> DEFINE g == GoTo("op_find")
             o == <<"repair", wf.e>>
             h == [g EXCEPT !.op = o]
  <2>1. g \in ProgramState /\ g.pc = "op_find" /\ g.node = "gate" /\ g.e = wf.e
    BY <1>1, <1>2, GoToIs DEF Pc
  <2>2. o \in Op /\ o[1] = "repair" /\ o[2] \in DOMAIN moves
    BY <1>2 DEF Op
  <2> HIDE DEF o
  <2>3. h \in ProgramState /\ h.pc = g.pc /\ h.node = g.node /\ h.op = o /\ h.e = g.e
    BY <2>1, <2>2 DEF ProgramState
  <2> HIDE DEF h, g
  <2>4. Fits(h)
    BY <2>1, <2>2, <2>3
       DEF Fits, ProgramFits, GateFits, OpFits, EventFits, ChoiceFits, GatePc, OpPc, EventPc
  <2> QED BY <2>4 DEF h, g, o
<1> QED BY <1>3, <1>4, <1>5 DEF Decide

LEMMA GateStepFits ==
  ASSUME Base, Claim \/ CompleteChoice \/ Mark
  PROVE  Fits(wf') /\ faults' \in 0 .. MaxFault
<1>1. TypeOK /\ ProgramFits(wf) /\ wf \in ProgramState /\ faults \in 0 .. MaxFault
  BY DEF Base, TypeOK
<1> USE DEF Fits, ProgramFits, GateFits, OpFits, EventFits, ChoiceFits, GatePc, OpPc, EventPc, Pc
<1>2. Fits(GoTo("load"))
  BY <1>1, GoToIs
<1>3. CASE Claim
  <2>1. Fits(GoTo("decide"))
    BY <1>1, <1>3, GoToIs DEF Claim, At
  <2>2. Records(GoTo("decide")) \/ Records(GoTo("load"))
    BY <1>3 DEF Claim, Claimed
  <2> QED BY <1>2, <2>1, <2>2, RecordsFits
<1>4. CASE CompleteChoice
  <2> DEFINE g == GoTo("mark")
             h == [g EXCEPT !.continued = TRUE]
  <2>1. g \in ProgramState /\ g.pc = "mark" /\ g.e = wf.e
    BY <1>1, GoToIs
  <2>2. h \in ProgramState /\ h.pc = g.pc /\ h.e = g.e
    BY <2>1 DEF ProgramState
  <2>3. wf' = h /\ faults' = faults
    BY <1>4 DEF CompleteChoice
  <2>4. wf.e \in DOMAIN moves
    BY <1>1, <1>4 DEF CompleteChoice, At
  <2> HIDE DEF h, g
  <2>5. Fits(h)
    BY <2>1, <2>2, <2>4
  <2> QED BY <1>1, <2>3, <2>5
<1>5. CASE Mark
  BY <1>1, <1>2, <1>5 DEF Mark
<1> QED BY <1>3, <1>4, <1>5

LEMMA WaitFits ==
  ASSUME Base, TimeOut \/ (\E e \in Delivery : TakeSignal(e)) \/ Restart
  PROVE  Fits(wf') /\ faults' \in 0 .. MaxFault
<1>1. /\ TypeOK /\ ProgramFits(wf) /\ wf \in ProgramState /\ faults \in 0 .. MaxFault
      /\ MaxFault \in Nat
  BY ConstantFacts DEF Base, TypeOK
<1>2. CASE TimeOut
  <2>1. wf.pc = "wait" => Fits(GoTo("load"))
    BY <1>1, GoToIs
       DEF Fits, ProgramFits, GateFits, OpFits, EventFits, ChoiceFits, GatePc, OpPc, EventPc, Pc
  <2>2. wf.pc = "op_wait" => Fits(NotYet)
    BY NotYetFits DEF OpPc
  <2> QED BY <1>1, <1>2, <2>1, <2>2 DEF TimeOut, At
<1>3. ASSUME NEW e \in Delivery, TakeSignal(e) PROVE Fits(wf') /\ faults' = faults
  <2>1. e \in DOMAIN moves
    BY <1>3 DEF TakeSignal, Base, EventsAreMoves
  <2>2. PICK s : s = wf'
    OBVIOUS
  <2>3. /\ s \in ProgramState /\ s.e = e /\ s.node = wf.node /\ s.op = wf.op
        /\ s.status = wf.status /\ s.pc = IF wf.pc = "wait" THEN "claim" ELSE "op_claim"
    BY <1>1, <1>3, <2>2 DEF TakeSignal, At, ProgramState, Pc
  <2>4. wf.pc \in {"wait", "op_wait"} /\ faults' = faults
    BY <1>3 DEF TakeSignal, At
  <2> QED
    BY <1>1, <2>1, <2>2, <2>3, <2>4
       DEF Fits, ProgramFits, GateFits, OpFits, EventFits, ChoiceFits, GatePc, OpPc, EventPc, Pc
<1>4. CASE Restart
  <2>1. wf' \in {Error("choice"), GoTo(StepStart(wf.pc))} /\ faults' \in 0 .. MaxFault
    BY <1>1, <1>4 DEF Restart
  <2> QED BY <1>1, <2>1, ErrorIs, ErrorFits, RedoFits, RecordTyped, GoToIs DEF Fits
<1> QED BY <1>1, <1>2, <1>3, <1>4

LEMMA NextFits ==
  ASSUME Base, [Next]_vars PROVE Fits(wf') /\ faults' \in 0 .. MaxFault
<1>1. Fits(wf) /\ faults \in 0 .. MaxFault /\ MaxFault \in Nat
  BY ConstantFacts DEF Base, Fits, TypeOK
<1>2. CASE Program
  <2>1. CASE Load \/ Decide
    BY <1>1, <2>1, LoadFits, DecideFits DEF Load, Decide
  <2> QED
    BY <1>2, <2>1, CommitFits, OpStepFits, ObserveFits, ConfirmFits, GateStepFits DEF Program
<1>3. CASE (\E a \in Outsider, s \in LinearState : OutsideMove(a, s))
           \/ (\E e \in Delivery : Deliver(e) \/ LoseSignal(e) \/ Resend(e)) \/ UNCHANGED vars
  BY <1>1, <1>3 DEF OutsideMove, Deliver, LoseSignal, Resend, vars
<1> QED BY <1>2, <1>3, WaitFits DEF Next, Environment

\* What the record says of moves stays true as moves are added.
LEMMA FitsKept ==
  ASSUME TypeOK, Kept, Fits(wf') PROVE ProgramFits(wf)'
BY DEF Kept, Fits, ProgramFits, GateFits, OpFits, EventFits, ChoiceFits, OpPc, GatePc,
   EventPc, Decision
-----------------------------------------------------------------------------
(* Types, the ledger and the events of a step.                              *)

\* The row of a commit: a decision is read from a mapped state.
LEMMA RowTyped ==
  ASSUME Base, wf.pc = "commit" PROVE Row \in LedgerRow /\ Target \in Node
<1>1. TypeOK /\ ProgramFits(wf) /\ wf \in ProgramState
  BY DEF Base, TypeOK
<1>2. Target \in Node
  <2>1. CASE wf.node = "gate"
    BY <1>1, <2>1 DEF Target, Decision, ProgramFits, ChoiceFits, Node
  <2>2. CASE wf.node # "gate"
    BY <2>2 DEF Target, Node
  <2> QED BY <2>1, <2>2
<1> QED BY <1>1, <1>2 DEF Row, LedgerRow, ProgramState

LEMMA CommitTyped ==
  ASSUME Base, Commit
  PROVE  /\ run' \in RunRow /\ ledger' \in [Visit -> LedgerRow \cup {NoTransition}]
         /\ gates' \in [Visit -> GateVisit]
<1>1. /\ TypeOK /\ wf \in ProgramState /\ run \in RunRow /\ gates \in [Visit -> GateVisit]
      /\ ledger \in [Visit -> LedgerRow \cup {NoTransition}]
  BY DEF Base, TypeOK
<1>2. Row \in LedgerRow /\ Target \in Node
  BY RowTyped DEF Commit, At
<1>3. wf.visit + 1 \in Visit
  BY <1>1, ConstantFacts DEF Commit, ProgramState, Visit
<1>4. CASE Current
  <2>1. run' \in RunRow
    BY <1>2, <1>3, <1>4 DEF Commit, RunRow, RunStatus
  <2>2. ledger' \in [Visit -> LedgerRow \cup {NoTransition}]
    BY <1>1, <1>2, <1>4 DEF Commit, Left
  <2>3. gates' \in [Visit -> GateVisit]
    <3>1. wf.e \in Delivery \cup {None} /\ wf.visit \in Visit
      BY <1>1 DEF ProgramState
    <3>2. \/ gates' = gates
          \/ gates' = [gates EXCEPT ![wf.visit].state = "decided",
                                    ![wf.visit].decision = wf.e]
      BY <1>4 DEF Commit
    <3> QED BY <1>1, <3>1, <3>2 DEF GateVisit
  <2> QED BY <2>1, <2>2, <2>3
<1>5. CASE ~Current
  BY <1>1, <1>5 DEF Commit
<1> QED BY <1>4, <1>5

LEMMA GatesTyped ==
  ASSUME Base, [Next]_vars PROVE gates' \in [Visit -> GateVisit]
<1>1. TypeOK /\ gates \in [Visit -> GateVisit]
  BY DEF Base, TypeOK
<1>2. CASE OpFind
  BY <1>1, <1>2, MovesAreDeliveries DEF OpFind, GateVisit
<1>3. CASE Commit
  BY <1>3, CommitTyped
<1>4. CASE Program /\ ~OpFind /\ ~Commit
  BY <1>1, <1>4 DEF Program, Load, OpRead, OpBegin, OpReconcile, OpMove, OpFailed, OpAmbiguous,
     OpSettle, OpClaim, OpObserve, OpMark, Confirm, Claim, Decide, CompleteChoice, Mark, Finish,
     store
<1>5. CASE TimeOut \/ (\E e \in Delivery : TakeSignal(e)) \/ Environment \/ UNCHANGED vars
  BY <1>1, <1>5 DEF TimeOut, TakeSignal, Environment, OutsideMove, Deliver, LoseSignal, Resend,
     Restart, vars, store
<1> QED BY <1>2, <1>3, <1>4, <1>5 DEF Next

LEMMA OpsTyped ==
  ASSUME Base, [Next]_vars PROVE ops' \in [Op -> Operation]
<1>1. TypeOK /\ ops \in [Op -> Operation] /\ wf \in ProgramState /\ ProgramFits(wf)
  BY DEF Base, TypeOK
<1>2. wf.pc \in OpPc => wf.op \in Op /\ ops[wf.op] \in Operation
  BY <1>1 DEF ProgramFits, OpFits
<1>3. \A s \in OpState : wf.pc \in OpPc => SetOp(s) \in [Op -> Operation]
  BY <1>1, <1>2 DEF SetOp, Operation
<1>4. CASE OpBegin
  BY <1>1, <1>2, <1>4, MovesAreDeliveries DEF OpBegin, At, OpPc, Operation, ProgramState, OpState
<1>5. CASE OpReconcile \/ OpFailed \/ OpAmbiguous
  BY <1>3, <1>5 DEF OpReconcile, OpFailed, OpAmbiguous, OpSettle, At, OpPc, OpState
<1>6. CASE OpMove
  <2>1. ops[wf.op].moved + 1 \in Nat /\ wf.op \in Op
    BY <1>2, <1>6 DEF OpMove, At, OpPc, Operation
  <2>2. PICK n \in Nat : ops' = [ops EXCEPT ![wf.op].moved = n]
    BY <1>6, <2>1 DEF OpMove
  <2> QED BY <1>1, <2>1, <2>2 DEF Operation
<1>7. CASE OpObserve
  <2>1. wf.op \in Op /\ wf.e \in Delivery \cup {None} /\ Observed \in OpState
    BY <1>1, <1>2, <1>7 DEF OpObserve, At, OpPc, ProgramState, Observed, OpState, Operation
  <2> QED BY <1>1, <1>7, <2>1 DEF OpObserve, Operation
<1>8. CASE Program /\ ~OpBegin /\ ~OpReconcile /\ ~OpFailed /\ ~OpAmbiguous /\ ~OpMove
           /\ ~OpObserve
  BY <1>1, <1>8 DEF Program, Load, Commit, OpFind, OpRead, OpClaim, OpMark, Confirm, Claim,
     Decide, CompleteChoice, Mark, Finish, store
<1>9. CASE TimeOut \/ (\E e \in Delivery : TakeSignal(e)) \/ Environment \/ UNCHANGED vars
  BY <1>1, <1>9 DEF TimeOut, TakeSignal, Environment, OutsideMove, Deliver, LoseSignal, Resend,
     Restart, vars, store
<1> QED BY <1>4, <1>5, <1>6, <1>7, <1>8, <1>9 DEF Next

\* The run moves on with a commit; otherwise only its status changes.
LEMMA RunTyped ==
  ASSUME Base, [Next]_vars
  PROVE  /\ run' \in RunRow /\ ledger' \in [Visit -> LedgerRow \cup {NoTransition}]
         /\ ~Commit => ledger' = ledger /\ run'.visit = run.visit /\ run'.node = run.node
<1>1. TypeOK /\ run \in RunRow /\ ledger \in [Visit -> LedgerRow \cup {NoTransition}]
  BY DEF Base, TypeOK
<1>2. CASE Commit
  BY <1>2, CommitTyped
<1>3. CASE Confirm \/ Finish
  BY <1>1, <1>3 DEF Confirm, Finish, RunRow, RunStatus
<1>4. CASE Program /\ ~Commit /\ ~Confirm /\ ~Finish
  BY <1>1, <1>4 DEF Program, Load, OpFind, OpRead, OpBegin, OpReconcile, OpMove, OpFailed,
     OpAmbiguous, OpSettle, OpClaim, OpObserve, OpMark, Claim, Decide, CompleteChoice, Mark,
     store
<1>5. CASE TimeOut \/ (\E e \in Delivery : TakeSignal(e)) \/ Environment \/ UNCHANGED vars
  BY <1>1, <1>5 DEF TimeOut, TakeSignal, Environment, OutsideMove, Deliver, LoseSignal, Resend,
     Restart, vars, store
<1> QED BY <1>2, <1>3, <1>4, <1>5 DEF Next

\* An event that the run has taken is not waiting to be taken again, and the
\* wakes are those of stored events.
LEMMA InboxMoves ==
  ASSUME Base, [Next]_vars
  PROVE  /\ inbox' \in [Delivery -> {"absent", "sent", "claimed", "processed", "duplicate"}]
         /\ signals' \subseteq Delivery
         /\ \A e \in Delivery : inbox[e] \notin {"absent", "sent"}
                                  => inbox'[e] \notin {"absent", "sent"}
         /\ \A e \in Delivery : inbox[e] # "absent" => inbox'[e] # "absent"
         /\ \A e \in Delivery : inbox'[e] # "absent" => e \in DOMAIN moves
         /\ \A e \in signals' : inbox'[e] # "absent"
<1>1. /\ TypeOK /\ EventsAreMoves /\ signals \subseteq Delivery
      /\ inbox \in [Delivery -> {"absent", "sent", "claimed", "processed", "duplicate"}]
  BY DEF Base, TypeOK
<1> USE <1>1 DEF EventsAreMoves
<1>2. CASE OpClaim \/ Claim
  BY <1>2 DEF OpClaim, Claim, Claimed, Claimable
<1>3. CASE OpMark \/ Mark
  BY <1>3 DEF OpMark, Mark, MarkInbox
<1>4. CASE Finish
  BY <1>4 DEF Finish, MarkInbox
<1>5. CASE Program /\ ~OpClaim /\ ~Claim /\ ~OpMark /\ ~Mark /\ ~Finish
  BY <1>5 DEF Program, Load, Commit, OpFind, OpRead, OpBegin, OpReconcile, OpMove, OpFailed,
     OpAmbiguous, OpSettle, OpObserve, Confirm, Decide, CompleteChoice, store
<1>6. ASSUME NEW e \in Delivery, Deliver(e) \/ LoseSignal(e) \/ Resend(e) \/ TakeSignal(e)
      PROVE  /\ inbox' = inbox \/ (inbox[e] = "absent" /\ e \in DOMAIN moves
                                    /\ inbox' = [inbox EXCEPT ![e] = "sent"])
             /\ signals' \subseteq signals \cup {e}
             /\ e \in signals' => inbox'[e] # "absent"
  BY <1>6 DEF Deliver, LoseSignal, Resend, Resendable, TakeSignal, store
<1>7. CASE \E e \in Delivery : Deliver(e) \/ LoseSignal(e) \/ Resend(e) \/ TakeSignal(e)
  BY <1>6, <1>7
<1>8. CASE TimeOut \/ (\E a \in Outsider, s \in LinearState : OutsideMove(a, s)) \/ Restart
           \/ UNCHANGED vars
  BY <1>8 DEF TimeOut, OutsideMove, Restart, vars, store
<1> QED BY <1>2, <1>3, <1>4, <1>5, <1>7, <1>8 DEF Next, Environment

LEMMA NextTyped ==
  ASSUME Base, [Next]_vars PROVE TypeOK' /\ EventsAreMoves' /\ ProgramFits(wf)'
<1>1. TypeOK
  BY DEF Base
<1>2. TypeOK'
  BY <1>1, MovesGrow, InboxMoves, RunTyped, GatesTyped, OpsTyped, NextFits DEF TypeOK, Fits
<1>3. EventsAreMoves'
  BY <1>1, MovesGrow, InboxMoves DEF EventsAreMoves, Kept
<1>4. ProgramFits(wf)'
  BY <1>1, MovesGrow, NextFits, FitsKept
<1> QED BY <1>2, <1>3, <1>4
-----------------------------------------------------------------------------
(* Where a step takes the program.                                          *)

LEMMA RecordsGoes ==
  ASSUME TypeOK, NEW next, Records(next)
  PROVE  wf' = next \/ wf' = GoTo(StepStart(wf.pc))
BY DEF Records

LEMMA AfterOpGoes ==
  ASSUME TypeOK, NEW o
  PROVE  /\ AfterOp(o).pc \in {"errored", "confirm", "finish", "op_wait"}
         /\ ~Manual(o) /\ ~Confirmed(o) => AfterOp(o) = GoTo("op_wait")
         /\ AfterOp(o).pc = "finish" => ~Entering
<1>1. AfterOp(o) \in {Error("manual"), GoTo("confirm"), GoTo("finish"), GoTo("op_wait")}
  <2>1. CASE Manual(o)
    BY <2>1 DEF AfterOp, Manual, Confirmed
  <2>2. CASE Confirmed(o) /\ Entering
    BY <2>2 DEF AfterOp, Manual, Confirmed
  <2>3. CASE Confirmed(o) /\ ~Entering
    BY <2>3 DEF AfterOp, Manual, Confirmed
  <2>4. CASE ~Manual(o) /\ ~Confirmed(o)
    BY <2>4 DEF AfterOp
  <2> QED BY <2>1, <2>2, <2>3, <2>4
<1>2. /\ Error("manual").pc = "errored" /\ GoTo("confirm").pc = "confirm"
      /\ GoTo("finish").pc = "finish" /\ GoTo("op_wait").pc = "op_wait"
  BY GoToIs, ErrorIs DEF Pc
<1>3. ~Manual(o) /\ ~Confirmed(o) => AfterOp(o) = GoTo("op_wait")
  BY DEF AfterOp
<1>4. Entering => AfterOp(o) # GoTo("finish")
  <2>1. CASE Manual(o)
    BY <1>2, <2>1 DEF AfterOp, Manual, Confirmed
  <2>2. CASE Confirmed(o)
    BY <1>2, <2>2 DEF AfterOp, Manual, Confirmed
  <2> QED BY <1>2, <1>3, <2>1, <2>2
<1> QED BY <1>1, <1>2, <1>3, <1>4

\* The program stays where it is, and so does what it works on.
Stays == /\ wf'.pc = wf.pc /\ wf'.node = wf.node /\ wf'.visit = wf.visit
         /\ wf'.status = wf.status /\ wf'.op = wf.op /\ wf'.e = wf.e
         /\ wf'.observed = wf.observed
         /\ UNCHANGED <<run, ledger, gates, ops>>

LEMMA StaysOrGoes ==
  ASSUME TypeOK, Restart \/ Environment \/ UNCHANGED vars
  PROVE  Stays \/ (Restart /\ wf'.pc \in {"op_find", "errored"})
<1>1. CASE Restart
  <2>1. wf' = Error("choice") \/ wf' = GoTo(StepStart(wf.pc))
    BY <1>1 DEF Restart
  <2>2. StepStart(wf.pc) = "op_find" \/ StepStart(wf.pc) = wf.pc
    BY DEF StepStart
  <2>3. UNCHANGED <<run, ledger, gates, ops>>
    BY <1>1 DEF Restart, store
  <2> QED BY <1>1, <2>1, <2>2, <2>3, RecordTyped, GoToIs, ErrorIs DEF Stays
<1>2. CASE ~Restart
  BY <1>2 DEF Stays, Environment, OutsideMove, Deliver, LoseSignal, Resend, vars, store
<1> QED BY <1>1, <1>2

\* The places from which a choice is made, and those before and after the call
\* to Linear, are entered by one step each.
LEMMA Goes ==
  ASSUME Base, [Next]_vars
  PROVE  /\ wf'.pc = "commit" => Load \/ Commit \/ Decide \/ Stays
         /\ wf'.pc = "decide" => Claim \/ Stays
         /\ wf'.pc = "op_move" => OpBegin \/ Stays
         /\ wf'.pc = "op_mark" => OpObserve \/ Stays
<1> DEFINE Place == {"commit", "decide", "op_move", "op_mark"}
<1>1. TypeOK /\ wf \in ProgramState
  BY DEF Base, TypeOK
<1>2. \A pc \in Pc : GoTo(pc) \in ProgramState /\ GoTo(pc).pc = pc
  BY <1>1, GoToIs
<1>3. \A c \in {"manual", "status", "conflict"} : Error(c).pc = "errored"
  BY <1>1, ErrorIs
<1>4. NotYet.pc \in {"load", "op_wait"}
  BY <1>2 DEF NotYet, Pc
<1>5. CASE Load
  <2>1. wf'.pc = Loaded
    BY <1>1, <1>5 DEF Load, ProgramState
  <2>2. Loaded \in {"ended", "commit", "wait", "op_find"}
    BY DEF Loaded
  <2> QED BY <1>5, <2>1, <2>2
<1>6. CASE Commit
  <2>1. Committed.pc \in {"load", "choice", "mark", "mark_duplicate", "errored"}
    BY <1>2, <1>3, <1>6, CommittedIs DEF Pc
  <2>2. StepStart(wf.pc) = "commit"
    BY <1>6 DEF Commit, At, StepStart
  <2>3. wf' = Committed \/ wf' = GoTo("commit")
    BY <1>1, <1>6, <2>2, RecordsGoes DEF Commit
  <2> QED BY <1>2, <1>6, <2>1, <2>3 DEF Pc
<1>7. CASE OpFind
  <2>1. \/ wf' = AfterOp(ops[wf.op].state) \/ wf' = GoTo("op_read")
        \/ wf' = [GoTo("op_begin") EXCEPT !.pre = moves[wf.op[2]].to]
    BY <1>7 DEF OpFind, Found
  <2>2. wf'.pc \in {"errored", "confirm", "finish", "op_wait", "op_read", "op_begin"}
    BY <1>1, <1>2, <2>1, AfterOpGoes DEF Pc, ProgramState
  <2> QED BY <2>2
<1>8. CASE OpRead
  <2>1. wf'.pc = "op_begin"
    BY <1>2, <1>8 DEF OpRead, Pc, ProgramState
  <2> QED BY <2>1
<1>9. CASE OpBegin
  <2>1. wf'.pc = "op_move"
    BY <1>2, <1>9 DEF OpBegin, Pc
  <2> QED BY <1>9, <2>1
<1>10. CASE OpReconcile \/ OpMove \/ OpFailed \/ OpAmbiguous
  <2>1. wf.pc \in {"op_move", "op_failed", "op_ambiguous"}
    BY <1>10 DEF OpReconcile, OpMove, OpFailed, OpAmbiguous, At
  <2>2. StepStart(wf.pc) = "op_find"
    BY <2>1 DEF StepStart
  <2>3. \/ \E o \in OpState : Records(AfterOp(o))
        \/ wf' = GoTo("op_ambiguous") \/ wf' = GoTo("op_failed")
    BY <1>10 DEF OpReconcile, OpMove, OpFailed, OpAmbiguous, OpSettle, OpState
  <2>4. wf'.pc \notin Place
    BY <1>1, <1>2, <2>2, <2>3, RecordsGoes, AfterOpGoes DEF Pc
  <2> QED BY <2>4
<1>11. CASE OpClaim
  <2>1. StepStart(wf.pc) = "op_claim"
    BY <1>11 DEF OpClaim, At, StepStart
  <2>2. wf' \in {GoTo("op_observe"), NotYet, GoTo("op_claim")}
    BY <1>1, <1>11, <2>1, RecordsGoes DEF OpClaim, Claimed
  <2>3. wf'.pc \notin Place
    BY <1>2, <1>4, <2>2 DEF Pc
  <2> QED BY <2>3
<1>12. CASE OpObserve
  <2>1. StepStart(wf.pc) = "op_observe"
    BY <1>12 DEF OpObserve, At, StepStart
  <2>2. wf' \in {[GoTo("op_mark") EXCEPT !.observed = Observed], GoTo("op_observe")}
    BY <1>1, <1>12, <2>1, RecordsGoes DEF OpObserve
  <2>3. wf'.pc \in {"op_mark", "op_observe"}
    BY <1>2, <2>2 DEF Pc, ProgramState
  <2> QED BY <1>12, <2>3
<1>13. CASE OpMark
  <2>1. wf'.pc \notin Place
    BY <1>2, <1>3, <1>4, <1>13 DEF OpMark, Pc
  <2> QED BY <2>1
<1>14. CASE Confirm
  <2>1. StepStart(wf.pc) = "confirm"
    BY <1>14 DEF Confirm, At, StepStart
  <2>2. wf' \in {[GoTo("wait") EXCEPT !.status = "awaiting_human"], GoTo("confirm"),
                 Error("status")}
    BY <1>1, <1>14, <2>1, RecordsGoes DEF Confirm
  <2>3. wf'.pc \notin Place
    BY <1>2, <1>3, <2>2 DEF Pc, ProgramState
  <2> QED BY <2>3
<1>15. CASE Claim
  <2>1. StepStart(wf.pc) = "claim"
    BY <1>15 DEF Claim, At, StepStart
  <2>2. wf' \in {GoTo("decide"), GoTo("load"), GoTo("claim")}
    BY <1>1, <1>15, <2>1, RecordsGoes DEF Claim, Claimed
  <2>3. wf'.pc \in {"decide", "load", "claim"}
    BY <1>2, <2>2 DEF Pc
  <2> QED BY <1>15, <2>3
<1>16. CASE Decide
  <2>1. wf' \in {GoTo("mark"), GoTo("commit"),
                 [GoTo("op_find") EXCEPT !.op = <<"repair", wf.e>>]}
    BY <1>16 DEF Decide
  <2>2. wf'.pc \in {"mark", "commit", "op_find"}
    BY <1>2, <2>1 DEF Pc, ProgramState
  <2> QED BY <1>16, <2>2
<1>17. CASE CompleteChoice \/ Mark
  <2>1. wf' \in {[GoTo("mark") EXCEPT !.continued = TRUE], GoTo("load")}
    BY <1>17 DEF CompleteChoice, Mark
  <2>2. wf'.pc \notin Place
    BY <1>2, <2>1 DEF Pc, ProgramState
  <2> QED BY <2>2
<1>18. CASE Finish
  <2>1. StepStart(wf.pc) = "finish"
    BY <1>18 DEF Finish, At, StepStart
  <2>2. wf' \in {GoTo("load"), GoTo("finish"), Error("status")}
    BY <1>1, <1>18, <2>1, RecordsGoes DEF Finish
  <2>3. wf'.pc \notin Place
    BY <1>2, <1>3, <2>2 DEF Pc
  <2> QED BY <2>3
<1>19. CASE TimeOut
  <2>1. wf' \in {GoTo("load"), NotYet}
    BY <1>19 DEF TimeOut
  <2>2. wf'.pc \notin Place
    BY <1>2, <1>4, <2>1 DEF Pc
  <2> QED BY <2>2
<1>20. ASSUME NEW e \in Delivery, TakeSignal(e) PROVE wf'.pc \notin Place
  BY <1>1, <1>20 DEF TakeSignal, At, ProgramState
<1>21. CASE \E e \in Delivery : TakeSignal(e)
  BY <1>20, <1>21
<1>22. CASE Environment \/ UNCHANGED vars
  BY <1>1, <1>22, StaysOrGoes
<1> QED
  BY <1>5, <1>6, <1>7, <1>8, <1>9, <1>10, <1>11, <1>12, <1>13, <1>14, <1>15, <1>16, <1>17,
     <1>18, <1>19, <1>21, <1>22 DEF Next, Program
-----------------------------------------------------------------------------
(* The invariant's first part.                                              *)

LEMMA LedgerStep ==
  ASSUME Base, [Next]_vars PROVE LedgerIsBehind'
<1>1. /\ TypeOK /\ LedgerIsBehind /\ wf \in ProgramState /\ run \in RunRow
      /\ ledger \in [Visit -> LedgerRow \cup {NoTransition}]
  BY DEF Base, TypeOK
<1>2. CASE Commit /\ Current
  <2>1. /\ run'.visit = wf.visit + 1 /\ run.visit = wf.visit
        /\ ledger' = [ledger EXCEPT ![wf.visit] = Row]
    BY <1>2 DEF Commit, Current, Left
  <2>2. Row # NoTransition /\ wf.visit \in Visit /\ Visit \subseteq Nat
    BY <1>1, <1>2, CommitFinds, ConstantFacts DEF ProgramState, Visit
  <2>3. ASSUME NEW v \in Visit PROVE ledger'[v] = NoTransition <=> v >= run'.visit
    <3>1. v \in Nat /\ wf.visit \in Nat /\ (ledger[v] = NoTransition <=> v >= wf.visit)
      BY <1>1, <2>1, <2>2 DEF LedgerIsBehind
    <3>2. CASE v = wf.visit
      <4>1. ledger'[v] # NoTransition
        BY <1>1, <2>1, <2>2, <3>2
      <4> QED BY <2>1, <3>1, <3>2, <4>1
    <3>3. CASE v # wf.visit
      <4>1. ledger'[v] = ledger[v]
        BY <1>1, <2>1, <3>3
      <4> QED BY <2>1, <3>1, <3>3, <4>1
    <3> QED BY <3>2, <3>3
  <2> QED BY <2>3 DEF LedgerIsBehind, Visit, NoTransition
<1>3. CASE Commit /\ ~Current
  BY <1>1, <1>3 DEF Commit, LedgerIsBehind
<1>4. CASE ~Commit
  BY <1>1, <1>4, RunTyped DEF LedgerIsBehind
<1> QED BY <1>2, <1>3, <1>4

LEMMA WorkStep ==
  ASSUME Base, [Next]_vars PROVE WorkIsCurrent'
<1>1. /\ TypeOK /\ LedgerIsBehind /\ ProgramFits(wf) /\ WorkIsCurrent /\ wf \in ProgramState
      /\ run \in RunRow
  BY DEF Base, TypeOK
<1> SUFFICES ASSUME wf'.pc = "commit", wf'.node # "gate"
             PROVE  Current' \/ (ledger[wf.visit] = Row)'
  BY DEF WorkIsCurrent
<1>2. CASE Load
  <2>1. /\ wf'.node = run.node /\ wf'.visit = run.visit /\ wf'.status = run.status
        /\ UNCHANGED <<run, ledger>>
    BY <1>1, <1>2 DEF Load, ProgramState, store
  <2>2. run.visit \in Visit /\ run.visit \in Nat
    BY <1>1, ConstantFacts DEF RunRow, Visit
  <2>3. ledger[run.visit] = NoTransition
    BY <1>1, <2>2 DEF LedgerIsBehind
  <2> QED BY <2>1, <2>3 DEF Current, NoTransition
<1>3. CASE Commit
  <2>1. wf.pc = "commit" /\ StepStart(wf.pc) = "commit"
    BY <1>3 DEF Commit, At, StepStart
  <2>2. wf' = GoTo("commit") \/ wf' = Committed
    BY <1>1, <1>3, <2>1, RecordsGoes DEF Commit
  <2>3. wf'.node = wf.node /\ wf'.visit = wf.visit /\ wf'.e = wf.e
    <3>1. Committed.pc = "errored" \/ \E pc \in Pc : Committed = GoTo(pc)
      BY <1>1, <1>3, CommittedIs, ErrorIs DEF Pc
    <3> QED BY <1>1, <2>2, <3>1, GoToIs DEF Pc
  <2>4. ledger'[wf.visit] = Row
    BY <1>3, <2>3, CommitFinds
  <2>5. (Row)' = Row
    <3>1. (Target)' = "gate" /\ Target = "gate"
      BY <2>3 DEF Target
    <3> QED BY <2>3, <3>1 DEF Row
  <2> QED BY <2>3, <2>4, <2>5
<1>4. CASE Decide
  <2>1. wf' \in {GoTo("mark"), GoTo("commit"),
                 [GoTo("op_find") EXCEPT !.op = <<"repair", wf.e>>]}
    BY <1>4 DEF Decide
  <2>2. wf'.node = wf.node
    BY <1>1, <2>1, GoToIs DEF Pc, ProgramState
  <2>3. wf.node = "gate"
    BY <1>1, <1>4 DEF Decide, At, ProgramFits, GateFits, GatePc
  <2> QED BY <2>2, <2>3
<1>5. CASE Stays
  <2>1. wf.pc = "commit" /\ wf.node # "gate"
    BY <1>5 DEF Stays
  <2>2. Current \/ ledger[wf.visit] = Row
    BY <1>1, <2>1 DEF WorkIsCurrent
  <2>3. Target' = "gate" /\ Target = "gate"
    BY <1>5, <2>1 DEF Stays, Target
  <2>4. (Row)' = Row
    BY <1>5, <2>3 DEF Stays, Row
  <2>5. (Current)' = Current
    BY <1>5 DEF Stays, Current, NoTransition
  <2>6. ledger'[wf'.visit] = ledger[wf.visit]
    BY <1>5 DEF Stays
  <2> QED BY <2>2, <2>4, <2>5, <2>6
<1> QED BY <1>2, <1>3, <1>4, <1>5, Goes

LEMMA BaseStep ==
  ASSUME Base, [Next]_vars PROVE Base'
BY NextTyped, LedgerStep, WorkStep DEF Base
-----------------------------------------------------------------------------
(* Choices.                                                                 *)

\* A row that is new is the one the program commits.
LEMMA LedgerGrows ==
  ASSUME Base, [Next]_vars, NEW v \in Visit
  PROVE  \/ ledger'[v] = ledger[v]
         \/ Commit /\ Current /\ v = wf.visit /\ ledger[v] = NoTransition /\ ledger'[v] = Row
<1>1. ledger \in [Visit -> LedgerRow \cup {NoTransition}]
  BY DEF Base, TypeOK
<1>2. CASE Commit /\ Current
  <2>1. ledger' = [ledger EXCEPT ![wf.visit] = Row] /\ ledger[wf.visit] = NoTransition
    BY <1>2 DEF Commit, Current, Left
  <2> QED BY <1>1, <1>2, <2>1
<1>3. CASE ~(Commit /\ Current)
  BY <1>3, RunTyped DEF Commit
<1> QED BY <1>2, <1>3

\* A gate that was decided stays as it was decided.
LEMMA GateStaysDecided ==
  ASSUME Base, [Next]_vars, NEW v \in Visit, gates[v].state = "decided"
  PROVE  gates'[v] = gates[v]
<1>1. gates \in [Visit -> GateVisit]
  BY DEF Base, TypeOK
<1>2. CASE Commit
  BY <1>1, <1>2 DEF Commit, Current
<1>3. CASE OpFind
  BY <1>1, <1>3 DEF OpFind
<1>4. CASE Program /\ ~OpFind /\ ~Commit
  BY <1>1, <1>4 DEF Program, Load, OpRead, OpBegin, OpReconcile, OpMove, OpFailed, OpAmbiguous,
     OpSettle, OpClaim, OpObserve, OpMark, Confirm, Claim, Decide, CompleteChoice, Mark, Finish,
     store
<1>5. CASE TimeOut \/ (\E e \in Delivery : TakeSignal(e)) \/ Environment \/ UNCHANGED vars
  BY <1>1, <1>5 DEF TimeOut, TakeSignal, Environment, OutsideMove, Deliver, LoseSignal, Resend,
     Restart, vars, store
<1> QED BY <1>2, <1>3, <1>4, <1>5 DEF Next

Chosen == ChoiceIsSpent /\ ChoiceIsNew /\ DecidedByPerson

\* What a commit at the gate writes.
LEMMA ChoiceWrites ==
  ASSUME Base, ChoiceIsNew, [Next]_vars, Commit, Current, wf.node = "gate"
  PROVE  /\ wf.visit \in Visit /\ wf.e \in DOMAIN moves /\ wf.e \in Delivery
         /\ ledger'[wf.visit] = Row
         /\ Row.from = "gate" /\ Row.cause = wf.e /\ Row.to = Decision(moves[wf.e].to)
         /\ moves[wf.e].actor \in {"user", "review"} /\ moves[wf.e].from = "review"
         /\ gates'[wf.visit].state = "decided" /\ gates'[wf.visit].decision = wf.e
         /\ inbox[wf.e] \notin {"absent", "sent"} /\ inbox' = inbox /\ moves' = moves
         /\ run.status = "awaiting_human" /\ run.node = "gate" /\ run.visit = wf.visit
<1>1. /\ TypeOK /\ ProgramFits(wf) /\ wf \in ProgramState /\ gates \in [Visit -> GateVisit]
      /\ wf.pc = "commit"
  BY DEF Base, TypeOK, Commit, At
<1>2. /\ wf.e \in DOMAIN moves /\ wf.visit \in Visit /\ wf.status = "awaiting_human"
      /\ moves[wf.e].actor \in {"user", "review"} /\ moves[wf.e].from = "review"
  BY <1>1 DEF ProgramFits, ChoiceFits, ProgramState
<1>3. wf.e \in Delivery
  BY <1>1, <1>2, MovesAreDeliveries
<1>4. Row.from = "gate" /\ Row.cause = wf.e /\ Row.to = Decision(moves[wf.e].to)
  BY DEF Row, Target
<1>5. gates'[wf.visit].state = "decided" /\ gates'[wf.visit].decision = wf.e
  <2>1. gates' = [gates EXCEPT ![wf.visit].state = "decided", ![wf.visit].decision = wf.e]
    BY DEF Commit
  <2> QED BY <1>1, <1>2, <2>1 DEF GateVisit
<1>6. inbox[wf.e] \notin {"absent", "sent"}
  BY <1>1 DEF ChoiceIsNew, Choosing
<1>7. inbox' = inbox /\ moves' = moves
  BY DEF Commit, linear
<1>8. run.status = "awaiting_human" /\ run.node = "gate" /\ run.visit = wf.visit
  BY <1>2 DEF Current
<1> QED BY <1>2, <1>3, <1>4, <1>5, <1>6, <1>7, <1>8, CommitFinds

\* A gate row of after the step is one of before it, or the one that is written.
LEMMA GateRowIs ==
  ASSUME Base, [Next]_vars, NEW v \in Visit, ledger'[v].from = "gate"
  PROVE  \/ ledger'[v] = ledger[v] /\ ledger[v].from = "gate"
         \/ Commit /\ Current /\ v = wf.visit /\ wf.node = "gate" /\ ledger[v] = NoTransition
<1>1. CASE ledger'[v] = ledger[v]
  BY <1>1
<1>2. CASE Commit /\ Current /\ v = wf.visit /\ ledger[v] = NoTransition /\ ledger'[v] = Row
  BY <1>2 DEF Row
<1> QED BY <1>1, <1>2, LedgerGrows

LEMMA ChoiceSpentStep ==
  ASSUME Base, Chosen, [Next]_vars PROVE ChoiceIsSpent' /\ DecidedByPerson'
<1>1. TypeOK /\ Kept /\ ChoiceIsSpent /\ ChoiceIsNew /\ DecidedByPerson
  BY MovesGrow DEF Base, Chosen
<1>2. ASSUME NEW v \in Visit, ledger'[v].from = "gate"
      PROVE  /\ ledger'[v].cause \in DOMAIN moves'
             /\ inbox'[ledger'[v].cause] \notin {"absent", "sent"}
             /\ gates'[v].state = "decided"
             /\ moves'[ledger'[v].cause].actor \in {"user", "review"}
             /\ moves'[ledger'[v].cause].from = "review"
             /\ Decision(moves'[ledger'[v].cause].to) = ledger'[v].to
             /\ gates'[v].decision = ledger'[v].cause
  <2>1. CASE ledger'[v] = ledger[v] /\ ledger[v].from = "gate"
    <3>1. PICK e : e = ledger[v].cause
      OBVIOUS
    <3>2. /\ e \in DOMAIN moves /\ inbox[e] \notin {"absent", "sent"}
          /\ gates[v].state = "decided"
      BY <1>1, <2>1, <3>1 DEF ChoiceIsSpent
    <3>3. e \in Delivery /\ moves'[e] = moves[e] /\ e \in DOMAIN moves'
      BY <1>1, <3>2, MovesAreDeliveries DEF Kept
    <3>4. gates'[v] = gates[v]
      BY <3>2, GateStaysDecided
    <3>5. inbox'[e] \notin {"absent", "sent"}
      BY <3>2, <3>3, InboxMoves
    <3>6. /\ moves[e].actor \in {"user", "review"} /\ moves[e].from = "review"
          /\ Decision(moves[e].to) = ledger[v].to /\ gates[v].decision = e
      BY <1>1, <2>1, <3>1 DEF DecidedByPerson
    <3> QED BY <2>1, <3>1, <3>2, <3>3, <3>4, <3>5, <3>6
  <2>2. CASE Commit /\ Current /\ v = wf.visit /\ wf.node = "gate"
    BY <1>1, <2>2, ChoiceWrites
  <2> QED BY <1>2, <2>1, <2>2, GateRowIs
<1>3. ChoiceIsSpent'
  BY <1>2 DEF ChoiceIsSpent, Visit
<1>4. DecidedByPerson'
  BY <1>2 DEF DecidedByPerson, Visit, Decision
<1> QED BY <1>3, <1>4

LEMMA ChoiceNewStep ==
  ASSUME Base, Chosen, [Next]_vars PROVE ChoiceIsNew'
<1>1. /\ TypeOK /\ ProgramFits(wf) /\ wf \in ProgramState
      /\ ChoiceIsSpent /\ ChoiceIsNew
  BY DEF Base, Chosen, TypeOK
<1> SUFFICES ASSUME wf'.pc = "decide" \/ Choosing'
             PROVE  /\ inbox'[wf'.e] \notin {"absent", "sent"}
                    /\ \A v \in Visit : (ledger'[v].from = "gate" /\ ledger'[v].cause = wf'.e)
                                          => v = wf'.visit /\ wf'.pc = "commit"
  BY DEF ChoiceIsNew, Visit
<1>2. wf.pc \in {"decide", "claim"} \/ Choosing => wf.e \in Delivery /\ wf.e \in DOMAIN moves
  BY <1>1, MovesAreDeliveries DEF ProgramFits, EventFits, ChoiceFits, EventPc, Choosing
<1>3. CASE Claim
  <2>1. wf.pc = "claim" /\ StepStart(wf.pc) = "claim" /\ ledger' = ledger
    BY <1>3 DEF Claim, At, StepStart
  <2>2. wf' \in {GoTo("load"), GoTo("decide"), GoTo("claim")}
        /\ (wf' = GoTo("decide") => Claimable \/ wf' = GoTo("load") \/ wf' = GoTo("claim"))
    BY <1>1, <1>3, <2>1, RecordsGoes DEF Claim, Claimed
  <2>3. Claimable /\ wf' = GoTo("decide")
    BY <1>1, <2>2, GoToIs DEF Pc, Choosing
  <2>4. inbox[wf.e] = "sent" /\ inbox' = [inbox EXCEPT ![wf.e] = "claimed"]
    BY <1>3, <2>3 DEF Claimable, Claim, Claimed
  <2>5. wf'.e = wf.e /\ inbox'[wf.e] = "claimed"
    BY <1>1, <1>2, <2>1, <2>3, <2>4, GoToIs DEF Pc, TypeOK
  <2> QED BY <1>1, <2>1, <2>4, <2>5 DEF ChoiceIsSpent
<1>4. CASE Load
  <2>1. wf'.pc = Loaded /\ wf'.node = run.node
    BY <1>1, <1>4 DEF Load, ProgramState
  <2> QED BY <2>1 DEF Loaded, Choosing
<1>5. CASE Commit
  <2>1. wf.pc = "commit" /\ StepStart(wf.pc) = "commit"
    BY <1>5 DEF Commit, At, StepStart
  <2>2. wf' = GoTo("commit") \/ wf' = Committed
    BY <1>1, <1>5, <2>1, RecordsGoes DEF Commit
  <2>3. wf'.pc \in {"load", "choice", "mark", "mark_duplicate", "errored"} \/ wf' = GoTo("commit")
    BY <1>1, <1>5, <2>2, CommittedIs, GoToIs, ErrorIs DEF Pc
  <2>4. wf' = GoTo("commit")
    BY <2>3 DEF Choosing
  <2>5. wf'.node = wf.node /\ wf'.e = wf.e /\ wf'.visit = wf.visit /\ wf'.pc = "commit"
    BY <1>1, <2>4, GoToIs DEF Pc
  <2>6. Choosing
    BY <2>1, <2>5 DEF Choosing
  <2>7. inbox'[wf.e] \notin {"absent", "sent"}
    BY <1>1, <1>5, <2>6 DEF ChoiceIsNew, Commit
  <2>8. ASSUME NEW v \in Visit, ledger'[v].from = "gate", ledger'[v].cause = wf.e
        PROVE  v = wf.visit
    BY <1>1, <2>6, <2>8, GateRowIs DEF ChoiceIsNew
  <2> QED BY <2>5, <2>7, <2>8
<1>6. CASE Decide
  <2>1. wf.pc = "decide" /\ UNCHANGED <<inbox, ledger>>
    BY <1>6 DEF Decide, At, store
  <2>2. wf'.e = wf.e
    <3>1. wf' \in {GoTo("mark"), GoTo("commit"),
                   [GoTo("op_find") EXCEPT !.op = <<"repair", wf.e>>]}
      BY <1>6 DEF Decide
    <3> QED BY <1>1, <3>1, GoToIs DEF Pc, ProgramState
  <2> QED BY <1>1, <2>1, <2>2 DEF ChoiceIsNew
<1>7. CASE Stays
  <2>1. wf.pc = "decide" \/ Choosing
    BY <1>7 DEF Stays, Choosing
  <2>2. inbox'[wf.e] \notin {"absent", "sent"}
    BY <1>1, <1>2, <2>1, InboxMoves DEF ChoiceIsNew
  <2> QED BY <1>1, <1>7, <2>1, <2>2 DEF ChoiceIsNew, Stays
<1> QED BY <1>3, <1>4, <1>5, <1>6, <1>7, Goes DEF Choosing
-----------------------------------------------------------------------------
(* Operations.                                                              *)

\* A step touches the operation it works on, and no other.  Only begin() makes
\* one pending; only a call counts as a move.
LEMMA OpChanges ==
  ASSUME Base, [Next]_vars, NEW o \in Op
  PROVE  /\ ops'[o].state = "pending" => ops[o].state = "pending" \/ (OpBegin /\ o = wf.op)
         /\ \/ ops'[o].moved = ops[o].moved
            \/ OpBegin /\ o = wf.op /\ ops'[o].moved = 0
            \/ OpMove /\ o = wf.op /\ ops'[o].moved = ops[o].moved + 1
<1>1. /\ TypeOK /\ ops \in [Op -> Operation] /\ wf \in ProgramState /\ ProgramFits(wf)
  BY DEF Base, TypeOK
<1>2. wf.pc \in OpPc => wf.op \in Op
  BY <1>1 DEF ProgramFits, OpFits
<1>3. CASE OpBegin
  <2>1. wf.op \in Op
    BY <1>2, <1>3 DEF OpBegin, At, OpPc
  <2>2. ops' = [ops EXCEPT ![wf.op] = [state |-> "pending", pre |-> wf.pre,
                                       started |-> Len(moves), moved |-> 0, by |-> None]]
    BY <1>3 DEF OpBegin
  <2>3. o # wf.op => ops'[o] = ops[o]
    BY <1>1, <2>1, <2>2
  <2>4. o = wf.op => ops'[o].moved = 0
    BY <1>1, <2>1, <2>2
  <2> QED BY <1>3, <2>3, <2>4
<1>4. CASE OpReconcile \/ OpFailed \/ OpAmbiguous
  <2>1. wf.op \in Op
    BY <1>2, <1>4 DEF OpReconcile, OpFailed, OpAmbiguous, At, OpPc
  <2>2. PICK s \in OpState \ {"pending"} : ops' = SetOp(s)
    BY <1>4 DEF OpReconcile, OpFailed, OpAmbiguous, OpSettle, OpState
  <2> QED BY <1>1, <2>1, <2>2 DEF SetOp, Operation
<1>5. CASE OpMove
  <2>1. wf.op \in Op /\ ops[wf.op].moved \in Nat
    BY <1>1, <1>2, <1>5 DEF OpMove, At, OpPc, Operation
  <2>2. PICK n : n = ops[wf.op].moved + 1
    OBVIOUS
  <2>3. n \in Nat /\ ops' = [ops EXCEPT ![wf.op].moved = n]
    BY <1>5, <2>1, <2>2 DEF OpMove
  <2>4. o # wf.op => ops'[o] = ops[o]
    BY <1>1, <2>1, <2>3
  <2>5. ops'[wf.op].moved = n /\ ops'[wf.op].state = ops[wf.op].state
    BY <1>1, <2>1, <2>3 DEF Operation
  <2> QED BY <1>5, <2>2, <2>4, <2>5
<1>6. CASE OpObserve
  <2>1. wf.op \in Op
    BY <1>2, <1>6 DEF OpObserve, At, OpPc
  <2>2. \/ ops' = ops
        \/ /\ Observed # ops[wf.op].state
           /\ ops' = [ops EXCEPT ![wf.op].state = Observed, ![wf.op].by = wf.e]
    BY <1>6 DEF OpObserve
  <2>3. Observed = "pending" => Observed = ops[wf.op].state
    BY DEF Observed
  <2> QED BY <1>1, <2>1, <2>2, <2>3 DEF Operation
<1>7. CASE Program /\ ~OpBegin /\ ~OpReconcile /\ ~OpFailed /\ ~OpAmbiguous /\ ~OpMove
           /\ ~OpObserve
  BY <1>7 DEF Program, Load, Commit, OpFind, OpRead, OpClaim, OpMark, Confirm, Claim, Decide,
     CompleteChoice, Mark, Finish, store
<1>8. CASE TimeOut \/ (\E e \in Delivery : TakeSignal(e)) \/ Environment \/ UNCHANGED vars
  BY <1>8 DEF TimeOut, TakeSignal, Environment, OutsideMove, Deliver, LoseSignal, Resend,
     Restart, vars, store
<1> QED BY <1>3, <1>4, <1>5, <1>6, <1>7, <1>8 DEF Next

LEMMA OnceStep ==
  ASSUME Base, OpIsOnce, OneMovePerOperation, [Next]_vars
  PROVE  OpIsOnce' /\ OneMovePerOperation'
<1>1. /\ TypeOK /\ wf \in ProgramState /\ ProgramFits(wf) /\ ops \in [Op -> Operation]
  BY DEF Base, TypeOK
<1>2. OpIsOnce'
  <2> SUFFICES ASSUME wf'.pc = "op_move" PROVE ops'[wf'.op].moved = 0
    BY DEF OpIsOnce
  <2>1. CASE OpBegin
    <3>1. wf.op \in Op /\ wf'.op = wf.op
      BY <1>1, <2>1, GoToIs DEF OpBegin, At, OpPc, Pc, ProgramFits, OpFits
    <3> QED BY <1>1, <2>1, <3>1 DEF OpBegin
  <2>2. CASE Stays
    BY <2>2 DEF Stays, OpIsOnce
  <2> QED BY <2>1, <2>2, Goes
<1>3. ASSUME NEW o \in Op PROVE ops'[o].moved <= 1
  <2>1. ops[o].moved \in Nat /\ ops[o].moved <= 1
    BY <1>1 DEF OneMovePerOperation, Operation
  <2>2. OpMove => ops[wf.op].moved = 0
    BY DEF OpMove, At, OpIsOnce
  <2> QED BY <2>1, <2>2, OpChanges
<1>4. OneMovePerOperation'
  BY <1>3 DEF OneMovePerOperation, Op, Visit, Delivery
<1> QED BY <1>2, <1>4

LEMMA ObservedStep ==
  ASSUME Base, OpIsObserved, [Next]_vars PROVE OpIsObserved'
<1>1. /\ TypeOK /\ wf \in ProgramState /\ ProgramFits(wf) /\ ops \in [Op -> Operation]
  BY DEF Base, TypeOK
<1> SUFFICES ASSUME wf'.pc = "op_mark" PROVE wf'.observed = ops'[wf'.op].state
  BY DEF OpIsObserved
<1>2. CASE OpObserve
  <2> DEFINE g == GoTo("op_mark")
  <2>1. wf.op \in Op /\ wf.pc = "op_observe" /\ StepStart(wf.pc) = "op_observe"
    BY <1>1, <1>2 DEF OpObserve, At, OpPc, ProgramFits, OpFits, StepStart
  <2>2. wf' = [g EXCEPT !.observed = Observed] \/ wf' = GoTo("op_observe")
    BY <1>1, <1>2, <2>1, RecordsGoes DEF OpObserve
  <2>3. wf' # GoTo("op_observe")
    BY <1>1, GoToIs DEF Pc
  <2>4. g \in ProgramState /\ g.op = wf.op
    BY <1>1, GoToIs DEF Pc
  <2> HIDE DEF g
  <2>5. wf'.observed = Observed /\ wf'.op = wf.op
    BY <2>2, <2>3, <2>4 DEF ProgramState
  <2>6. ops'[wf.op].state = Observed
    BY <1>1, <1>2, <2>1 DEF OpObserve, Operation
  <2> QED BY <2>5, <2>6
<1>3. CASE Stays
  BY <1>3 DEF Stays, OpIsObserved
<1> QED BY <1>2, <1>3, Goes

\* While a repair is pending the program does not leave it.
LEMMA RepairStays ==
  ASSUME Base, OpIsObserved, [Next]_vars, NEW o \in Op, o[1] = "repair",
         ops[o].state = "pending", ops'[o].state = "pending", wf.pc \in OpPc, wf.op = o
  PROVE  wf'.pc = "errored" \/ (wf'.pc \in OpPc /\ wf'.op = o)
<1> DEFINE Goal == wf'.pc = "errored" \/ (wf'.pc \in OpPc /\ wf'.op = o)
<1>1. TypeOK /\ wf \in ProgramState /\ ~Entering /\ ops \in [Op -> Operation]
  BY DEF Base, TypeOK, Entering
<1>2. \A pc \in OpPc : pc \in Pc /\ GoTo(pc).pc = pc /\ GoTo(pc).op = o
                         /\ GoTo(pc) \in ProgramState
  BY <1>1, GoToIs DEF OpPc, Pc
<1>3. StepStart(wf.pc) \in OpPc
  BY DEF StepStart, OpPc
<1>4. NotYet = GoTo("op_wait") /\ AfterOp("pending") = GoTo("op_wait")
  BY <1>1, AfterOpGoes DEF NotYet, Manual, Confirmed
<1>5. ASSUME NEW pc \in OpPc, wf' = GoTo(pc) PROVE Goal
  BY <1>2, <1>5
<1>6. wf' \in {NotYet, AfterOp("pending"), GoTo(StepStart(wf.pc))} => Goal
  BY <1>3, <1>4, <1>5 DEF OpPc
<1>7. CASE OpFind
  <2>1. wf' = AfterOp("pending")
    BY <1>7 DEF OpFind, Found
  <2> QED BY <1>6, <2>1
<1>8. CASE OpRead
  <2>1. wf'.pc = "op_begin" /\ wf'.op = o
    BY <1>2, <1>8 DEF OpRead, OpPc, ProgramState
  <2> QED BY <2>1 DEF OpPc
<1>9. CASE OpBegin
  BY <1>9 DEF OpBegin
<1>10. CASE OpReconcile \/ OpFailed \/ OpAmbiguous
  <2>1. PICK s \in OpState \ {"pending"} : ops' = SetOp(s)
    BY <1>10 DEF OpReconcile, OpFailed, OpAmbiguous, OpSettle, OpState
  <2>2. ops'[o].state = s
    BY <1>1, <2>1 DEF SetOp, Operation
  <2> QED BY <2>1, <2>2
<1>11. CASE OpMove
  <2>1. \/ Records(AfterOp("pending"))
        \/ wf' = GoTo("op_ambiguous") \/ wf' = GoTo("op_failed")
    BY <1>11 DEF OpMove
  <2> QED BY <1>1, <1>5, <1>6, <2>1, RecordsGoes DEF OpPc
<1>12. CASE OpClaim
  <2>1. Records(GoTo("op_observe")) \/ Records(NotYet)
    BY <1>12 DEF OpClaim, Claimed
  <2> QED BY <1>1, <1>5, <1>6, <2>1, RecordsGoes DEF OpPc
<1>13. CASE OpObserve
  <2>1. wf' = [GoTo("op_mark") EXCEPT !.observed = Observed] \/ wf' = GoTo(StepStart(wf.pc))
    BY <1>1, <1>13, RecordsGoes DEF OpObserve
  <2>2. wf' = [GoTo("op_mark") EXCEPT !.observed = Observed]
          => wf'.pc = "op_mark" /\ wf'.op = o
    BY <1>2 DEF OpPc, ProgramState
  <2> QED BY <1>6, <2>1, <2>2 DEF OpPc
<1>14. CASE OpMark
  <2>1. wf.observed = "pending"
    BY <1>14 DEF OpMark, At, OpIsObserved
  <2>2. wf' = NotYet
    BY <1>14, <2>1 DEF OpMark, Manual, Confirmed
  <2> QED BY <1>6, <2>2
<1>15. CASE TimeOut
  <2>1. wf' = NotYet
    BY <1>15 DEF TimeOut, At, OpPc
  <2> QED BY <1>6, <2>1
<1>16. ASSUME NEW e \in Delivery, TakeSignal(e) PROVE Goal
  <2>1. wf'.pc = "op_claim" /\ wf'.op = o
    BY <1>1, <1>16 DEF TakeSignal, At, OpPc, ProgramState
  <2> QED BY <2>1 DEF OpPc
<1>17. CASE Environment \/ UNCHANGED vars
  <2>1. CASE Stays
    BY <2>1 DEF Stays
  <2>2. CASE Restart
    <3>1. wf' = Error("choice") \/ wf' = GoTo(StepStart(wf.pc))
      BY <2>2 DEF Restart
    <3> QED BY <1>1, <1>6, <3>1, ErrorIs
  <2> QED BY <1>1, <1>17, <2>1, <2>2, StaysOrGoes
<1>18. CASE Load \/ Commit \/ Confirm \/ Claim \/ Decide \/ CompleteChoice \/ Mark \/ Finish
  BY <1>18 DEF Load, Commit, Confirm, Claim, Decide, CompleteChoice, Mark, Finish, At, OpPc
<1> QED
  BY <1>7, <1>8, <1>9, <1>10, <1>11, <1>12, <1>13, <1>14, <1>15, <1>16, <1>17, <1>18
     DEF Next, Program

\* A program that has ended in an error makes no step.
LEMMA ErroredStays ==
  ASSUME TypeOK, [Next]_vars, wf.pc = "errored" PROVE wf'.pc = "errored"
<1>1. ~Program /\ ~TimeOut /\ ~Restart /\ \A e \in Delivery : ~TakeSignal(e)
  BY DEF Program, Load, Commit, OpFind, OpRead, OpBegin, OpReconcile, OpMove, OpFailed,
     OpAmbiguous, OpClaim, OpObserve, OpMark, Confirm, Claim, Decide, CompleteChoice, Mark,
     Finish, TimeOut, Restart, TakeSignal, At
<1> QED BY <1>1, StaysOrGoes DEF Next, Stays

LEMMA RepairStep ==
  ASSUME Base, OpIsObserved, RepairInProgress, [Next]_vars PROVE RepairInProgress'
<1>1. TypeOK /\ ProgramFits(wf)
  BY DEF Base
<1>2. ASSUME NEW e \in Delivery, ops'[<<"repair", e>>].state = "pending"
      PROVE  wf'.pc = "errored" \/ (wf'.pc \in OpPc /\ wf'.op = <<"repair", e>>)
  <2>1. PICK o : o = <<"repair", e>>
    OBVIOUS
  <2>2. o \in Op /\ o[1] = "repair"
    BY <2>1 DEF Op
  <2>3. CASE OpBegin /\ o = wf.op
    <3>1. wf'.pc = "op_move" /\ wf'.op = wf.op
      BY <1>1, <2>3, GoToIs DEF OpBegin, Pc
    <3> QED BY <2>1, <2>3, <3>1 DEF OpPc
  <2>4. CASE ops[o].state = "pending"
    <3>1. wf.pc = "errored" \/ (wf.pc \in OpPc /\ wf.op = o)
      BY <2>1, <2>4 DEF RepairInProgress
    <3> QED BY <1>1, <1>2, <2>1, <2>2, <2>4, <3>1, ErroredStays, RepairStays
  <2> QED BY <1>2, <2>1, <2>2, <2>3, <2>4, OpChanges
<1> QED BY <1>2 DEF RepairInProgress, Delivery, OpPc
-----------------------------------------------------------------------------
(* The invariant of the program at its gates.                               *)

LEMMA InitIInv == Init => IInv
<1> SUFFICES ASSUME Init PROVE IInv
  OBVIOUS
<1> USE ConstantFacts
<1>1. TypeOK
  <2>1. moves \in Seq(Move) /\ Len(moves) <= MaxMove
    BY DEF Init
  <2>2. run \in RunRow /\ 1 \in Visit
    BY DEF Init, RunRow, RunStatus, Node, Visit
  <2>3. gates \in [Visit -> GateVisit]
    BY DEF Init, GateVisit
  <2>4. ops \in [Op -> Operation]
    BY DEF Init, Operation, OpState
  <2>5. wf \in ProgramState
    BY <2>2 DEF Init, ProgramState, Pc, Node, RunStatus, OpState
  <2>6. ledger \in [Visit -> LedgerRow \cup {NoTransition}]
    BY DEF Init
  <2>7. /\ inbox \in [Delivery -> {"absent", "sent", "claimed", "processed", "duplicate"}]
        /\ signals \subseteq Delivery /\ faults \in 0 .. MaxFault
    BY DEF Init
  <2> QED BY <2>1, <2>2, <2>3, <2>4, <2>5, <2>6, <2>7 DEF TypeOK
<1>2. EventsAreMoves /\ LedgerIsBehind
  BY DEF Init, EventsAreMoves, LedgerIsBehind, NoTransition, Visit
<1>3. ProgramFits(wf) /\ WorkIsCurrent
  BY DEF Init, ProgramFits, GateFits, OpFits, EventFits, ChoiceFits, GatePc, OpPc, EventPc,
     WorkIsCurrent
<1>4. ChoiceIsSpent /\ ChoiceIsNew /\ DecidedByPerson
  BY DEF Init, ChoiceIsSpent, ChoiceIsNew, Choosing, DecidedByPerson, NoTransition
<1>5. OpIsOnce /\ OpIsObserved /\ OneMovePerOperation
  BY DEF Init, OpIsOnce, OpIsObserved, OneMovePerOperation
<1>6. RepairInProgress
  <2>1. \A e \in Delivery : <<"repair", e>> \in Op
    BY DEF Op
  <2> QED BY <2>1 DEF Init, RepairInProgress
<1> QED BY <1>1, <1>2, <1>3, <1>4, <1>5, <1>6 DEF IInv, Base

LEMMA NextIInv == IInv /\ [Next]_vars => IInv'
BY BaseStep, ChoiceSpentStep, ChoiceNewStep, OnceStep, ObservedStep, RepairStep
   DEF IInv, Chosen

\* The invariant of the program at its gates holds in every state.
THEOREM GateInvariance == Spec => []IInv
BY InitIInv, NextIInv, PTL DEF Spec

\* Every value stays in its type: in particular a decision that is committed is
\* one of a mapped state.
THEOREM GateTypeCorrect == Spec => []TypeOK
<1>1. IInv => TypeOK
  BY DEF IInv, Base
<1> QED BY <1>1, GateInvariance, PTL

\* A gate is left only for an authorized move out of Human Review, and by the
\* edge of the state it went to.
THEOREM GateDecidedByPerson == Spec => []DecidedByPerson
<1>1. IInv => DecidedByPerson
  BY DEF IInv
<1> QED BY <1>1, GateInvariance, PTL

\* An operation asks Linear to move once, however often its step runs.
THEOREM GateMovesOnce == Spec => []OneMovePerOperation
<1>1. IInv => OneMovePerOperation
  BY DEF IInv
<1> QED BY <1>1, GateInvariance, PTL

\* The step formula of RepairBeforeChoice.
ChoiceAfterRepair ==
  \A v \in Visit : (ledger[v] = NoTransition /\ ledger'[v].from = "gate") => RepairsPending = {}

\* A choice that is made finds no repair unconfirmed: the program that commits
\* works on no operation.
THEOREM GateRepairBeforeChoice == Spec => RepairBeforeChoice
<1>1. IInv /\ [Next]_vars => [ChoiceAfterRepair]_vars
  <2> SUFFICES ASSUME IInv, [Next]_vars, NEW v \in Visit, ledger[v] = NoTransition,
                      ledger'[v].from = "gate"
               PROVE  RepairsPending = {}
    BY DEF ChoiceAfterRepair
  <2>1. ledger[v].from # "gate"
    BY DEF NoTransition
  <2>2. wf.pc = "commit"
    BY <2>1, GateRowIs DEF IInv, Commit, At
  <2> QED BY <2>2 DEF IInv, RepairInProgress, RepairsPending, OpPc
<1>2. [][ChoiceAfterRepair]_vars <=> RepairBeforeChoice
  BY DEF ChoiceAfterRepair, RepairBeforeChoice
<1> QED BY <1>1, <1>2, GateInvariance, PTL DEF Spec
-----------------------------------------------------------------------------
(* Refinement of GateApproval.                                              *)

Phase == IF run.node = "canceled" THEN "over"
         ELSE IF run.node # "gate" THEN "work"
         ELSE IF run.status = "awaiting_human" THEN "awaiting" ELSE "gate"
Choices == {<<v, ledger[v].cause, ledger[v].to>> : v \in {u \in Visit : ledger[u].from = "gate"}}

LEMMA NextApproval == IInv /\ [Next]_vars => [Approval!Next]_Approval!vars
<1> SUFFICES ASSUME IInv, [Next]_vars PROVE [Approval!Next]_<<Phase, run.visit, Choices>>
  BY DEF Approval!vars, Phase, Choices
<1>1. /\ Base /\ TypeOK /\ ChoiceIsNew /\ run \in RunRow /\ wf \in ProgramState
      /\ ProgramFits(wf) /\ ledger \in [Visit -> LedgerRow \cup {NoTransition}]
  BY DEF IInv, Base, TypeOK
<1>2. ledger' = ledger => Choices' = Choices
  BY DEF Choices, Visit
<1>3. UNCHANGED <<run, ledger>> => UNCHANGED <<Phase, run.visit, Choices>>
  BY <1>2 DEF Phase
<1>4. CASE Commit /\ Current /\ wf.node # "gate"
  <2>1. /\ run.node = wf.node /\ run.visit = wf.visit /\ wf.node # "canceled"
        /\ run' = [node |-> "gate", visit |-> wf.visit + 1, status |-> "active"]
    BY <1>1, <1>4 DEF Commit, At, Current, Target, ProgramFits, GateFits
  <2>2. \A v \in Visit : \/ ledger'[v] = ledger[v]
                         \/ ledger'[v].from # "gate" /\ ledger[v].from # "gate"
    BY <1>1, <1>4, LedgerGrows DEF Row, NoTransition
  <2>3. Choices' = Choices
    BY <2>2 DEF Choices, Visit
  <2>4. Phase = "work" /\ Phase' = "gate" /\ run'.visit = run.visit + 1
    BY <1>4, <2>1 DEF Phase
  <2> QED BY <2>3, <2>4 DEF Approval!Next, Approval!Reach, Phase, Choices
<1>5. CASE Commit /\ Current /\ wf.node = "gate"
  <2>1. /\ wf.visit \in Visit /\ wf.e \in Delivery /\ ledger'[wf.visit] = Row
        /\ Row.from = "gate" /\ Row.cause = wf.e /\ Row.to = Target
        /\ run.status = "awaiting_human" /\ run.node = "gate" /\ run.visit = wf.visit
    BY <1>1, <1>5, ChoiceWrites DEF Row
  <2>2. /\ run' = [node |-> Target, visit |-> wf.visit + 1,
                   status |-> IF Target = "canceled" THEN "canceled" ELSE "active"]
        /\ ledger[wf.visit] = NoTransition /\ ledger[wf.visit].from # "gate"
    BY <1>5 DEF Commit, Current, NoTransition
  <2>3. Target \in {"revise", "merge", "canceled"}
    BY <1>1, <1>5 DEF Commit, At, Target, Decision, ProgramFits, ChoiceFits
  <2>4. Phase = "awaiting" /\ Phase' = (IF Target = "canceled" THEN "over" ELSE "work")
    BY <2>1, <2>2, <2>3 DEF Phase
  <2>5. \A v \in Visit : ledger[v].from = "gate" => ledger[v].cause # wf.e
    BY <1>1, <1>5, <2>2 DEF ChoiceIsNew, Choosing, Commit, At
  <2>6. \A c \in Choices : c[2] # wf.e
    BY <2>5 DEF Choices
  <2>7. Choices' = Choices \cup {<<wf.visit, wf.e, Target>>}
    <3>1. \A v \in Visit : v # wf.visit => ledger'[v] = ledger[v]
      BY LedgerGrows, <1>1
    <3>2. Choices' = {<<v, ledger'[v].cause, ledger'[v].to>> :
                        v \in {u \in Visit : ledger'[u].from = "gate"}}
      BY DEF Choices, Visit
    <3>3. /\ ledger'[wf.visit].cause = wf.e /\ ledger'[wf.visit].to = Target
          /\ ledger'[wf.visit].from = "gate"
      BY <2>1
    <3>4. ASSUME NEW c \in Choices' PROVE c \in Choices \cup {<<wf.visit, wf.e, Target>>}
      <4>1. PICK v \in Visit : /\ ledger'[v].from = "gate"
                               /\ c = <<v, ledger'[v].cause, ledger'[v].to>>
        BY <3>2, <3>4
      <4> QED BY <3>1, <3>3, <4>1 DEF Choices
    <3>5. ASSUME NEW c \in Choices PROVE c \in Choices'
      <4>1. PICK v \in Visit : /\ ledger[v].from = "gate"
                               /\ c = <<v, ledger[v].cause, ledger[v].to>>
        BY <3>5 DEF Choices
      <4> QED BY <2>2, <3>1, <3>2, <4>1
    <3>6. <<wf.visit, wf.e, Target>> \in Choices'
      BY <2>1, <3>2, <3>3
    <3> QED BY <3>4, <3>5, <3>6
  <2>8. PICK e \in Delivery, o \in {"revise", "merge", "canceled"} : e = wf.e /\ o = Target
    BY <2>1, <2>3
  <2>9. Approval!Choose(e, o)
    BY <2>1, <2>2, <2>4, <2>6, <2>7, <2>8 DEF Approval!Choose, Phase, Choices
  <2> QED BY <2>9 DEF Approval!Next
<1>6. CASE Commit /\ ~Current
  BY <1>3, <1>6 DEF Commit
<1>7. CASE Confirm
  <2>1. wf.node = "gate" /\ ledger' = ledger
    BY <1>1, <1>7 DEF Confirm, At, ProgramFits, GateFits, GatePc
  <2>2. CASE run' = run
    BY <1>3, <2>1, <2>2
  <2>3. CASE run.node = "gate" /\ run' = [run EXCEPT !.status = "awaiting_human"]
    <3>1. run'.node = "gate" /\ run'.status = "awaiting_human" /\ run'.visit = run.visit
      BY <1>1, <2>3 DEF RunRow
    <3>2. Phase \in {"gate", "awaiting"} /\ Phase' = "awaiting"
      BY <2>3, <3>1 DEF Phase
    <3> QED BY <1>2, <2>1, <3>1, <3>2 DEF Approval!Next, Approval!Open, Phase, Choices
  <2> QED BY <1>7, <2>1, <2>2, <2>3 DEF Confirm
<1>8. CASE Finish
  <2>1. wf.node = "gate" /\ ledger' = ledger
    BY <1>1, <1>8 DEF Finish, At, ProgramFits, GateFits, GatePc
  <2>2. CASE run' = run
    BY <1>3, <2>1, <2>2
  <2>3. CASE run.node = "gate" /\ run.status = "awaiting_human"
             /\ run' = [run EXCEPT !.status = "active"]
    <3>1. run'.node = "gate" /\ run'.status = "active" /\ run'.visit = run.visit
      BY <1>1, <2>3 DEF RunRow
    <3>2. Phase = "awaiting" /\ Phase' = "gate"
      BY <2>3, <3>1 DEF Phase
    <3> QED BY <1>2, <2>1, <3>1, <3>2 DEF Approval!Next, Approval!Reopen, Phase, Choices
  <2> QED BY <1>8, <2>1, <2>2, <2>3 DEF Finish
<1>9. CASE Program /\ ~Commit /\ ~Confirm /\ ~Finish
  BY <1>3, <1>9 DEF Program, Load, OpFind, OpRead, OpBegin, OpReconcile, OpMove, OpFailed,
     OpAmbiguous, OpSettle, OpClaim, OpObserve, OpMark, Claim, Decide, CompleteChoice, Mark,
     store
<1>10. CASE TimeOut \/ (\E e \in Delivery : TakeSignal(e)) \/ Environment \/ UNCHANGED vars
  BY <1>3, <1>10 DEF TimeOut, TakeSignal, Environment, OutsideMove, Deliver, LoseSignal, Resend,
     Restart, vars, store
<1> QED BY <1>4, <1>5, <1>6, <1>7, <1>8, <1>9, <1>10 DEF Next

\* Restarts, lost results and wakes, and the operations that move the issue
\* implement the plain life of a gate.
THEOREM GateRefinement == Spec => ImplementsApproval
<1>1. Init => Approval!Init
  BY DEF Init, NoTransition, Approval!Init
<1> QED BY <1>1, NextApproval, GateInvariance, PTL DEF Spec, ImplementsApproval, Approval!Spec
=============================================================================
