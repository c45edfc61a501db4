--------------------------- MODULE ServiceProofs ---------------------------
(***************************************************************************)
(* Proofs about Service, for every number of tables, any relation of       *)
(* children to parents, every delay and any number of failures and events. *)
(***************************************************************************)
EXTENDS Service, SinkLoopProofs

(* A watermark is recorded for tables with a cursor only, and stands for   *)
(* what the target has; a pass leaves nothing behind it; and what changed  *)
(* before a pass began is not later than its beginning.                    *)
MarksInv == \A t \in Table :
    mark[t] = 0 \/ (Parent[t] = 0 /\ (last[t] > mark[t] \/ held[t] = last[t]))

SweepInv == at = "sync" =>
    /\ \A t \in Table : t < turn => held[t] = last[t] \/ last[t] > began
    /\ ~late => \A t \in Table : last[t] <= began

IInv == ServiceTypeOK /\ MarksInv /\ SweepInv /\ Covered /\ ReadyMeansCurrent

(* Every step of the service is one of the loop, or none it can see. *)
LEMMA StepsAreLoops == ServiceNext => [LoopNext]_vars
<1> SUFFICES ASSUME ServiceNext PROVE LoopNext \/ UNCHANGED vars
  OBVIOUS
<1>1. CASE AwaitPass
  BY <1>1 DEF AwaitPass, LoopNext, LoopStep
<1>2. CASE SyncTable
  BY <1>2 DEF SyncTable
<1>3. CASE CompletePass \/ FailPass \/ DropPass
  BY <1>3 DEF CompletePass, FailPass, DropPass, LoopNext, LoopStep, PassEnds
<1>4. CASE ChangeTable
  BY <1>4 DEF ChangeTable, LoopNext
<1>5. CASE Elsewhere(TimerFires) \/ Elsewhere(WakerStep) \/ Elsewhere(Interrupt)
  BY <1>5 DEF Elsewhere, LoopNext
<1>6. QED
  BY <1>1, <1>2, <1>3, <1>4, <1>5 DEF ServiceNext, Goroutine

(* The service implements the loop, which knows nothing of tables. *)
THEOREM ServiceIsALoop == ServiceSpec => LoopSpec
<1>1. ServiceInit => LoopInit
  BY DEF ServiceInit
<1>2. [ServiceNext]_svars => [LoopNext]_vars
  BY StepsAreLoops DEF svars
<1>3. QED
  BY <1>1, <1>2, PTL DEF ServiceSpec, LoopSpec

(* So what is proved of the loop holds of the service: no nudge is lost.   *)
THEOREM ServiceKeepsNudges == ServiceSpec => []NudgeKept
  BY ServiceIsALoop, NoNudgeIsLost

(* And a failure costs the delay of its turn, however many tables the pass *)
(* had visited before it.                                                  *)
THEOREM ServiceWaitsItsTurn == ServiceSpec => []WaitsItsTurn
  BY ServiceIsALoop, FailuresWaitTheirTurn

LEMMA InitInv == ServiceInit => IInv
<1> SUFFICES ASSUME ServiceInit PROVE IInv
  OBVIOUS
<1>1. LoopTypeOK /\ events = 0
  BY LoopInitType DEF ServiceInit, LoopInit
<1>2. ServiceTypeOK
  <2>1. 1 \in 1..(TableCount + 1)
    BY ServiceAssumption
  <2>2. QED
    BY <1>1, <2>1 DEF ServiceInit, ServiceTypeOK, Moment
<1>3. MarksInv
  BY DEF ServiceInit, MarksInv
<1>4. SweepInv /\ Covered /\ ReadyMeansCurrent
  BY DEF ServiceInit, LoopInit, SweepInv, Covered, ReadyMeansCurrent, Ready
<1>5. QED
  BY <1>2, <1>3, <1>4 DEF IInv

(* What the parts of a state are, once LoopTypeOK has been dealt with. *)
LEMMA StepType ==
    ASSUME LoopTypeOK, [LoopNext]_vars
    PROVE  LoopTypeOK'
<1>1. CASE UNCHANGED vars
  BY <1>1 DEF vars, loopVars, wakerVars, history, LoopTypeOK
<1>2. CASE LoopNext
  BY <1>2, LoopStepType, OutsideStepType DEF LoopNext
<1>3. QED
  BY <1>1, <1>2

LEMMA AwaitPassInv == ASSUME IInv, AwaitPass PROVE IInv'
<1>1. LoopTypeOK' /\ events' = events /\ stale' = stale
  <2>1. [LoopNext]_vars
    BY DEF AwaitPass, LoopNext, LoopStep
  <2>2. events' = events /\ stale' = stale
    BY DEF AwaitPass, Waiting, TakeDone, TakeTimer, TakeWake, DrainOne, DrainDone, history
  <2>3. QED
    BY <2>1, <2>2, StepType DEF IInv, ServiceTypeOK
<1>2. Moment \in Nat /\ Moment' = Moment
  BY <1>1, LoopAssumption DEF IInv, ServiceTypeOK, LoopTypeOK, Moment
<1>3. ServiceTypeOK'
  <2>1. turn' \in 1..(TableCount + 1) /\ began' \in 0..Moment
    BY <1>2, ServiceAssumption DEF AwaitPass, IInv, ServiceTypeOK
  <2>2. QED
    BY <1>1, <1>2, <2>1 DEF AwaitPass, tableVars, metrics, IInv, ServiceTypeOK
<1>4. MarksInv' /\ Covered'
  BY <1>1 DEF AwaitPass, tableVars, IInv, MarksInv, Covered
<1>5. SweepInv'
  <2> SUFFICES ASSUME at' = "sync" PROVE SweepInv'
    BY DEF SweepInv
  <2>1. turn' = 1 /\ began' = Moment /\ UNCHANGED tableVars
    BY DEF AwaitPass
  <2>2. ASSUME NEW t \in Table PROVE ~(t < turn') /\ last'[t] <= began'
    BY <1>2, <2>1, <2>2, ServiceAssumption DEF Table, tableVars, IInv, ServiceTypeOK
  <2>3. QED
    BY <2>2 DEF SweepInv
<1>6. ReadyMeansCurrent'
  <2> SUFFICES ASSUME at' = "select" PROVE FALSE
    BY DEF ReadyMeansCurrent
  <2>1. QED
    BY DEF AwaitPass, Waiting, TakeDone, TakeTimer, TakeWake, DrainOne, DrainDone, BeginSync, loopVars
<1>7. QED
  BY <1>3, <1>4, <1>5, <1>6 DEF IInv

LEMMA SyncTableInv == ASSUME IInv, SyncTable PROVE IInv'
<1> DEFINE u == turn
<1>1. u \in Table /\ UNCHANGED <<vars, last, began, metrics>> /\ turn' = u + 1
  BY DEF SyncTable
<1>2. events' = events /\ stale' = stale /\ late' = late /\ at' = at /\ at = "sync" /\ Moment' = Moment
  BY <1>1 DEF SyncTable, vars, loopVars, history, Moment
<1>3. /\ held'[u] = last[u] /\ mark'[u] = NextMark(u)
      /\ \A t \in Table \ {u} : held'[t] = held[t] /\ mark'[t] = mark[t]
  <2>1. ~Reached(u) => held[u] = last[u]
    BY <1>1 DEF IInv, MarksInv, Reached
  <2>2. held \in [Table -> 0..Moment] /\ mark \in [Table -> 0..Moment]
    BY DEF IInv, ServiceTypeOK
  <2>3. QED
    BY <1>1, <2>1, <2>2 DEF SyncTable
<1>4. Moment \in Nat /\ turn \in Nat /\ last \in [Table -> 1..Moment] /\ TableCount \in Nat
  BY LoopAssumption, ServiceAssumption DEF IInv, ServiceTypeOK, LoopTypeOK, Moment
<1>5. ServiceTypeOK'
  <2>1. LoopTypeOK'
    BY <1>1, StepType DEF IInv, ServiceTypeOK
  <2>2. turn' \in 1..(TableCount + 1)
    BY <1>1, <1>4 DEF Table
  <2>3. NextMark(u) \in 0..Moment /\ last[u] \in 0..Moment
    BY <1>1, <1>4 DEF NextMark, IInv, ServiceTypeOK
  <2>4. held' \in [Table -> 0..Moment] /\ mark' \in [Table -> 0..Moment]
    BY <1>1, <2>3 DEF SyncTable, IInv, ServiceTypeOK
  <2>5. QED
    BY <1>1, <1>2, <2>1, <2>2, <2>4 DEF IInv, ServiceTypeOK, metrics
<1>6. MarksInv'
  <2>1. ASSUME NEW t \in Table
        PROVE  mark'[t] = 0 \/ (Parent[t] = 0 /\ (last'[t] > mark'[t] \/ held'[t] = last'[t]))
    <3>1. CASE t = u
      BY <1>1, <1>3, <3>1 DEF NextMark, IInv, MarksInv
    <3>2. CASE t # u
      BY <1>1, <1>3, <3>2 DEF IInv, MarksInv
    <3>3. QED
      BY <3>1, <3>2
  <2>2. QED
    BY <2>1 DEF MarksInv
<1>7. SweepInv'
  <2>1. ASSUME NEW t \in Table, t < turn' PROVE held'[t] = last'[t] \/ last'[t] > began'
    <3>1. CASE t = u
      BY <1>1, <1>3, <3>1
    <3>2. CASE t # u
      <4>1. t < turn
        BY <1>1, <1>4, <2>1, <3>2, ServiceAssumption DEF Table
      <4>2. QED
        BY <1>1, <1>2, <1>3, <3>2, <4>1 DEF IInv, SweepInv
    <3>3. QED
      BY <3>1, <3>2
  <2>2. ~late' => \A t \in Table : last'[t] <= began'
    BY <1>1, <1>2 DEF IInv, SweepInv
  <2>3. QED
    BY <2>1, <2>2 DEF SweepInv
<1>8. Covered'
  <2>1. ASSUME NEW t \in Table, ~stale PROVE held'[t] = last[t]
    BY <1>3, <2>1 DEF IInv, Covered
  <2>2. QED
    BY <1>1, <1>2, <2>1 DEF Covered
<1>9. ReadyMeansCurrent'
  BY <1>2 DEF ReadyMeansCurrent
<1>10. QED
  BY <1>5, <1>6, <1>7, <1>8, <1>9 DEF IInv

(* A pass that ends: the tables and the clock of changes stand still. *)
LEMMA PassEndType ==
    ASSUME IInv, CompletePass \/ FailPass \/ DropPass
    PROVE  ServiceTypeOK' /\ MarksInv' /\ SweepInv'
<1>1. events' = events /\ at' # "sync" /\ UNCHANGED <<tableVars, turn, began>>
  BY DEF CompletePass, FailPass, DropPass, PassSucceeds, PassFails, PassCancelled, PassTimesOut, history
<1>2. LoopTypeOK'
  <2>1. [LoopNext]_vars
    BY DEF CompletePass, FailPass, DropPass, LoopNext, LoopStep, PassEnds
  <2>2. QED
    BY <2>1, StepType DEF IInv, ServiceTypeOK
<1>3. passAt' \in 0..2 /\ errorAt' \in 0..2
  BY DEF CompletePass, FailPass, DropPass, RecordPass, RecordError, metrics, IInv, ServiceTypeOK
<1>4. Moment' = Moment
  BY <1>1 DEF Moment
<1>5. ServiceTypeOK'
  BY <1>1, <1>2, <1>3, <1>4 DEF tableVars, IInv, ServiceTypeOK
<1>6. MarksInv'
  BY <1>1 DEF tableVars, IInv, MarksInv
<1>7. SweepInv'
  BY <1>1 DEF SweepInv
<1>8. QED
  BY <1>5, <1>6, <1>7

LEMMA CompletePassInv == ASSUME IInv, CompletePass PROVE IInv'
<1>1. ASSUME NEW t \in Table PROVE held[t] = last[t] \/ last[t] > began
  <2>1. t < turn
    BY ServiceAssumption DEF CompletePass, Table, IInv, ServiceTypeOK
  <2>2. QED
    BY <2>1 DEF CompletePass, PassSucceeds, IInv, SweepInv
<1>2. ASSUME NEW t \in Table, ~late PROVE held[t] = last[t]
  <2>1. last[t] <= began
    BY <1>2 DEF CompletePass, PassSucceeds, IInv, SweepInv
  <2>2. last[t] \in Nat /\ began \in Nat
    BY LoopAssumption DEF IInv, ServiceTypeOK, LoopTypeOK, Moment
  <2>3. QED
    BY <1>1, <2>1, <2>2
<1>3. Covered'
  BY <1>2 DEF CompletePass, PassSucceeds, tableVars, Covered
<1>4. ReadyMeansCurrent'
  BY <1>1 DEF CompletePass, tableVars, ReadyMeansCurrent
<1>5. QED
  BY <1>3, <1>4, PassEndType DEF IInv

LEMMA FailPassInv == ASSUME IInv, FailPass PROVE IInv'
<1>1. ~Ready'
  BY DEF FailPass, RecordError, Ready
<1>2. Covered'
  BY DEF FailPass, PassFails, tableVars, IInv, Covered
<1>3. QED
  BY <1>1, <1>2, PassEndType DEF IInv, ReadyMeansCurrent

LEMMA DropPassInv == ASSUME IInv, DropPass PROVE IInv'
<1>1. at' = "over" /\ stale' = stale /\ UNCHANGED tableVars
  BY DEF DropPass, PassCancelled, PassTimesOut, history
<1>2. QED
  BY <1>1, PassEndType DEF tableVars, IInv, Covered, ReadyMeansCurrent

LEMMA ChangeTableInv == ASSUME IInv, ChangeTable PROVE IInv'
<1>1. LoopTypeOK' /\ events' = events + 1 /\ stale' /\ late' = (late \/ at = "sync") /\ at' = at
  <2>1. [LoopNext]_vars
    BY DEF ChangeTable, LoopNext
  <2>2. QED
    BY <2>1, StepType DEF ChangeTable, Change, loopVars, IInv, ServiceTypeOK
<1>2. Moment \in Nat /\ Moment' = Moment + 1
  BY <1>1, LoopAssumption DEF IInv, ServiceTypeOK, LoopTypeOK, Moment
<1>3. UNCHANGED <<held, mark, turn, began, metrics>>
  BY DEF ChangeTable
<1>4. PICK u \in Table : last' = [last EXCEPT ![u] = Moment']
  BY DEF ChangeTable
<1>5. ServiceTypeOK'
  BY <1>1, <1>2, <1>3, <1>4 DEF metrics, IInv, ServiceTypeOK
<1>6. ASSUME NEW t \in Table
      PROVE  last'[t] = last[t] \/ (last'[t] > mark[t] /\ last'[t] > began)
  <2>1. mark[t] \in 0..Moment /\ began \in 0..Moment /\ last \in [Table -> 1..Moment]
    BY DEF IInv, ServiceTypeOK
  <2>2. QED
    BY <1>2, <1>4, <2>1
<1>7. ASSUME NEW t \in Table PROVE mark[t] # 0 => Parent[t] = 0
  BY DEF IInv, MarksInv
<1>8. MarksInv'
  BY <1>3, <1>6, <1>7 DEF IInv, MarksInv
<1>9. SweepInv'
  BY <1>1, <1>3, <1>6 DEF IInv, SweepInv
<1>10. Covered' /\ ReadyMeansCurrent'
  BY <1>1, <1>3, <1>6 DEF metrics, IInv, Covered, ReadyMeansCurrent, Ready
<1>11. QED
  BY <1>5, <1>8, <1>9, <1>10 DEF IInv

LEMMA ElsewhereInv ==
    ASSUME IInv, Elsewhere(TimerFires) \/ Elsewhere(WakerStep) \/ Elsewhere(Interrupt)
    PROVE  IInv'
<1>1. UNCHANGED <<at, stale, late, events>>
  <2>1. CASE Elsewhere(TimerFires) \/ Elsewhere(Interrupt)
    BY <2>1 DEF Elsewhere, TimerFires, Interrupt, loopVars, history
  <2>2. CASE Elsewhere(WakerStep)
    BY <2>2 DEF Elsewhere, WakerStep, Connect, Nudge, RunFails, WakerRetries, RunEnds, WakerStops, loopVars, history
  <2>3. QED
    BY <2>1, <2>2
<1>2. LoopTypeOK'
  <2>1. [LoopNext]_vars
    BY DEF Elsewhere, LoopNext
  <2>2. QED
    BY <2>1, StepType DEF IInv, ServiceTypeOK
<1>3. UNCHANGED <<tableVars, turn, began, metrics>> /\ Moment' = Moment
  BY <1>1 DEF Elsewhere, Moment
<1>4. ServiceTypeOK'
  BY <1>2, <1>3 DEF tableVars, metrics, IInv, ServiceTypeOK
<1>5. MarksInv' /\ SweepInv'
  BY <1>1, <1>3 DEF tableVars, IInv, MarksInv, SweepInv
<1>6. Covered' /\ ReadyMeansCurrent'
  BY <1>1, <1>3 DEF tableVars, metrics, IInv, Covered, ReadyMeansCurrent, Ready
<1>7. QED
  BY <1>4, <1>5, <1>6 DEF IInv

LEMMA StutterInv == ASSUME IInv, UNCHANGED svars PROVE IInv'
<1>1. LoopTypeOK'
  BY StepType DEF svars, IInv, ServiceTypeOK
<1>2. UNCHANGED <<at, stale, late, events, tableVars, turn, began, metrics>> /\ Moment' = Moment
  BY DEF svars, vars, loopVars, history, Moment
<1>3. ServiceTypeOK'
  BY <1>1, <1>2 DEF tableVars, metrics, IInv, ServiceTypeOK
<1>4. MarksInv' /\ SweepInv' /\ Covered'
  BY <1>2 DEF tableVars, IInv, MarksInv, SweepInv, Covered
<1>5. ReadyMeansCurrent'
  BY <1>2 DEF tableVars, metrics, IInv, ReadyMeansCurrent, Ready
<1>6. QED
  BY <1>3, <1>4, <1>5 DEF IInv

LEMMA Inductive == ServiceSpec => []IInv
<1>1. ServiceInit => IInv
  BY InitInv
<1>2. IInv /\ [ServiceNext]_svars => IInv'
  BY AwaitPassInv, SyncTableInv, CompletePassInv, FailPassInv, DropPassInv, ChangeTableInv,
     ElsewhereInv, StutterInv DEF ServiceNext, Goroutine
<1>3. QED
  BY <1>1, <1>2, PTL DEF ServiceSpec

(* Every variable of the service keeps its type. *)
THEOREM ServiceTypes == ServiceSpec => []ServiceTypeOK
<1>1. IInv => ServiceTypeOK
  BY DEF IInv
<1>2. QED
  BY <1>1, Inductive, PTL

(* A good pass leaves no table behind, whatever the order of the plan and  *)
(* whichever tables failed in the passes before it.                        *)
THEOREM GoodPassesCover == ServiceSpec => []Covered
<1>1. IInv => Covered
  BY DEF IInv
<1>2. QED
  BY <1>1, Inductive, PTL

(* Ready between two passes means current as of the last of them. *)
THEOREM ReadinessIsHonest == ServiceSpec => []ReadyMeansCurrent
<1>1. IInv => ReadyMeansCurrent
  BY DEF IInv
<1>2. QED
  BY <1>1, Inductive, PTL
=============================================================================
