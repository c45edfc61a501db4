------------------------------ MODULE Service ------------------------------
(***************************************************************************)
(* The whole of `pgsink sync`: the loop of SinkLoop with its passes opened *)
(* up.  A pass (Runner.Sync) visits the tables of the plan one after the   *)
(* other and records each table's watermark before it goes on to the next; *)
(* the first that fails ends it.  The command counts the pass in the       *)
(* metrics registry, which the probes of another goroutine read.  What one *)
(* table goes through while it is read is TableSync; here it is one step.  *)
(***************************************************************************)
EXTENDS SinkLoop

CONSTANTS
    TableCount,  \* the plan's tables, numbered in its order
    Parent       \* Parent[t]: the table that t follows; 0: t has a cursor

Table == 1..TableCount

ASSUME ServiceAssumption ==
    /\ TableCount \in Nat
    /\ Parent \in [Table -> 0..TableCount]

VARIABLES
    \* Moments are numbered: 1 is before the start, and every change is the next.
    last,     \* last[t]: the latest change of table t, and its highest cursor
    held,     \* held[t]: the latest change of t that the target has; 0: nothing
    mark,     \* mark[t]: its watermark in apiary_sync_state; 0: none
    turn,     \* the table the pass in flight visits next
    began,    \* the moment at which the last pass began; 0: none has
    \* observe.Metrics: when the last good and the last failed pass were
    \* recorded, as their order.  0: never; 2: the later of the two.
    passAt, errorAt

tableVars == <<last, held, mark>>
metrics   == <<passAt, errorAt>>
svars     == <<vars, tableVars, turn, began, metrics>>

Moment == events + 1

ServiceTypeOK ==
    /\ LoopTypeOK
    /\ last \in [Table -> 1..Moment]
    /\ held \in [Table -> 0..Moment] /\ mark \in [Table -> 0..Moment]
    /\ turn \in 1..(TableCount + 1) /\ began \in 0..Moment
    /\ passAt \in 0..2 /\ errorAt \in 0..2

ServiceInit ==
    /\ LoopInit
    /\ last = [t \in Table |-> 1]
    /\ held = [t \in Table |-> 0] /\ mark = [t \in Table |-> 0]
    /\ turn = 1 /\ began = 0
    /\ passAt = 0 /\ errorAt = 0

(***************************************************************************)
(* A pass.                                                                 *)
(***************************************************************************)

(* The loop waits, or begins a pass with the first table. *)
AwaitPass ==
    /\ Waiting
    /\ IF at' = "sync" THEN turn' = 1 /\ began' = Moment ELSE UNCHANGED <<turn, began>>
    /\ UNCHANGED <<tableVars, metrics>>

(* selectors: with no watermark, everything; else what has moved past it.  *)
(* The predicate on a parent's cursor brings the children of the parents   *)
(* that moved, and a child that changed by itself is not among them.       *)
Reached(t) == mark[t] = 0 \/ (Parent[t] = 0 /\ last[t] > mark[t])

(* Mutant: a child takes its parent's cursor for its own. *)
ParentsMark(t) == IF Parent[t] = 0 THEN last[t] ELSE last[Parent[t]]

(* A table with no cursor keeps the watermark it was read with, which is   *)
(* none: no pass has ever recorded another for it.                         *)
NextMark(t) == IF Parent[t] = 0 THEN last[t] ELSE mark[t]

(* Mutant: a table that fails is passed over. *)
PassOver ==
    /\ at = "sync" /\ ~cancelled
    /\ turn \in Table
    /\ turn' = turn + 1
    /\ \/ /\ held' = [held EXCEPT ![turn] = IF Reached(turn) THEN last[turn] ELSE @]
          /\ mark' = [mark EXCEPT ![turn] = NextMark(turn)]
          /\ UNCHANGED faults
       \/ faults < MaxFaults /\ faults' = faults + 1 /\ UNCHANGED <<held, mark>>
    /\ UNCHANGED <<once, cancelled, loopVars, signal, wakerVars, last, began, metrics>>
    /\ UNCHANGED <<events, fails, stale, late, heard>>

SyncTable ==
    /\ at = "sync" /\ ~cancelled
    /\ turn \in Table
    /\ turn' = turn + 1
    /\ held' = [held EXCEPT ![turn] = IF Reached(turn) THEN last[turn] ELSE @]
    /\ mark' = [mark EXCEPT ![turn] = NextMark(turn)]
    /\ UNCHANGED <<vars, last, began, metrics>>

(* Every table has been visited: OnPass. *)
RecordPass == passAt' = 2 /\ errorAt' = IF errorAt = 0 THEN 0 ELSE 1

CompletePass ==
    /\ turn > TableCount
    /\ PassSucceeds
    /\ RecordPass
    /\ UNCHANGED <<tableVars, turn, began>>

(* The watermarks cannot be read, or a table fails: OnError.  What the     *)
(* tables before it recorded stays.                                        *)
RecordError == errorAt' = 2 /\ passAt' = IF passAt = 0 THEN 0 ELSE 1

FailPass ==
    /\ turn <= TableCount
    /\ PassFails
    /\ RecordError
    /\ UNCHANGED <<tableVars, turn, began>>

(* Neither callback is called. *)
DropPass ==
    /\ PassCancelled \/ (turn <= TableCount /\ PassTimesOut)
    /\ UNCHANGED <<tableVars, turn, began, metrics>>

Goroutine == AwaitPass \/ SyncTable \/ CompletePass \/ FailPass \/ DropPass

(***************************************************************************)
(* Around it.                                                              *)
(***************************************************************************)

(* The change is to one table: a child changes and its parent need not.    *)
ChangeTable ==
    /\ Change
    /\ \E t \in Table : last' = [last EXCEPT ![t] = Moment']
    /\ UNCHANGED <<held, mark, turn, began, metrics>>

Elsewhere(A) == A /\ UNCHANGED <<tableVars, turn, began, metrics>>

ServiceNext ==
    \/ Goroutine \/ ChangeTable
    \/ Elsewhere(TimerFires) \/ Elsewhere(WakerStep) \/ Elsewhere(Interrupt)

ServiceSpec == ServiceInit /\ [][ServiceNext]_svars

(* As FairLoop: that the goroutine runs on now means that it goes through  *)
(* the tables of a pass.                                                   *)
FairService ==
    /\ ServiceSpec
    /\ WF_svars(Elsewhere(TimerFires)) /\ WF_svars(Elsewhere(WakerStops))
    /\ WF_svars(Goroutine) /\ SF_svars(TakeDone /\ AwaitPass)

(***************************************************************************)
(* Properties.                                                             *)
(***************************************************************************)

(* Mutant: ready for good once a pass has completed. *)
ReadyOnce == passAt # 0

(* Healthy, which /readyz and pgsink_up report. *)
Ready == passAt # 0 /\ ~(errorAt # 0 /\ errorAt > passAt)

(* A good pass covers every table of the plan, in whatever order children  *)
(* and parents come and whichever of them a change was to: when nothing    *)
(* has changed since one began, the target has the latest of each.         *)
Covered == ~stale => \A t \in Table : held[t] = last[t]

(* Whoever finds the sink ready between two passes finds in the target all *)
(* that the source held when the last of them began, whatever became of    *)
(* the passes before it and of the nudges since (Healthy, OnPass, OnError).*)
ReadyMeansCurrent ==
    at = "select" /\ Ready => \A t \in Table : held[t] = last[t] \/ last[t] > began

(* Every change arrives, of whichever table and whatever becomes of the    *)
(* event stream, unless the loop is over: the stream buys latency and      *)
(* nothing else (startWaker, wake.Waker, Loop).                            *)
Arrives == <>[](at = "over" \/ \A t \in Table : held[t] = last[t])
=============================================================================
