--------------------------- MODULE SinkLoopProofs ---------------------------
(***************************************************************************)
(* Proofs about SinkLoop, for every delay, any number of failures and any  *)
(* number of events.                                                       *)
(***************************************************************************)
EXTENDS SinkLoop, FiniteSetTheorems, FunctionTheorems, TLAPS

LEMMA DoubledType ==
    ASSUME NEW low \in Nat \ {0}, NEW cap \in Nat, low <= cap, NEW d \in low..cap
    PROVE  Doubled(d, cap) \in low..cap
<1>1. d \in Nat /\ low \in Nat /\ low <= d /\ low <= 2 * d
  OBVIOUS
<1>2. CASE 2 * d > cap
  <2>1. Doubled(d, cap) = cap
    BY <1>2 DEF Doubled
  <2>2. QED
    BY <2>1
<1>3. CASE ~(2 * d > cap)
  <2>1. Doubled(d, cap) = 2 * d
    BY <1>3 DEF Doubled
  <2>2. QED
    BY <1>1, <1>3, <2>1
<1>4. QED
  BY <1>2, <1>3

LEMMA LoopInitType == LoopInit => LoopTypeOK
<1> SUFFICES ASSUME LoopInit PROVE LoopTypeOK
  OBVIOUS
<1>1. backoff \in MinBackoff..MaxBackoff /\ retry \in 1..WakerMax
  BY LoopAssumption DEF LoopInit
<1>2. stream \in 0..events /\ events \in 0..MaxEvents /\ faults \in 0..MaxFaults /\ fails \in 0..faults
  BY LoopAssumption DEF LoopInit
<1>3. once \in BOOLEAN /\ cancelled \in BOOLEAN
  BY DEF LoopInit
<1>4. QED
  BY <1>1, <1>2, <1>3 DEF LoopInit, LoopTypeOK

(* One step of the loop's goroutine, and the timer's. *)
LEMMA LoopStepType ==
    ASSUME LoopTypeOK, TimerFires \/ LoopStep
    PROVE  LoopTypeOK'
<1>1. CASE TimerFires
  BY <1>1 DEF TimerFires, LoopTypeOK, wakerVars, history
<1>2. CASE TakeDone \/ TakeTimer \/ TakeWake
  BY <1>2 DEF TakeDone, TakeTimer, TakeWake, BeginSync, LoopTypeOK, wakerVars, history
<1>3. CASE DrainOne \/ DrainDone
  BY <1>3 DEF DrainOne, DrainDone, BeginSync, LoopTypeOK, loopVars, wakerVars, history
<1>4. CASE PassSucceeds
  BY <1>4, LoopAssumption DEF PassSucceeds, Reset, LoopTypeOK, wakerVars
<1>5. CASE PassFails
  <2>1. Doubled(backoff, MaxBackoff) \in MinBackoff..MaxBackoff
    BY LoopAssumption, DoubledType DEF LoopTypeOK
  <2>2. backoff \in Nat
    BY LoopAssumption DEF LoopTypeOK
  <2>3. faults + 1 \in 0..MaxFaults /\ fails + 1 \in 0..(faults + 1)
    BY <1>5, LoopAssumption DEF LoopTypeOK, PassFails
  <2>4. QED
    BY <1>5, <2>1, <2>2, <2>3 DEF PassFails, Reset, LoopTypeOK, wakerVars
<1>6. CASE PassCancelled
  BY <1>6 DEF PassCancelled, LoopTypeOK, wakerVars, history
<1>7. CASE PassTimesOut
  <2>1. faults + 1 \in 0..MaxFaults /\ fails + 1 \in 0..(faults + 1)
    BY <1>7, LoopAssumption DEF LoopTypeOK, PassTimesOut
  <2>2. QED
    BY <1>7, <2>1 DEF PassTimesOut, LoopTypeOK, wakerVars
<1>8. QED
  BY <1>1, <1>2, <1>3, <1>4, <1>5, <1>6, <1>7 DEF LoopStep, Waiting, PassEnds

(* One step of the waker, of the daemon or of the operator. *)
LEMMA OutsideStepType ==
    ASSUME LoopTypeOK, WakerStep \/ Change \/ Interrupt
    PROVE  LoopTypeOK'
<1>1. CASE Connect \/ RunFails \/ WakerStops
  BY <1>1 DEF Connect, RunFails, WakerStops, LoopTypeOK, loopVars, history
<1>2. CASE Nudge
  BY <1>2 DEF Nudge, LoopTypeOK, loopVars
<1>3. CASE WakerRetries
  <2>1. Doubled(retry, WakerMax) \in 1..WakerMax
    BY LoopAssumption, DoubledType DEF LoopTypeOK
  <2>2. QED
    BY <1>3, <2>1 DEF WakerRetries, LoopTypeOK, loopVars, history
<1>4. CASE RunEnds
  BY <1>4, LoopAssumption DEF RunEnds, LoopTypeOK, loopVars, history
<1>5. CASE Change
  BY <1>5, LoopAssumption DEF Change, LoopTypeOK, loopVars
<1>6. CASE Interrupt
  BY <1>6 DEF Interrupt, LoopTypeOK, loopVars, wakerVars, history
<1>7. QED
  BY <1>1, <1>2, <1>3, <1>4, <1>5, <1>6 DEF WakerStep

(* Every variable keeps its type, the retry delays of both goroutines      *)
(* never leave their bounds (Loop, startWaker).                            *)
THEOREM LoopTypeCorrect == LoopSpec => []LoopTypeOK
<1>1. LoopInit => LoopTypeOK
  BY LoopInitType
<1>2. LoopTypeOK /\ [LoopNext]_vars => LoopTypeOK'
  <2>1. LoopTypeOK /\ UNCHANGED vars => LoopTypeOK'
    BY DEF vars, loopVars, wakerVars, history, LoopTypeOK
  <2>2. QED
    BY <2>1, LoopStepType, OutsideStepType DEF LoopNext
<1>3. QED
  BY <1>1, <1>2, PTL DEF LoopSpec

(* No nudge is lost, however the waker's sends fall between the loop's     *)
(* receive, its drain and its pass (NudgeKept).                            *)
THEOREM NoNudgeIsLost == LoopSpec => []NudgeKept
<1>1. LoopInit => NudgeKept
  BY DEF LoopInit, NudgeKept
<1>2. NudgeKept /\ [LoopNext]_vars => NudgeKept'
  <2> SUFFICES ASSUME NudgeKept, [LoopNext]_vars PROVE NudgeKept'
    OBVIOUS
  <2>1. CASE TimerFires \/ TakeDone \/ Interrupt \/ Change
    BY <2>1 DEF NudgeKept, TimerFires, TakeDone, Interrupt, Change, loopVars, wakerVars, history
  <2>2. CASE TakeTimer \/ TakeWake \/ DrainOne \/ DrainDone
    BY <2>2 DEF NudgeKept, TakeTimer, TakeWake, DrainOne, DrainDone, BeginSync, loopVars, wakerVars, history
  <2>3. CASE PassEnds
    BY <2>3 DEF NudgeKept, PassEnds, PassSucceeds, PassFails, PassCancelled, PassTimesOut, wakerVars, history
  <2>4. CASE WakerStep
    BY <2>4 DEF NudgeKept, WakerStep, Connect, Nudge, RunFails, WakerRetries, RunEnds, WakerStops,
                loopVars, history
  <2>5. CASE UNCHANGED vars
    BY <2>5 DEF NudgeKept, vars, loopVars, wakerVars, history
  <2>6. QED
    BY <2>1, <2>2, <2>3, <2>4, <2>5 DEF LoopNext, LoopStep, Waiting
<1>3. QED
  BY <1>1, <1>2, PTL DEF LoopSpec

(***************************************************************************)
(* The delays.                                                             *)
(***************************************************************************)

(* 2^n is how many sets of n elements there are; one element more makes as *)
(* many again, those it is in.                                             *)
LEMMA PowerOfTwo ==
    ASSUME NEW n \in Nat
    PROVE  2^n \in Nat /\ 2^(n + 1) = 2 * 2^n
<1> DEFINE S == 1..n
           T == 1..(n + 1)
           With == {A \cup {n + 1} : A \in SUBSET S}
           Add == [A \in SUBSET S |-> A \cup {n + 1}]
<1>1. /\ IsFiniteSet(S) /\ Cardinality(S) = n
      /\ IsFiniteSet(T) /\ Cardinality(T) = n + 1
  BY FS_Interval
<1>2. /\ IsFiniteSet(SUBSET S) /\ Cardinality(SUBSET S) = 2^n
      /\ IsFiniteSet(SUBSET T) /\ Cardinality(SUBSET T) = 2^(n + 1)
  BY <1>1, FS_SUBSET
<1>3. 2^n \in Nat
  BY <1>2, FS_CardinalityType
<1>4. n + 1 \notin S /\ T = S \cup {n + 1}
  OBVIOUS
<1>5. Add \in Bijection(SUBSET S, With)
  <2>1. Add \in [SUBSET S -> With]
    OBVIOUS
  <2>2. ASSUME NEW A \in SUBSET S, NEW B \in SUBSET S, Add[A] = Add[B]
        PROVE  A = B
    <3>1. A \cup {n + 1} = B \cup {n + 1}
      BY <2>2
    <3>2. QED
      BY <1>4, <3>1
  <2>3. \A C \in With : \E A \in SUBSET S : Add[A] = C
    OBVIOUS
  <2>4. QED
    BY <2>1, <2>2, <2>3, Fun_IsBij
<1>6. IsFiniteSet(With) /\ Cardinality(With) = 2^n
  BY <1>2, <1>5, Fun_ExistsBij, FS_Bijection
<1>7. SUBSET T = (SUBSET S) \cup With
  <2>1. ASSUME NEW C \in SUBSET T PROVE C \in SUBSET S \/ C \in With
    <3>1. CASE n + 1 \in C
      <4>1. C \ {n + 1} \in SUBSET S /\ C = (C \ {n + 1}) \cup {n + 1}
        BY <1>4, <3>1
      <4>2. QED
        BY <4>1
    <3>2. CASE n + 1 \notin C
      BY <1>4, <3>2
    <3>3. QED
      BY <3>1, <3>2
  <2>2. \A C \in SUBSET S : C \in SUBSET T
    BY <1>4
  <2>3. \A C \in With : C \in SUBSET T
    BY <1>4
  <2>4. QED
    BY <2>1, <2>2, <2>3
<1>8. (SUBSET S) \cap With = {}
  BY <1>4
<1>9. Cardinality(SUBSET T) = 2^n + 2^n
  <2> HIDE DEF With
  <2>1. Cardinality((SUBSET S) \cup With)
          = Cardinality(SUBSET S) + Cardinality(With) - Cardinality((SUBSET S) \cap With)
    BY <1>2, <1>6, FS_Union
  <2>2. Cardinality((SUBSET S) \cap With) = 0
    BY <1>8, FS_EmptySet
  <2>3. Cardinality((SUBSET S) \cup With) = Cardinality(SUBSET S) + Cardinality(With)
    <3>1. Cardinality(SUBSET S) \in Nat /\ Cardinality(With) \in Nat
      BY <1>2, <1>6, FS_CardinalityType
    <3> HIDE DEF S
    <3>2. QED
      BY <2>1, <2>2, <3>1
  <2> HIDE DEF S, T
  <2>4. QED
    BY <1>2, <1>6, <1>7, <2>3
<1>10. QED
  BY <1>2, <1>3, <1>9

(* Doubling one delay of the sequence gives the next. *)
LEMMA NextDelay ==
    ASSUME NEW n \in Nat, n > 0
    PROVE  Doubled(DelayAfter(n), MaxBackoff) = DelayAfter(n + 1)
<1> DEFINE d == MinBackoff * 2^(n - 1)
           e == MinBackoff * 2^n
<1>1. 2^(n - 1) \in Nat /\ 2^((n - 1) + 1) = 2 * 2^(n - 1)
  BY PowerOfTwo
<1>2. 2^n = 2 * 2^(n - 1)
  <2>1. (n - 1) + 1 = n
    OBVIOUS
  <2>2. QED
    BY <1>1, <2>1
<1>3. d \in Nat /\ e = 2 * d
  BY <1>1, <1>2, LoopAssumption
<1>4. DelayAfter(n) = IF d > MaxBackoff THEN MaxBackoff ELSE d
  BY DEF DelayAfter
<1>5. DelayAfter(n + 1) = IF e > MaxBackoff THEN MaxBackoff ELSE e
  <2>1. (n + 1) - 1 = n
    OBVIOUS
  <2>2. QED
    BY <2>1 DEF DelayAfter
<1> HIDE DEF d, e
<1>6. MaxBackoff \in Nat
  BY LoopAssumption
<1>7. QED
  BY <1>3, <1>4, <1>5, <1>6 DEF Doubled

LEMMA FirstDelay == DelayAfter(1) = MinBackoff
<1>1. 2^(1 - 1) = 1
  OBVIOUS
<1>2. QED
  BY <1>1, LoopAssumption DEF DelayAfter

(* The loop's backoff is the delay of the failure to come. *)
DelayInv ==
    /\ at # "over" => backoff = DelayAfter(fails + 1)
    /\ WaitsItsTurn

(* After the n-th failed pass in a row the loop waits the n-th delay of    *)
(* the doubling sequence, capped, whatever wakes it in between             *)
(* (WaitsItsTurn).                                                         *)
THEOREM FailuresWaitTheirTurn == LoopSpec => []WaitsItsTurn
<1>1. LoopInit => DelayInv
  BY FirstDelay DEF LoopInit, DelayInv, WaitsItsTurn
<1>2. LoopTypeOK /\ DelayInv /\ [LoopNext]_vars => DelayInv'
  <2> SUFFICES ASSUME LoopTypeOK, DelayInv, [LoopNext]_vars PROVE DelayInv'
    OBVIOUS
  <2> USE DEF DelayInv, WaitsItsTurn
  <2>1. CASE UNCHANGED <<at, wait, backoff, fails>>
    BY <2>1
  <2>2. CASE UNCHANGED <<wait, backoff, fails>> /\ at # "over" /\ at' # "select"
    BY <2>2
  <2>3. CASE PassSucceeds
    BY <2>3, FirstDelay DEF PassSucceeds
  <2>4. CASE PassFails
    <3>1. fails \in Nat /\ fails + 1 > 0 /\ at = "sync"
      BY <2>4, LoopAssumption DEF LoopTypeOK, PassFails
    <3>2. backoff = DelayAfter(fails + 1) /\ backoff' = Doubled(backoff, MaxBackoff)
          /\ wait' = backoff /\ fails' = fails + 1
      BY <2>4, <3>1 DEF PassFails, Reset
    <3>3. Doubled(DelayAfter(fails + 1), MaxBackoff) = DelayAfter((fails + 1) + 1)
      BY <3>1, NextDelay
    <3>4. QED
      BY <3>2, <3>3
  <2>5. CASE PassTimesOut
    BY <2>5 DEF PassTimesOut
  <2>6. CASE UNCHANGED vars
    BY <2>1, <2>6 DEF vars, loopVars, history
  <2>7. CASE TimerFires \/ DrainOne \/ WakerStep \/ Change \/ Interrupt
    BY <2>1, <2>7 DEF TimerFires, DrainOne, WakerStep, Connect, Nudge, RunFails, WakerRetries, RunEnds,
                      WakerStops, Change, Interrupt, loopVars, history
  <2>8. CASE TakeDone \/ TakeTimer \/ TakeWake \/ DrainDone \/ PassCancelled
    BY <2>2, <2>8 DEF TakeDone, TakeTimer, TakeWake, DrainDone, PassCancelled, BeginSync, history
  <2>9. QED
    BY <2>3, <2>4, <2>5, <2>6, <2>7, <2>8 DEF LoopNext, LoopStep, Waiting, PassEnds
<1>3. DelayInv => WaitsItsTurn
  BY DEF DelayInv
<1>4. QED
  BY <1>1, <1>2, <1>3, LoopTypeCorrect, PTL DEF LoopSpec
=============================================================================
