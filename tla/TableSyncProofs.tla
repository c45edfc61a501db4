-------------------------- MODULE TableSyncProofs --------------------------
(***************************************************************************)
(* Proofs about TableSync, for every number of rows and versions, every    *)
(* batch, chunk and rescan limit, and any number of failures.              *)
(***************************************************************************)
EXTENDS TableSync, TLAPS

(***************************************************************************)
(* Type correctness.                                                       *)
(***************************************************************************)
LEMMA NoRowType == NoRow \in Version
BY DEF NoRow, Version

LEMMA LegacyType == ASSUME NEW k \in RowId PROVE LegacyRow(k) \in Version
BY BoundAssumption DEF LegacyRow, Version, RowId

LEMMA InitType == Init => TypeOK
<1> SUFFICES ASSUME Init PROVE TypeOK
  OBVIOUS
<1>1. SrcInit /\ PassInit /\ tgt = NoPage /\ wm = 0 /\ faults = 0
  BY DEF Init
<1>2. src \in [RowId -> Version] /\ gone \subseteq RowId
  BY <1>1, NoRowType, LegacyType DEF SrcInit
<1>3. top \in 0..MaxRow /\ now \in Nat
  BY <1>1, BoundAssumption DEF SrcInit
<1>4. page \in [RowId -> Version] /\ tgt \in [RowId -> Version]
  BY <1>1, NoRowType DEF NoPage, PassInit
<1>5. filed \in [RowId -> [1..MaxRev -> 0..FiledCap]]
  BY DEF Init, FiledCap
<1>6. /\ pc \in Steps /\ mark \in Nat /\ next \in Nat /\ full \in BOOLEAN
      /\ stage \in {"advance", "rescan"} /\ chunk \subseteq RowId /\ todo \subseteq RowId
  BY <1>1 DEF PassInit, Steps
<1>7. after \in 0..MaxRow /\ faults \in 0..MaxFaults /\ wm \in Nat
  BY <1>1, BoundAssumption, PassAssumption DEF PassInit
<1>8. QED
  BY <1>2, <1>3, <1>4, <1>5, <1>6, <1>7 DEF TypeOK

(* One committed write of a row. *)
LEMMA WriteType ==
    ASSUME TypeOK, NEW k \in RowId, Write(k)
    PROVE  src' \in [RowId -> Version]
<1>1. PICK settled \in StatesAfter, refused \in RefusedAfter, t \in Stamps :
        \E shown \in ShownAfter(src[k], settled) :
            src' = [src EXCEPT ![k] =
                      [rev |-> src[k].rev + 1, cur |-> CursorAfter(k, src[k], settled, t),
                       settled |-> settled, shown |-> shown, refused |-> refused]]
  BY DEF Write
<1>2. PICK shown \in ShownAfter(src[k], settled) :
            src' = [src EXCEPT ![k] =
                      [rev |-> src[k].rev + 1, cur |-> CursorAfter(k, src[k], settled, t),
                       settled |-> settled, shown |-> shown, refused |-> refused]]
  BY <1>1
<1>3. src[k] \in Version /\ k \in Nat
  BY DEF TypeOK, RowId
<1>4. settled \in BOOLEAN /\ refused \in BOOLEAN /\ t \in Nat
  <2>1. settled \in BOOLEAN
    BY Zenon DEF StatesAfter
  <2>2. refused \in BOOLEAN
    BY Zenon DEF RefusedAfter
  <2>3. t \in Nat
    BY DEF Stamps, TypeOK
  <2>4. QED
    BY <2>1, <2>2, <2>3
<1>5. shown \in BOOLEAN
  BY <1>2, <1>3, <1>4, FilteringAssumption DEF ShownAfter, Filterings, Version
<1>6. CursorAfter(k, src[k], settled, t) \in Nat
  BY <1>3, <1>4, CursorAssumption DEF CursorAfter, CursorColumns, Version
<1>7. [rev |-> src[k].rev + 1, cur |-> CursorAfter(k, src[k], settled, t),
       settled |-> settled, shown |-> shown, refused |-> refused] \in Version
  BY <1>3, <1>4, <1>5, <1>6 DEF Version
<1>8. QED
  BY <1>2, <1>7 DEF TypeOK

LEMMA DaemonType ==
    ASSUME TypeOK, Daemon
    PROVE  src' \in [RowId -> Version] /\ gone' \subseteq RowId /\ top' \in 0..MaxRow /\ now' \in Nat
<1>1. CASE Insert
  <2>1. top + 1 \in RowId /\ top' = top + 1 /\ Write(top + 1)
    BY <1>1, BoundAssumption DEF Insert, TypeOK, RowId
  <2>2. QED
    BY <1>1, <2>1, WriteType DEF Insert, TypeOK, RowId
<1>2. CASE Tick
  BY <1>2 DEF Tick, TypeOK
<1>3. ASSUME NEW k \in RowId, Update(k)
      PROVE  src' \in [RowId -> Version] /\ gone' \subseteq RowId /\ top' \in 0..MaxRow /\ now' \in Nat
  <2>1. src' \in [RowId -> Version]
    BY <1>3, WriteType DEF Update
  <2>2. QED
    BY <1>3, <2>1 DEF Update, TypeOK
<1>4. ASSUME NEW k \in RowId, Prune(k)
      PROVE  src' \in [RowId -> Version] /\ gone' \subseteq RowId /\ top' \in 0..MaxRow /\ now' \in Nat
  BY <1>4 DEF Prune, TypeOK
<1>5. QED
  BY <1>1, <1>2, <1>3, <1>4 DEF Daemon

LEMMA MaxType == TypeOK => MaxCursorValue \subseteq Nat
BY DEF TypeOK, MaxCursorValue, Stamped, Version, Admitted

(* What each step of the sink does to the pass and to the target. *)
LEMMA EndPassType ==
    EndPass => /\ pc' \in Steps /\ mark' \in Nat /\ next' \in Nat /\ full' \in BOOLEAN
               /\ stage' \in {"advance", "rescan"} /\ chunk' \subseteq RowId /\ todo' \subseteq RowId
               /\ after' \in 0..MaxRow /\ page' \in [RowId -> Version]
<1> SUFFICES ASSUME EndPass
             PROVE  /\ pc' \in Steps /\ mark' \in Nat /\ next' \in Nat /\ full' \in BOOLEAN
                    /\ stage' \in {"advance", "rescan"} /\ chunk' \subseteq RowId /\ todo' \subseteq RowId
                    /\ after' \in 0..MaxRow /\ page' \in [RowId -> Version]
  OBVIOUS
<1>1. page' \in [RowId -> Version]
  BY NoRowType DEF EndPass, NoPage
<1>2. after' \in 0..MaxRow
  BY BoundAssumption DEF EndPass
<1>3. QED
  BY <1>1, <1>2 DEF EndPass, Steps

LEMMA LandedType == TypeOK => Landed \in [RowId -> Version]
BY DEF TypeOK, Landed

LEMMA FiledType ==
    ASSUME TypeOK, NEW k \in RowId, NEW r
    PROVE  Filed(k, r) \in [RowId -> [1..MaxRev -> 0..FiledCap]]
<1>1. filed[k] \in [1..MaxRev -> 0..FiledCap]
  BY DEF TypeOK
<1> DEFINE e == IF filed[k][r] < FiledCap THEN filed[k][r] + 1 ELSE filed[k][r]
<1>2. [filed[k] EXCEPT ![r] = e] \in [1..MaxRev -> 0..FiledCap]
  <2>1. ASSUME r \in 1..MaxRev PROVE e \in 0..FiledCap
    <3>1. filed[k][r] \in 0..2
      BY <1>1, <2>1 DEF FiledCap
    <3>2. QED
      BY <3>1 DEF FiledCap
  <2>2. QED
    BY <1>1, <2>1
<1>3. Filed(k, r) = [filed EXCEPT ![k] = [filed[k] EXCEPT ![r] = e]]
  BY DEF Filed
<1>4. QED
  BY <1>2, <1>3 DEF TypeOK

LEMMA ReadPageType ==
    ASSUME TypeOK, ReadPage
    PROVE  TypeOK'
<1>1. PICK P \in SUBSET Selected :
        /\ page' = [k \in RowId |-> IF k \in P THEN src[k] ELSE NoRow]
        /\ full' = (Cardinality(P) = BatchSize)
        /\ \/ P = {} /\ pc' = "drained" /\ after' = after
           \/ P # {} /\ pc' = "write" /\ after' \in P /\ \A k \in P : k <= after'
  BY DEF ReadPage, LastRowID
<1>2. page' \in [RowId -> Version]
  BY <1>1, NoRowType DEF TypeOK
<1>3. full' \in BOOLEAN
  BY <1>1
<1>4. after' \in 0..MaxRow /\ pc' \in Steps
  <2>1. P \subseteq 1..MaxRow
    BY DEF Selected, Admitted, RowId
  <2>2. CASE P = {}
    BY <1>1, <2>2 DEF TypeOK, Steps
  <2>3. CASE P # {}
    <3>1. after' \in P /\ pc' = "write"
      BY <1>1, <2>3
    <3>2. after' \in 1..MaxRow
      BY <2>1, <3>1
    <3>3. QED
      BY <3>1, <3>2, BoundAssumption DEF Steps
  <2>4. QED
    BY <2>2, <2>3
<1>5. UNCHANGED <<srcVars, target, scan, faults>>
  BY DEF ReadPage
<1>6. QED
  BY <1>2, <1>3, <1>4, <1>5 DEF TypeOK, srcVars, target, scan

LEMMA TypeStep == TypeOK /\ [Next]_vars => TypeOK'
<1> SUFFICES ASSUME TypeOK, [Next]_vars PROVE TypeOK'
  OBVIOUS
<1> USE DEF srcVars, target, scan, pass
<1>1. CASE BeginPass
  BY <1>1 DEF BeginPass, TypeOK, Steps
<1>2. CASE ReadMax
  BY <1>2, MaxType DEF ReadMax, TypeOK, Steps
<1>3. CASE Select
  <2>1. todo' \subseteq RowId
    BY <1>3 DEF Select, OpenKeys, AnyUpTo, HeldOpen
  <2>2. QED
    BY <1>3, <2>1, BoundAssumption DEF Select, TypeOK, Steps
<1>4. CASE ReadPage
  BY <1>4, ReadPageType
<1>5. CASE WriteBatch
  BY <1>5, LandedType, NoRowType DEF WriteBatch, TypeOK, Steps, NoPage
<1>6. CASE BatchRefused
  BY <1>6 DEF BatchRefused, TypeOK, Steps
<1>7. ASSUME NEW k \in RowId, IsolateRow(k) PROVE TypeOK'
  BY <1>7, NoRowType DEF IsolateRow, TypeOK
<1>8. ASSUME NEW k \in RowId, Quarantine(k) PROVE TypeOK'
  BY <1>8, NoRowType, FiledType DEF Quarantine, TypeOK
<1>9. ASSUME NEW k \in RowId, RowFault(k) PROVE TypeOK'
  <2>1. tgt' \in [RowId -> Version] /\ page' \in [RowId -> Version]
    BY <1>9, NoRowType DEF RowFault, TypeOK
  <2>2. filed' \in [RowId -> [1..MaxRev -> 0..FiledCap]]
    BY <1>9, FiledType DEF RowFault
  <2>3. faults' \in 0..MaxFaults
    BY <1>9, PassAssumption DEF RowFault, TypeOK
  <2>4. QED
    BY <1>9, <2>1, <2>2, <2>3 DEF RowFault, TypeOK
<1>10. CASE Isolated
  BY <1>10 DEF Isolated, TypeOK, Steps
<1>11. CASE NextPage
  BY <1>11 DEF NextPage, TypeOK, Steps
<1>12. CASE NextSelector
  <2>1. chunk' \subseteq RowId /\ todo' \subseteq RowId
    BY <1>12 DEF NextSelector, AnyUpTo, TypeOK
  <2>2. QED
    BY <1>12, <2>1, BoundAssumption DEF NextSelector, TypeOK, Steps
<1>13. CASE Drained
  BY <1>13 DEF Drained, TypeOK, Steps
<1>14. CASE SetWatermark
  BY <1>14, EndPassType DEF SetWatermark, TypeOK
<1>15. CASE Abort
  BY <1>15, EndPassType, PassAssumption DEF Abort, TypeOK
<1>16. CASE BatchFault
  BY <1>16, LandedType, PassAssumption DEF BatchFault, TypeOK, Steps
<1>17. CASE DaemonStep
  BY <1>17, DaemonType DEF DaemonStep, TypeOK
<1>18. CASE UNCHANGED vars
  BY <1>18 DEF vars, TypeOK
<1>19. QED
  BY <1>1, <1>2, <1>3, <1>4, <1>5, <1>6, <1>7, <1>8, <1>9, <1>10, <1>11, <1>12, <1>13,
     <1>14, <1>15, <1>16, <1>17, <1>18
     DEF Next, Progress, WriteRow, Fault

(* What any step of the sink does to the source and to the target. *)
LEMMA SinkMoves ==
    ASSUME TypeOK, Progress \/ Fault
    PROVE  /\ UNCHANGED srcVars
           /\ \A k \in RowId : tgt'[k] = tgt[k] \/ (Real(page[k]) /\ tgt'[k] = page[k])
           /\ \/ filed' = filed
              \/ \E k \in RowId : Real(page[k]) /\ filed' = Filed(k, page[k].rev)
           /\ ~RowFaults /\ (\A k \in RowId : Real(page[k]) => ~page[k].refused) => filed' = filed
<1>1. CASE BeginPass \/ ReadMax \/ Select \/ ReadPage \/ BatchRefused \/ Isolated \/ NextPage
           \/ NextSelector \/ Drained \/ Abort
  BY <1>1 DEF BeginPass, ReadMax, Select, ReadPage, BatchRefused, Isolated, NextPage,
              NextSelector, Drained, Abort, target
<1>2. CASE SetWatermark
  BY <1>2 DEF SetWatermark
<1>3. CASE WriteBatch \/ BatchFault
  BY <1>3 DEF WriteBatch, BatchFault, Landed, InPage
<1>4. ASSUME NEW k \in RowId, IsolateRow(k) \/ Quarantine(k) \/ RowFault(k)
      PROVE  /\ UNCHANGED srcVars
             /\ \A j \in RowId : tgt'[j] = tgt[j] \/ (Real(page[j]) /\ tgt'[j] = page[j])
             /\ \/ filed' = filed
                \/ \E j \in RowId : Real(page[j]) /\ filed' = Filed(j, page[j].rev)
             /\ ~RowFaults /\ (\A j \in RowId : Real(page[j]) => ~page[j].refused) => filed' = filed
  BY <1>4 DEF IsolateRow, Quarantine, RowFault, Foremost, InPage, TypeOK
<1>5. QED
  BY <1>1, <1>2, <1>3, <1>4 DEF Progress, Fault, WriteRow

(* Every variable of the table, of the target and of the pass keeps its    *)
(* type: a position in the table never leaves it, a page holds versions.   *)
THEOREM TypeCorrect == Spec => []TypeOK
<1>1. QED
  BY InitType, TypeStep, PTL DEF Spec
=============================================================================
