--------------------------- MODULE BackfillProofs ---------------------------
(***************************************************************************)
(* Proofs about Backfill: two processes that write one target and record   *)
(* one watermark, neither of which looks for the other.                    *)
(***************************************************************************)
EXTENDS Backfill, NothingLostProofs

(***************************************************************************)
(* The steps a backfill shares with a pass, in this module's own terms.    *)
(***************************************************************************)
LEMMA ScanNames ==
    /\ Scan!srcVars = srcVars /\ Scan!target = target /\ Scan!Admitted = Admitted
    /\ Scan!RowId = RowId /\ Scan!NoRow = NoRow /\ Scan!NoPage = NoPage
    /\ \A v : Scan!Real(v) = Real(v)
    /\ \A S : Scan!Cardinality(S) = Cardinality(S)
    /\ \A S, P : Scan!FirstOf(S, P) <=> FirstOf(S, P)
    /\ \A k, r : Scan!Filed(k, r) = Filed(k, r)
<1>1. Scan!RowId = RowId /\ Scan!NoRow = NoRow /\ \A v : Scan!Real(v) = Real(v)
  BY DEF Scan!RowId, RowId, Scan!NoRow, NoRow, Scan!Real, Real
<1>2. Scan!NoPage = NoPage
  BY <1>1 DEF Scan!NoPage, NoPage
<1>3. \A k : Scan!Live(k) = Live(k)
  BY <1>1 DEF Scan!Live, Live
<1>4. Scan!Admitted = Admitted
  BY <1>1, <1>3 DEF Scan!Admitted, Admitted
<1>5. \A S : Scan!Cardinality(S) = Cardinality(S)
  BY DEF Scan!Cardinality, Cardinality
<1>6. \A S, P : Scan!FirstOf(S, P) <=> FirstOf(S, P)
  BY <1>5 DEF Scan!FirstOf, FirstOf
<1>7. \A k, r : Scan!Filed(k, r) = Filed(k, r)
  BY DEF Scan!Filed, Filed, Scan!FiledCap, FiledCap
<1>8. Scan!srcVars = srcVars /\ Scan!target = target
  BY DEF Scan!srcVars, srcVars, Scan!target, target
<1>9. QED
  BY <1>1, <1>2, <1>4, <1>5, <1>6, <1>7, <1>8

(* The rows a backfill has yet to read. *)
Unread == {k \in Admitted : k > bafter}

LEMMA ScanReadMax ==
    ASSUME Scan!ReadMax
    PROVE  /\ bpc = "max" /\ bpc' = "select"
           /\ bnext' \in MaxCursorValue \cup {0}
           /\ UNCHANGED <<srcVars, target, bafter, bpage, bfull, faults>>
<1>1. Scan!MaxCursorValue = MaxCursorValue
  BY ScanNames DEF Scan!MaxCursorValue, MaxCursorValue, Scan!Stamped, Stamped
<1>2. QED
  BY <1>1 DEF Scan!ReadMax, Scan!srcVars, srcVars, Scan!target, target

LEMMA ScanReadPage ==
    ASSUME Scan!ReadPage
    PROVE  /\ bpc = "read"
           /\ \E P \in SUBSET Unread :
                /\ FirstOf(Unread, P)
                /\ bpage' = [k \in RowId |-> IF k \in P THEN src[k] ELSE NoRow]
                /\ bfull' = (Cardinality(P) = BatchSize)
                /\ \/ P = {} /\ bpc' = "drained" /\ bafter' = bafter
                   \/ P # {} /\ bpc' = "write" /\ bafter' \in P /\ \A k \in P : k <= bafter'
           /\ UNCHANGED <<srcVars, target, bnext, faults>>
<1>1. Scan!Selected = Unread
  <2>1. \A k : Scan!Advances(src[k], 0)
    BY DEF Scan!Advances
  <2>2. QED
    BY <2>1, ScanNames DEF Scan!Selected, Unread
<1>2. bpc = "read" /\ UNCHANGED <<srcVars, target, bnext, faults>>
  BY DEF Scan!ReadPage, Scan!scan, Scan!srcVars, srcVars, Scan!target, target
<1>3. PICK P \in SUBSET Unread :
        /\ Scan!FirstOf(Unread, P)
        /\ bpage' = [k \in Scan!RowId |-> IF k \in P THEN src[k] ELSE Scan!NoRow]
        /\ bfull' = (Cardinality(P) = BatchSize)
        /\ \/ P = {} /\ bpc' = "drained" /\ bafter' = bafter
           \/ P # {} /\ bpc' = "write" /\ bafter' \in Scan!LastRowID(P)
  BY <1>1, ScanNames DEF Scan!ReadPage
<1>4. bafter' \in Scan!LastRowID(P) => bafter' \in P /\ \A k \in P : k <= bafter'
  BY DEF Scan!LastRowID
<1>5. FirstOf(Unread, P) /\ bpage' = [k \in RowId |-> IF k \in P THEN src[k] ELSE NoRow]
  BY <1>3, ScanNames
<1>6. QED
  BY <1>2, <1>3, <1>4, <1>5

(* All that the write of a page or of one row of it does. *)
ScanWrites ==
    /\ UNCHANGED <<srcVars, wm, bnext, bafter, bfull>>
    /\ \A k \in RowId : tgt'[k] = tgt[k] \/ (Real(bpage[k]) /\ tgt'[k] = bpage[k])
    /\ \/ filed' = filed
       \/ \E k \in RowId : Real(bpage[k]) /\ filed' = Filed(k, bpage[k].rev)
    /\ ~RowFaults /\ (\A k \in RowId : Real(bpage[k]) => ~bpage[k].refused) => filed' = filed

LEMMA ScanWriteBatch ==
    ASSUME BackfillTypeOK, Scan!WriteBatch \/ Scan!BatchFault
    PROVE  /\ ScanWrites
           /\ tgt' \in [RowId -> Version] /\ filed' = filed /\ bpc = "write"
           /\ \/ /\ bpc' = "written" /\ bpage' = NoPage /\ faults' = faults
                 /\ \A k \in RowId : Real(bpage[k]) => tgt'[k] = bpage[k]
              \/ bpc' = "isolate" /\ bpage' = bpage /\ faults < MaxFaults /\ faults' = faults + 1
<1>1. tgt \in [RowId -> Version] /\ bpage \in [RowId -> Version]
  BY DEF BackfillTypeOK, TypeOK
<1> DEFINE L == [k \in RowId |-> IF Real(bpage[k]) THEN bpage[k] ELSE tgt[k]]
<1>2. Scan!Landed = L
  BY ScanNames DEF Scan!Landed, Scan!InPage
<1>3. L \in [RowId -> Version]
  BY <1>1
<1>4. tgt' = L \/ (tgt' = tgt /\ Scan!BatchFault)
  BY <1>2 DEF Scan!WriteBatch, Scan!BatchFault
<1>5. CASE Scan!WriteBatch
  BY <1>1, <1>2, <1>3, <1>5, ScanNames DEF Scan!WriteBatch, Scan!scan, ScanWrites, Scan!srcVars, srcVars
<1>6. CASE Scan!BatchFault
  BY <1>1, <1>3, <1>4, <1>6, ScanNames DEF Scan!BatchFault, Scan!scan, ScanWrites, Scan!srcVars, srcVars
<1>7. QED
  BY <1>5, <1>6

LEMMA ScanWriteRow ==
    ASSUME BackfillTypeOK, NEW i \in Scan!RowId,
           Scan!IsolateRow(i) \/ Scan!Quarantine(i) \/ Scan!RowFault(i)
    PROVE  /\ ScanWrites
           /\ bpc = "isolate" /\ bpc' = "isolate"
           /\ i \in RowId /\ Real(bpage[i]) /\ bpage' = [bpage EXCEPT ![i] = NoRow]
           /\ tgt' \in [RowId -> Version]
           /\ filed' \in [RowId -> [1..MaxRev -> 0..FiledCap]]
           /\ faults' \in 0..MaxFaults
           /\ tgt'[i] = bpage[i] \/ filed' = Filed(i, bpage[i].rev)
<1>1. /\ tgt \in [RowId -> Version] /\ bpage \in [RowId -> Version] /\ i \in RowId
      /\ filed \in [RowId -> [1..MaxRev -> 0..FiledCap]]
      /\ faults \in 0..MaxFaults /\ MaxFaults \in Nat
  BY ScanNames, PassAssumption DEF BackfillTypeOK, TypeOK
<1>2. Filed(i, bpage[i].rev) \in [RowId -> [1..MaxRev -> 0..FiledCap]]
  BY <1>1, FiledType DEF BackfillTypeOK
<1>3. Scan!Foremost(i) => Real(bpage[i])
  BY ScanNames DEF Scan!Foremost, Scan!InPage
<1>4. CASE Scan!IsolateRow(i)
  BY <1>1, <1>3, <1>4, ScanNames DEF Scan!IsolateRow, Scan!scan, ScanWrites, Scan!srcVars, srcVars
<1>5. CASE Scan!Quarantine(i)
  BY <1>1, <1>2, <1>3, <1>5, ScanNames DEF Scan!Quarantine, Scan!scan, ScanWrites, Scan!srcVars, srcVars
<1>6. CASE Scan!RowFault(i)
  <2>1. /\ RowFaults /\ Real(bpage[i]) /\ filed' = Filed(i, bpage[i].rev)
        /\ tgt' = tgt \/ tgt' = [tgt EXCEPT ![i] = bpage[i]]
        /\ bpage' = [bpage EXCEPT ![i] = NoRow]
        /\ faults < MaxFaults /\ faults' = faults + 1
        /\ UNCHANGED <<srcVars, wm, bpc, bnext, bafter, bfull>> /\ bpc = "isolate"
    BY <1>3, <1>6, ScanNames DEF Scan!RowFault, Scan!scan, Scan!srcVars, srcVars
  <2>2. ScanWrites
    BY <1>1, <2>1 DEF ScanWrites
  <2>3. tgt' \in [RowId -> Version]
    BY <1>1, <2>1
  <2>4. filed' \in [RowId -> [1..MaxRev -> 0..FiledCap]]
    BY <1>2, <2>1
  <2>5. faults' \in 0..MaxFaults
    BY <1>1, <2>1
  <2>6. QED
    BY <1>1, <2>1, <2>2, <2>3, <2>4, <2>5
<1>7. QED
  BY <1>4, <1>5, <1>6

LEMMA ScanMovesOn ==
    ASSUME Scan!BatchRefused \/ Scan!Isolated
    PROVE  /\ UNCHANGED <<srcVars, target, bnext, bafter, bpage, bfull, faults>>
           /\ \/ bpc = "write" /\ bpc' = "isolate"
              \/ bpc = "isolate" /\ bpc' = "written" /\ \A k \in RowId : ~Real(bpage[k])
BY ScanNames DEF Scan!BatchRefused, Scan!Isolated, Scan!InPage, Scan!scan, Scan!srcVars, srcVars,
                 Scan!target, target

(***************************************************************************)
(* Type correctness.                                                       *)
(***************************************************************************)
LEMMA ScanType ==
    ASSUME BackfillTypeOK, ScanStep, UNCHANGED <<pass, edits, torn>>
    PROVE  BackfillTypeOK'
<1> USE DEF BackfillTypeOK, TypeOK, srcVars, target, pass, scan
<1>1. CASE Scan!ReadMax
  <2>1. bnext' \in Nat
    BY <1>1, ScanReadMax, MaxType
  <2>2. QED
    BY <1>1, <2>1, ScanReadMax
<1>2. CASE Scan!ReadPage
  <2>1. Unread \subseteq 1..MaxRow
    BY DEF Unread, Admitted, RowId
  <2>2. PICK P \in SUBSET Unread :
           /\ bpage' = [k \in RowId |-> IF k \in P THEN src[k] ELSE NoRow]
           /\ bfull' = (Cardinality(P) = BatchSize)
           /\ \/ P = {} /\ bpc' = "drained" /\ bafter' = bafter
              \/ P # {} /\ bpc' = "write" /\ bafter' \in P
    BY <1>2, ScanReadPage
  <2>3. bpage' \in [RowId -> Version] /\ bfull' \in BOOLEAN
    BY <2>2, NoRowType
  <2>4. bafter' \in 0..MaxRow /\ bpc' \in {"drained", "write"}
    <3>1. \A i \in Unread : i \in 0..MaxRow
      BY <2>1, BoundAssumption
    <3>2. QED
      BY <2>2, <3>1
  <2>5. UNCHANGED <<srcVars, target, bnext, faults>>
    BY <1>2, ScanReadPage
  <2>6. QED
    BY <2>3, <2>4, <2>5
<1>3. CASE Scan!WriteBatch \/ Scan!BatchFault
  <2>1. bpage' \in [RowId -> Version] /\ faults' \in 0..MaxFaults /\ bpc' \in {"written", "isolate"}
    BY <1>3, ScanWriteBatch, NoRowType, PassAssumption DEF NoPage
  <2>2. /\ UNCHANGED <<srcVars, wm, bnext, bafter, bfull, filed>>
        /\ tgt' \in [RowId -> Version]
    BY <1>3, ScanWriteBatch DEF ScanWrites
  <2>3. QED
    BY <2>1, <2>2
<1>4. ASSUME NEW i \in Scan!RowId, Scan!IsolateRow(i) \/ Scan!Quarantine(i) \/ Scan!RowFault(i)
      PROVE  BackfillTypeOK'
  <2>1. /\ UNCHANGED <<srcVars, wm, bnext, bafter, bfull>> /\ bpc' = "isolate"
        /\ i \in RowId /\ bpage' = [bpage EXCEPT ![i] = NoRow]
        /\ tgt' \in [RowId -> Version]
        /\ filed' \in [RowId -> [1..MaxRev -> 0..FiledCap]]
        /\ faults' \in 0..MaxFaults
    BY <1>4, ScanWriteRow DEF ScanWrites
  <2>2. bpage' \in [RowId -> Version]
    BY <2>1, NoRowType
  <2>3. QED
    BY <2>1, <2>2
<1>5. CASE Scan!BatchRefused \/ Scan!Isolated
  BY <1>5, ScanMovesOn
<1>6. QED
  BY <1>1, <1>2, <1>3, <1>4, <1>5, ScanNames DEF ScanStep, Scan!WriteRow

LEMMA BackfillInitType == BackfillInit => BackfillTypeOK
<1> SUFFICES ASSUME BackfillInit PROVE BackfillTypeOK
  OBVIOUS
<1>1. TypeOK
  BY InitType DEF BackfillInit
<1>2. bpage \in [RowId -> Version]
  BY NoRowType DEF BackfillInit, NoPage
<1>3. bafter \in 0..MaxRow /\ edits \in 0..MaxRefilters
  BY BoundAssumption, RefilterAssumption DEF BackfillInit
<1>4. QED
  BY <1>1, <1>2, <1>3 DEF BackfillInit, BackfillTypeOK

LEMMA EndScanType ==
    ASSUME EndScan
    PROVE  /\ bpc' = "idle" /\ bnext' \in Nat /\ bafter' \in 0..MaxRow
           /\ bpage' \in [RowId -> Version] /\ bfull' \in BOOLEAN
<1>1. NoPage \in [RowId -> Version] /\ 0 \in 0..MaxRow
  BY NoRowType, BoundAssumption DEF NoPage
<1>2. QED
  BY <1>1 DEF EndScan

LEMMA BackfillTypeStep == BackfillTypeOK /\ [BackfillNext]_bvars => BackfillTypeOK'
<1> SUFFICES ASSUME BackfillTypeOK, [BackfillNext]_bvars PROVE BackfillTypeOK'
  OBVIOUS
<1> USE DEF pass, scan
<1>1. CASE SyncStep \/ (DaemonStep /\ UNCHANGED <<backfill, torn, edits>>)
  <2>1. TypeOK'
    BY <1>1, TypeStep DEF BackfillTypeOK, SyncStep, Next
  <2>2. QED
    BY <1>1, <2>1 DEF BackfillTypeOK, SyncStep, backfill
<1>2. CASE BackfillStep
  <2>1. UNCHANGED <<pass, edits>>
    BY <1>2 DEF BackfillStep
  <2>2. CASE ScanStep /\ UNCHANGED torn
    BY <2>1, <2>2, ScanType
  <2>3. CASE (BeginBackfill \/ BeginScan) /\ UNCHANGED torn
    BY <2>1, <2>3 DEF BeginBackfill, BeginScan, BackfillTypeOK, TypeOK, srcVars, target
  <2>4. CASE MarkBatch
    BY <2>1, <2>4 DEF MarkBatch, BackfillTypeOK, TypeOK, srcVars
  <2>5. CASE EndBackfill
    BY <2>1, <2>5, EndScanType DEF EndBackfill, BackfillTypeOK, TypeOK, srcVars, target
  <2>6. CASE AbortBackfill
    <3>1. faults' \in 0..MaxFaults
      BY <2>6, PassAssumption DEF AbortBackfill, BackfillTypeOK, TypeOK
    <3>2. QED
      BY <2>1, <2>6, <3>1, EndScanType DEF AbortBackfill, BackfillTypeOK, TypeOK, srcVars, target
  <2>7. QED
    BY <1>2, <2>2, <2>3, <2>4, <2>5, <2>6 DEF BackfillStep
<1>3. CASE Refilter
  <2>1. src' \in [RowId -> Version]
    <3>1. PICK newly \in SUBSET {k \in RowId : Live(k)} :
            src' = [k \in RowId |-> IF Real(src[k]) THEN [src[k] EXCEPT !.shown = k \in newly] ELSE src[k]]
      BY <1>3 DEF Refilter
    <3>2. ASSUME NEW k \in RowId
          PROVE  [src[k] EXCEPT !.shown = k \in newly] \in Version
      <4>1. src[k] \in Version /\ (k \in newly) \in BOOLEAN
        BY DEF BackfillTypeOK, TypeOK
      <4>2. \A b \in BOOLEAN : [src[k] EXCEPT !.shown = b] \in Version
        BY <4>1 DEF Version
      <4>3. QED
        BY <4>1, <4>2
    <3>3. QED
      BY <3>1, <3>2 DEF BackfillTypeOK, TypeOK
  <2>2. edits' \in 0..MaxRefilters
    BY <1>3, RefilterAssumption DEF Refilter, BackfillTypeOK
  <2>3. QED
    BY <1>3, <2>1, <2>2 DEF Refilter, BackfillTypeOK, TypeOK, target, backfill
<1>4. CASE UNCHANGED bvars
  BY <1>4 DEF bvars, vars, srcVars, target, backfill, BackfillTypeOK, TypeOK
<1>5. QED
  BY <1>1, <1>2, <1>3, <1>4 DEF BackfillNext

(* The locals of both processes and all they share keep their types,       *)
(* whatever the table is.                                                  *)
THEOREM BackfillTypeCorrect == BackfillSpec => []BackfillTypeOK
<1>1. QED
  BY BackfillInitType, BackfillTypeStep, PTL DEF BackfillSpec

(***************************************************************************)
(* Nothing is lost for good.                                               *)
(***************************************************************************)

(* The tables the guarantee is proved for.  A row that changes and whose   *)
(* change is found by its cursor is not among them: a page read before the *)
(* change may land over it (RerunIsSafe).  An open_row row may change, for *)
(* what lands over it is either its last version or asked after again.     *)
Rerunnable ==
    \/ Class = "append_only" /\ CursorColumn = "id"
    \/ Class = "open_row" /\ CursorColumn = "id" /\ Filtering = "fixed"
                          /\ ~Refusals /\ ~RowFaults
    \/ Class = "snapshot"

(* v, held by the target or by one of the two processes, is a version row  *)
(* k once had, but for what the filters said of it: the last one if the    *)
(* row was settled in it.                                                  *)
Fits(v, k) ==
    Real(v) =>
        /\ Real(src[k]) /\ v.shown /\ v.rev <= src[k].rev
        /\ v.rev = src[k].rev => v = [src[k] EXCEPT !.shown = TRUE]
        /\ Class = "open_row" /\ v.settled => v.rev = src[k].rev
        /\ ~Refusals => ~v.refused

RowsInv ==
    \A k \in RowId :
        /\ k > top => src[k] = NoRow
        /\ src[k].rev <= MaxRev
        /\ Class = "append_only" => src[k].rev <= 1
        /\ Real(src[k]) /\ CursorColumn = "id" => src[k].cur = k
        /\ ~Refusals => ~src[k].refused

CopiesInv == \A k \in RowId : Fits(tgt[k], k) /\ Fits(page[k], k) /\ Fits(bpage[k], k)

(* mark may differ from wm: the backfill records marks of its own. *)
LocalsInv ==
    /\ CursorColumn = "id" => wm <= top /\ mark <= top /\ next <= top /\ bnext <= top
    /\ ~Refusals /\ ~RowFaults => \A k \in RowId, r \in 1..MaxRev : filed[k][r] = 0
    /\ pc \in {"idle", "max", "select"} => stage = "advance"
    /\ pc \notin {"write", "isolate"} => \A k \in RowId : ~Real(page[k])
    /\ bpc \notin {"write", "isolate"} => \A k \in RowId : ~Real(bpage[k])
    /\ bpc \in {"idle", "max", "select"} => bafter = 0

(* The target or the quarantine has row k, and passes or rescans see to    *)
(* the rest; a snapshot table is read whole by every pass.                 *)
InHand(k) == Real(tgt[k]) \/ Parked(k) \/ Class = "snapshot"

(* Row k is in hand, or a pass that starts from mark w will read it. *)
Kept(k, w) == InHand(k) \/ Advances(src[k], w)

(* The backfill, or the pass, has yet to read row k or has it in its page. *)
ToScan(k) ==
    \/ bpc = "select"
    \/ bpc = "read" /\ k > bafter
    \/ bpc \in {"write", "isolate", "written"} /\ bfull /\ k > bafter
    \/ Real(bpage[k])

ToSync(k) == Ahead(k) \/ Real(page[k])

(* Left to a backfill: to the one running, or to the next. *)
Owed(k) == torn /\ (bpc \in {"idle", "max"} \/ ToScan(k))

(* What the four marks leave out: the one the backfill records after every *)
(* batch, the one recorded, the one a pass starts from and the one it will *)
(* record.                                                                 *)
AfterScan  == bpc \notin {"idle", "max"} => \A k \in Admitted : Kept(k, bnext) \/ ToScan(k)
AfterMark  == \A k \in Admitted : Kept(k, wm) \/ Owed(k)
AfterStart == pc = "max" => \A k \in Admitted : Kept(k, mark) \/ Owed(k)
AfterPass  == pc \notin {"idle", "max"} =>
                  \A k \in Admitted : Kept(k, next) \/ ToSync(k) \/ Owed(k)

BInv == /\ BackfillTypeOK /\ RowsInv /\ CopiesInv /\ LocalsInv
        /\ AfterScan /\ AfterMark /\ AfterStart /\ AfterPass

(* Which says what the runs check. *)
LEMMA HeldOrDone ==
    ASSUME BInv, Rerunnable, NEW k \in Admitted, InHand(k), Class # "snapshot"
    PROVE  Replicated(k) \/ Parked(k) \/ (Class = "open_row" /\ k \in HeldOpen)
<1>1. /\ k \in RowId /\ Real(src[k]) /\ src[k].shown /\ Fits(tgt[k], k)
      /\ src[k] \in Version /\ tgt[k] \in Version
      /\ Class = "append_only" => src[k].rev <= 1
  BY DEF BInv, CopiesInv, Admitted, Live, BackfillTypeOK, TypeOK, RowsInv
<1>2. CASE Real(tgt[k])
  <2>1. tgt[k].rev = src[k].rev => Replicated(k)
    BY <1>1, <1>2 DEF Fits, Version, Replicated
  <2>2. Class = "append_only" => tgt[k].rev = src[k].rev
    BY <1>1, <1>2 DEF Fits, Version, Real
  <2>3. Class = "open_row" /\ tgt[k].settled => tgt[k].rev = src[k].rev
    BY <1>1, <1>2 DEF Fits
  <2>4. QED
    BY <1>1, <1>2, <2>1, <2>2, <2>3 DEF Rerunnable, HeldOpen
<1>3. QED
  BY <1>2 DEF InHand

LEMMA BInvLost == BInv /\ Rerunnable => LostOnlyWhenTorn
<1> SUFFICES ASSUME BInv, Rerunnable, ~torn, NEW k \in Admitted
             PROVE  Replicated(k) \/ Parked(k) \/ Found(k)
  BY DEF LostOnlyWhenTorn, NothingLost
<1>1. Kept(k, wm)
  BY DEF BInv, AfterMark, Owed
<1>2. Class = "snapshot" => Advances(src[k], wm)
  BY DEF Advances
<1>3. QED
  BY <1>1, <1>2, HeldOrDone DEF Kept, Found

LEMMA BInvCovers == BInv /\ Rerunnable => BackfillCovers
<1> SUFFICES ASSUME BInv, Rerunnable, bpc = "drained", NEW k \in Admitted
             PROVE  Replicated(k) \/ Parked(k) \/ Advances(src[k], bnext)
                    \/ (Class = "open_row" /\ k \in HeldOpen)
  BY DEF BackfillCovers
<1>1. k \in RowId /\ ~ToScan(k)
  BY DEF BInv, LocalsInv, ToScan, Admitted
<1>2. Kept(k, bnext)
  BY <1>1 DEF BInv, AfterScan
<1>3. Class = "snapshot" => Advances(src[k], bnext)
  BY DEF Advances
<1>4. QED
  BY <1>2, <1>3, HeldOrDone DEF Kept

LEMMA BackfillInitInv == BackfillInit => BInv
<1> SUFFICES ASSUME BackfillInit PROVE BInv
  OBVIOUS
<1>1. BackfillTypeOK
  BY BackfillInitType
<1>2. /\ Init /\ SrcInit /\ PassInit /\ tgt = NoPage /\ wm = 0
      /\ filed = [k \in RowId |-> [r \in 1..MaxRev |-> 0]]
      /\ bpc = "idle" /\ bnext = 0 /\ bafter = 0 /\ bpage = NoPage
  BY DEF BackfillInit, Init
<1>3. \A k \in RowId : ~Real(page[k]) /\ ~Real(bpage[k]) /\ ~Real(tgt[k])
  BY <1>2 DEF PassInit, NoPage, NoRow, Real
<1>4. RowsInv
  <2>1. SUFFICES ASSUME NEW k \in RowId
                 PROVE  /\ k > top => src[k] = NoRow
                        /\ src[k].rev <= 1
                        /\ Real(src[k]) /\ CursorColumn = "id" => src[k].cur = k
                        /\ ~src[k].refused
    BY BoundAssumption, <1>1 DEF RowsInv, BackfillTypeOK, TypeOK, Version
  <2>2. src[k] = IF k <= Legacy THEN LegacyRow(k) ELSE NoRow
    BY <1>2 DEF SrcInit
  <2>3. top = Legacy /\ k \in Nat /\ Legacy \in Nat
    BY <1>2, BoundAssumption DEF SrcInit, RowId
  <2>4. CASE k <= Legacy
    BY <2>2, <2>3, <2>4 DEF LegacyRow, Real
  <2>5. CASE ~(k <= Legacy)
    BY <2>2, <2>3, <2>5 DEF NoRow, Real
  <2>6. QED
    BY <2>4, <2>5
<1>5. CopiesInv
  BY <1>3 DEF CopiesInv, Fits
<1>6. LocalsInv
  <2>1. /\ wm = 0 /\ mark = 0 /\ next = 0 /\ bnext = 0 /\ 0 <= top /\ pc = "idle"
        /\ stage = "advance" /\ bafter = 0 /\ bpc = "idle"
    BY <1>2, BoundAssumption DEF PassInit, SrcInit
  <2>2. QED
    BY <1>2, <1>3, <2>1 DEF LocalsInv
<1>7. AfterMark
  BY <1>2 DEF AfterMark, Kept, Advances
<1>8. QED
  BY <1>1, <1>2, <1>4, <1>5, <1>6, <1>7 DEF BInv, AfterScan, AfterStart, AfterPass, PassInit

(***************************************************************************)
(* The daemon's steps, and the operator's.                                 *)
(***************************************************************************)

(* What a committed write makes of row k. *)
Moved(k) ==
    /\ src'[k].rev = src[k].rev + 1 /\ src'[k].rev <= MaxRev
    /\ Class = "append_only" => src'[k].rev <= 1
    /\ CursorColumn = "id" => src'[k].cur = k
    /\ ~Refusals => ~src'[k].refused
    /\ \/ src[k] = NoRow /\ k = top + 1 /\ top' = top + 1
       \/ /\ Real(src[k]) /\ k \notin gone /\ Class # "append_only"
          /\ Class = "open_row" => ~src[k].settled
          /\ Filtering = "fixed" => src'[k].shown = src[k].shown

LEMMA DaemonMovesRows ==
    ASSUME TypeOK, RowsInv, Daemon
    PROVE  /\ \A k \in RowId : src'[k] = src[k] \/ Moved(k)
           /\ \A k \in RowId : k > top' => src'[k] = NoRow
           /\ top <= top' /\ gone \subseteq gone'
<1>1. top \in Nat /\ \A k \in RowId : src[k].rev \in Nat
  BY BoundAssumption DEF TypeOK, Version
<1>2. CASE Insert
  <2>1. top + 1 \in RowId /\ top' = top + 1 /\ Write(top + 1) /\ gone' = gone
    BY <1>2, BoundAssumption DEF Insert, TypeOK, RowId
  <2>2. src[top + 1] = NoRow
    BY <1>1, <2>1 DEF RowsInv
  <2>3. Moved(top + 1)
    BY <2>1, <2>2, WriteShape, BoundAssumption DEF Moved, NoRow
  <2>4. \A k \in RowId : k > top' => src'[k] = NoRow
    BY <1>1, <2>1, WriteShape DEF RowsInv, RowId
  <2>5. QED
    BY <1>1, <2>1, <2>3, <2>4, WriteShape
<1>3. CASE Tick
  BY <1>1, <1>3 DEF Tick, RowsInv
<1>4. ASSUME NEW k \in RowId, Update(k)
      PROVE  /\ \A j \in RowId : src'[j] = src[j] \/ Moved(j)
             /\ \A j \in RowId : j > top' => src'[j] = NoRow
             /\ top <= top' /\ gone \subseteq gone'
  <2>1. /\ Write(k) /\ UNCHANGED <<gone, top>> /\ Real(src[k]) /\ k \notin gone
        /\ src[k].rev < MaxRev /\ Class # "append_only"
        /\ Class = "open_row" => ~src[k].settled
    BY <1>4 DEF Update, Live
  <2>2. Moved(k)
    BY <1>1, <2>1, WriteShape, BoundAssumption DEF Moved
  <2>3. k <= top
    BY <1>1, <2>1 DEF RowsInv, NoRow, Real, RowId
  <2>4. QED
    BY <1>1, <2>1, <2>2, <2>3, WriteShape DEF RowsInv, RowId
<1>5. ASSUME NEW k \in RowId, Prune(k)
      PROVE  /\ \A j \in RowId : src'[j] = src[j] \/ Moved(j)
             /\ \A j \in RowId : j > top' => src'[j] = NoRow
             /\ top <= top' /\ gone \subseteq gone'
  BY <1>1, <1>5 DEF Prune, RowsInv
<1>6. QED
  BY <1>2, <1>3, <1>4, <1>5 DEF Daemon

(* A row that moves is beyond every mark, or it was admitted before and as *)
(* well in hand, or as well ahead of its readers, as it was.               *)
LEMMA MovedIsKept ==
    ASSUME BInv, Rerunnable, NEW k \in RowId, Moved(k), k \in Admitted', gone \subseteq gone',
           UNCHANGED <<target, pass, backfill, torn>>
    PROVE  \/ Class = "snapshot" \/ \A w \in 0..top : Advances(src'[k], w)
           \/ /\ k \in Admitted
              /\ InHand(k) => InHand(k)'
              /\ \A w \in Nat : Advances(src[k], w) => Advances(src'[k], w)
<1>1. /\ top \in Nat /\ src[k] \in Version
      /\ CursorColumn = "id" => src'[k].cur = k
      /\ Real(src'[k]) /\ src'[k].shown /\ k \notin gone'
  BY BoundAssumption DEF BInv, BackfillTypeOK, TypeOK, Moved, Admitted, Live
<1>2. CASE CursorColumn = "id" /\ k = top + 1 /\ Class \in {"append_only", "open_row"}
  <2>1. SUFFICES ASSUME NEW w \in 0..top PROVE Advances(src'[k], w)
    OBVIOUS
  <2>2. src'[k].cur > w
    BY <1>1, <1>2
  <2>3. QED
    BY <1>2, <2>2 DEF Advances, Past
<1>3. CASE Class = "open_row" /\ CursorColumn = "id" /\ Filtering = "fixed" /\ ~Refusals /\ ~RowFaults
           /\ k # top + 1
  <2>1. Real(src[k]) /\ k \in Admitted
    BY <1>1, <1>3 DEF Moved, Admitted, Live
  <2>2. src[k].cur = k /\ src'[k].cur = k
    <3>1. RowsInv
      BY DEF BInv
    <3>2. QED
      BY <1>1, <1>3, <2>1, <3>1 DEF RowsInv
  <2>3. src[k].rev \in 1..MaxRev
    BY <2>1, BoundAssumption DEF BInv, RowsInv, BackfillTypeOK, TypeOK, Version, Real
  <2>4. ~Parked(k)
    BY <1>3, <2>3 DEF BInv, LocalsInv, Parked
  <2>5. QED
    BY <1>3, <2>1, <2>2, <2>4 DEF InHand, Advances, Past, target
<1>4. QED
  BY <1>2, <1>3 DEF Rerunnable, Moved

LEMMA DaemonKeeps ==
    ASSUME BInv, BackfillTypeOK', Rerunnable, Daemon, UNCHANGED <<target, pass, faults, backfill, torn, edits>>
    PROVE  BInv'
<1>1. /\ \A k \in RowId : src'[k] = src[k] \/ Moved(k)
      /\ \A k \in RowId : k > top' => src'[k] = NoRow
      /\ top <= top' /\ gone \subseteq gone'
  BY DaemonMovesRows DEF BInv, BackfillTypeOK
<1>2. RowsInv'
  BY <1>1 DEF BInv, RowsInv, Moved
<1>3. UNCHANGED <<tgt, filed, wm, pc, mark, next, stage, after, page, full, bpc, bnext, bafter, bpage, bfull>>
  BY DEF target, pass, scan, backfill
<1>4. CopiesInv'
  <2>1. ASSUME NEW k \in RowId, NEW v \in Version, Fits(v, k)
        PROVE  Fits(v, k)'
    <3>1. CASE src'[k] = src[k]
      BY <2>1, <3>1 DEF Fits
    <3>2. CASE Moved(k)
      <4>1. src[k].rev \in Nat /\ v.rev \in Nat
        BY DEF BInv, BackfillTypeOK, TypeOK, Version
      <4>2. Real(v) => Real(src[k])
        BY <2>1 DEF Fits
      <4>3. src[k] = NoRow => ~Real(src[k])
        BY DEF NoRow, Real
      <4>4. Class = "open_row" /\ Real(v) /\ v.settled => src[k].settled
        BY <2>1 DEF Fits, BInv, BackfillTypeOK, TypeOK, Version
      <4>5. QED
        BY <2>1, <3>2, <4>1, <4>2, <4>3, <4>4 DEF Fits, Moved, Real
    <3>3. QED
      BY <1>1, <3>1, <3>2
  <2>2. QED
    BY <1>3, <2>1 DEF BInv, CopiesInv, BackfillTypeOK, TypeOK
<1>5. LocalsInv'
  <2>1. top \in Nat /\ top' \in Nat /\ wm \in Nat /\ mark \in Nat /\ next \in Nat /\ bnext \in Nat
    BY BoundAssumption DEF BInv, BackfillTypeOK, TypeOK
  <2>2. QED
    BY <1>1, <1>3, <2>1 DEF BInv, LocalsInv
<1>6. ASSUME NEW k \in RowId, k \in Admitted'
      PROVE  \/ Class = "snapshot" \/ \A w \in 0..top : Advances(src'[k], w)
             \/ /\ k \in Admitted
                /\ InHand(k) => InHand(k)'
                /\ \A w \in Nat : Advances(src[k], w) => Advances(src'[k], w)
                /\ Ahead(k) => Ahead(k)'
  <2>1. mark \in Nat
    BY DEF BInv, BackfillTypeOK, TypeOK
  <2>2. CASE src'[k] = src[k]
    BY <1>1, <1>3, <1>6, <2>2 DEF Admitted, Live, InHand, Parked, Ahead
  <2>3. CASE Moved(k)
    BY <1>1, <1>3, <1>6, <2>1, <2>3, MovedIsKept DEF Ahead
  <2>4. QED
    BY <1>1, <2>2, <2>3
<1>7. CASE CursorColumn # "id"
  <2>1. Class = "snapshot"
    BY <1>7 DEF Rerunnable
  <2>2. QED
    BY <1>2, <1>4, <1>5, <2>1 DEF BInv, AfterScan, AfterMark, AfterStart, AfterPass, Kept, InHand
<1>8. CASE CursorColumn = "id"
  <2>1. /\ wm \in 0..top /\ mark \in 0..top /\ next \in 0..top /\ bnext \in 0..top
        /\ wm \in Nat /\ mark \in Nat /\ next \in Nat /\ bnext \in Nat
    BY <1>8, BoundAssumption DEF BInv, LocalsInv, BackfillTypeOK, TypeOK
  <2>8. Class = "snapshot" => \A k : InHand(k)'
    BY DEF InHand
  <2>2. \A k \in RowId : /\ ToScan(k) => ToScan(k)'
                         /\ Owed(k) => Owed(k)'
                         /\ Real(page[k]) => Real(page'[k])
    BY <1>3 DEF ToScan, Owed
  <2>3. AfterScan'
    <3>1. SUFFICES ASSUME bpc' \notin {"idle", "max"}, NEW k \in RowId, k \in Admitted'
                   PROVE  Kept(k, bnext)' \/ ToScan(k)'
      BY DEF AfterScan, Admitted
    <3>2. QED
      BY <1>3, <1>6, <2>1, <2>2, <2>8, <3>1 DEF BInv, AfterScan, Kept
  <2>4. AfterMark'
    <3>1. SUFFICES ASSUME NEW k \in RowId, k \in Admitted'
                   PROVE  Kept(k, wm)' \/ Owed(k)'
      BY DEF AfterMark, Admitted
    <3>2. QED
      BY <1>3, <1>6, <2>1, <2>2, <2>8, <3>1 DEF BInv, AfterMark, Kept
  <2>5. AfterStart'
    <3>1. SUFFICES ASSUME pc' = "max", NEW k \in RowId, k \in Admitted'
                   PROVE  Kept(k, mark)' \/ Owed(k)'
      BY DEF AfterStart, Admitted
    <3>2. QED
      BY <1>3, <1>6, <2>1, <2>2, <2>8, <3>1 DEF BInv, AfterStart, Kept
  <2>6. AfterPass'
    <3>1. SUFFICES ASSUME pc' \notin {"idle", "max"}, NEW k \in RowId, k \in Admitted'
                   PROVE  Kept(k, next)' \/ ToSync(k)' \/ Owed(k)'
      BY DEF AfterPass, Admitted
    <3>2. QED
      BY <1>3, <1>6, <2>1, <2>2, <2>8, <3>1 DEF BInv, AfterPass, ToSync, Kept
  <2>7. QED
    BY <1>2, <1>4, <1>5, <2>3, <2>4, <2>5, <2>6 DEF BInv
<1>9. QED
  BY <1>7, <1>8

(* The operator's: with both processes stopped, everything is owed. *)
LEMMA RefilterKeeps ==
    ASSUME BInv, BackfillTypeOK', Refilter
    PROVE  BInv'
<1>1. PICK newly \in SUBSET {k \in RowId : Live(k)} :
        src' = [k \in RowId |-> IF Real(src[k]) THEN [src[k] EXCEPT !.shown = k \in newly] ELSE src[k]]
  BY DEF Refilter
<1>2. /\ pc = "idle" /\ bpc = "idle" /\ torn' /\ top' = top
      /\ UNCHANGED <<tgt, filed, wm, pc, mark, next, stage, after, page, full, bpc, bnext, bafter, bpage, bfull>>
  BY DEF Refilter, target, pass, scan, backfill
<1>3. ASSUME NEW k \in RowId
      PROVE  /\ src'[k].rev = src[k].rev /\ src'[k].cur = src[k].cur
             /\ src'[k].refused = src[k].refused
             /\ [src'[k] EXCEPT !.shown = TRUE] = [src[k] EXCEPT !.shown = TRUE]
             /\ ~Real(src[k]) => src'[k] = src[k]
  <2>1. src[k] \in Version
    BY DEF BInv, BackfillTypeOK, TypeOK
  <2>2. CASE ~Real(src[k])
    BY <1>1, <2>2
  <2>3. CASE Real(src[k])
    <3>1. src'[k] = [src[k] EXCEPT !.shown = k \in newly]
      BY <1>1, <2>3
    <3>2. QED
      BY <2>1, <2>3, <3>1 DEF Version
  <2>4. QED
    BY <2>2, <2>3
<1>4. RowsInv'
  <2>1. RowsInv
    BY DEF BInv
  <2>2. ~Real(NoRow)
    BY DEF NoRow, Real
  <2>3. QED
    BY <1>2, <1>3, <2>1, <2>2 DEF RowsInv, Real
<1>5. CopiesInv'
  <2>1. \A k \in RowId : \A v : Fits(v, k) => Fits(v, k)'
    BY <1>3 DEF Fits, Real
  <2>2. QED
    BY <1>2, <2>1 DEF BInv, CopiesInv
<1>6. LocalsInv'
  BY <1>2 DEF BInv, LocalsInv
<1>7. AfterMark'
  BY <1>2 DEF AfterMark, Owed
<1>8. QED
  BY <1>2, <1>4, <1>5, <1>6, <1>7 DEF BInv, AfterScan, AfterStart, AfterPass

(***************************************************************************)
(* What the two processes have in common: the writes of a page p.          *)
(***************************************************************************)
LEMMA FiledGrows ==
    ASSUME BInv, NEW p, NEW i \in RowId, p \in Version, Real(p), Fits(p, i),
           filed' = Filed(i, p.rev)
    PROVE  /\ p.rev \in 1..MaxRev /\ filed'[i][p.rev] > 0
           /\ \A k \in RowId, r \in 1..MaxRev : filed[k][r] > 0 => filed'[k][r] > 0
<1>1. p.rev \in Nat /\ p.rev > 0 /\ p.rev <= src[i].rev /\ src[i].rev \in Nat /\ src[i].rev <= MaxRev
  BY DEF Fits, Real, Version, BInv, RowsInv, BackfillTypeOK, TypeOK
<1>2. p.rev \in 1..MaxRev
  BY <1>1, BoundAssumption
<1>3. QED
  BY <1>2, Filing DEF BInv, BackfillTypeOK

LEMMA WritesKeep ==
    ASSUME BInv, UNCHANGED srcVars, NEW p \in [RowId -> Version], \A k \in RowId : Fits(p[k], k),
           \A k \in RowId : tgt'[k] = tgt[k] \/ (Real(p[k]) /\ tgt'[k] = p[k]),
           filed' = filed \/ \E k \in RowId : Real(p[k]) /\ filed' = Filed(k, p[k].rev),
           ~RowFaults /\ (\A k \in RowId : Real(p[k]) => ~p[k].refused) => filed' = filed
    PROVE  /\ RowsInv' /\ Admitted' = Admitted
           /\ \A k \in RowId : Fits(tgt[k], k)'
           /\ \A k \in Admitted : InHand(k) => InHand(k)'
           /\ ~Refusals /\ ~RowFaults => \A k \in RowId, r \in 1..MaxRev : filed'[k][r] = 0
<1>1. RowsInv' /\ Admitted' = Admitted
  BY DEF BInv, RowsInv, srcVars, Admitted, Live
<1>2. ASSUME NEW k \in RowId
      PROVE  Fits(tgt[k], k)'
  BY DEF BInv, CopiesInv, Fits, srcVars
<1>3. \A k \in RowId, r \in 1..MaxRev : filed[k][r] > 0 => filed'[k][r] > 0
  BY FiledGrows
<1>4. ASSUME NEW k \in Admitted, InHand(k)
      PROVE  InHand(k)'
  <2>1. k \in RowId /\ src'[k] = src[k] /\ src[k].rev \in 1..MaxRev
    BY BoundAssumption DEF Admitted, Live, Real, srcVars, BInv, RowsInv, BackfillTypeOK, TypeOK, Version
  <2>2. Real(tgt[k]) => Real(tgt'[k])
    BY <2>1
  <2>3. QED
    BY <1>3, <1>4, <2>1, <2>2 DEF InHand, Parked
<1>5. ASSUME ~Refusals, ~RowFaults
      PROVE  \A k \in RowId, r \in 1..MaxRev : filed'[k][r] = 0
  <2>1. \A k \in RowId : Real(p[k]) => ~p[k].refused
    BY <1>5 DEF Fits
  <2>2. QED
    BY <1>5, <2>1 DEF BInv, LocalsInv
<1>6. QED
  BY <1>1, <1>2, <1>4, <1>5

(* A row whose write was tried is in hand: written, or filed. *)
LEMMA TriedIsInHand ==
    ASSUME BInv, Rerunnable, UNCHANGED srcVars, NEW k \in Admitted, NEW v \in Version,
           Real(v), Fits(v, k), tgt'[k] = v \/ filed' = Filed(k, v.rev),
           ~Refusals /\ ~RowFaults => \A i \in RowId, r \in 1..MaxRev : filed'[i][r] = 0
    PROVE  InHand(k)'
<1>1. k \in RowId /\ Real(src[k]) /\ src'[k] = src[k]
  BY DEF Admitted, Live, srcVars
<1>2. CASE tgt'[k] = v
  BY <1>2 DEF InHand
<1>3. CASE filed' = Filed(k, v.rev)
  <2>1. v.rev \in 1..MaxRev /\ filed'[k][v.rev] > 0
    BY <1>1, <1>3, FiledGrows
  <2>2. CASE Class = "append_only"
    <3>1. src[k].rev \in Nat /\ src[k].rev <= 1 /\ v.rev <= src[k].rev
      BY <1>1, <2>2 DEF BInv, RowsInv, Fits, BackfillTypeOK, TypeOK, Version
    <3>2. v.rev = src[k].rev
      BY <2>1, <3>1, BoundAssumption
    <3>3. QED
      BY <1>1, <2>1, <3>2 DEF InHand, Parked
  <2>3. CASE ~Refusals /\ ~RowFaults
    BY <1>1, <2>1, <2>3
  <2>4. CASE Class = "snapshot"
    BY <2>4 DEF InHand
  <2>5. QED
    BY <2>2, <2>3, <2>4 DEF Rerunnable
<1>4. QED
  BY <1>2, <1>3

(* A page takes over every row it passes; a short one leaves none beyond.  *)
LEMMA PageTakesOver ==
    ASSUME NEW S, NEW P \in SUBSET S, S \subseteq RowId, FirstOf(S, P), NEW k \in S, k \notin P
    PROVE  /\ P # {} /\ Cardinality(P) = BatchSize
           /\ \A i \in P : k > i
<1>1. Cardinality(P) = BatchSize
  BY DEF FirstOf
<1>2. P # {}
  BY <1>1, FS_EmptySet, PassAssumption
<1>3. \A i \in P : i < k /\ i \in Nat /\ k \in Nat
  BY DEF FirstOf, RowId
<1>4. QED
  BY <1>1, <1>2, <1>3

(* What a page reads fits. *)
LEMMA ReadFits ==
    ASSUME BInv, NEW k \in Admitted
    PROVE  Fits(src[k], k)
<1>1. src[k] \in Version /\ src[k].shown /\ Real(src[k]) /\ (~Refusals => ~src[k].refused)
  BY DEF Admitted, Live, BInv, RowsInv, BackfillTypeOK, TypeOK
<1>2. \A v \in Version : v.shown => v = [v EXCEPT !.shown = TRUE] /\ v.rev <= v.rev
  BY DEF Version
<1>3. QED
  BY <1>1, <1>2 DEF Fits

(* No mark is beyond the rows there are. *)
LEMMA MaxIsInTable ==
    ASSUME BInv, CursorColumn = "id", NEW m \in MaxCursorValue \cup {0}
    PROVE  m <= top
<1>1. top \in Nat
  BY BoundAssumption DEF BInv, BackfillTypeOK, TypeOK
<1>2. ASSUME NEW c \in Stamped
      PROVE  c <= top
  <2>1. PICK k \in RowId : Real(src[k]) /\ c = src[k].cur
    BY DEF Stamped, Admitted, Live
  <2>2. c = k /\ ~(k > top)
    BY <2>1 DEF BInv, RowsInv, NoRow, Real
  <2>3. QED
    BY <1>1, <2>2 DEF RowId
<1>3. QED
  BY <1>1, <1>2 DEF MaxCursorValue

(***************************************************************************)
(* The steps of a pass, beside a backfill.                                 *)
(***************************************************************************)
LEMMA SyncPages ==
    ASSUME BInv, Progress \/ Fault
    PROVE  /\ \A k \in RowId : \/ page'[k] = page[k] \/ ~Real(page'[k])
                               \/ k \in Admitted /\ page'[k] = src[k]
           /\ pc' \notin {"write", "isolate"} => \A k \in RowId : ~Real(page'[k])
           /\ pc' \in {"idle", "max", "select"} => stage' = "advance"
<1> USE DEF BInv, LocalsInv, scan
<1>1. ~Real(NoRow) /\ page \in [RowId -> Version]
  BY DEF NoRow, Real, BackfillTypeOK, TypeOK
<1>2. CASE BeginPass \/ ReadMax \/ Select \/ BatchRefused \/ Isolated \/ NextPage \/ NextSelector \/ Drained
  BY <1>2 DEF BeginPass, ReadMax, Select, BatchRefused, Isolated, InPage, NextPage, NextSelector, Drained
<1>3. CASE ReadPage
  <2>1. PICK P \in SUBSET Selected :
          /\ page' = [k \in RowId |-> IF k \in P THEN src[k] ELSE NoRow]
          /\ \/ P = {} /\ pc' = "drained"
             \/ P # {} /\ pc' = "write"
    BY <1>3 DEF ReadPage
  <2>2. P \subseteq Admitted
    BY DEF Selected
  <2>3. QED
    BY <1>1, <2>1, <2>2
<1>4. CASE WriteBatch \/ BatchFault
  BY <1>1, <1>4 DEF WriteBatch, BatchFault, NoPage
<1>5. ASSUME NEW i \in RowId, IsolateRow(i) \/ Quarantine(i) \/ RowFault(i)
      PROVE  /\ \A k \in RowId : page'[k] = page[k] \/ ~Real(page'[k])
             /\ pc' = "isolate"
  BY <1>1, <1>5 DEF IsolateRow, Quarantine, RowFault
<1>6. CASE SetWatermark \/ Abort
  BY <1>1, <1>6 DEF SetWatermark, Abort, EndPass, NoPage
<1>7. QED
  BY <1>2, <1>3, <1>4, <1>5, <1>6 DEF Progress, Fault, WriteRow

LEMMA SyncMarks ==
    ASSUME BInv, Progress \/ Fault
    PROVE  /\ CursorColumn = "id" => wm' <= top /\ mark' <= top /\ next' <= top
           /\ wm' = wm \/ (pc = "mark" /\ wm' = next /\ pc' = "idle")
           /\ pc' = "max" => pc = "idle" /\ mark' = wm
           /\ pc' \notin {"idle", "max"} =>
                 \/ pc = "max" /\ pc' = "select" /\ stage' = "advance" /\ mark' = mark
                 \/ pc \notin {"idle", "max"} /\ next' = next /\ mark' = mark
<1> USE DEF scan, target
<1>1. CursorColumn = "id" => /\ wm <= top /\ mark <= top /\ next <= top /\ 0 <= top
                             /\ \A m \in MaxCursorValue \cup {0} : m <= top
  BY MaxIsInTable, BoundAssumption DEF BInv, LocalsInv, BackfillTypeOK, TypeOK
<1>2. CASE BeginPass
  BY <1>1, <1>2 DEF BeginPass
<1>3. CASE ReadMax
  BY <1>1, <1>3 DEF ReadMax, BInv, LocalsInv
<1>4. CASE Select \/ ReadPage \/ BatchRefused \/ Isolated \/ NextPage \/ NextSelector \/ Drained
           \/ WriteBatch \/ BatchFault
  BY <1>1, <1>4 DEF Select, ReadPage, BatchRefused, Isolated, NextPage, NextSelector, Drained,
                    WriteBatch, BatchFault
<1>5. ASSUME NEW i \in RowId, IsolateRow(i) \/ Quarantine(i) \/ RowFault(i)
      PROVE  UNCHANGED <<wm, mark, next>> /\ pc = "isolate" /\ pc' = "isolate"
  BY <1>5 DEF IsolateRow, Quarantine, RowFault
<1>6. CASE SetWatermark \/ Abort
  BY <1>1, <1>6 DEF SetWatermark, Abort, EndPass
<1>7. QED
  BY <1>1, <1>2, <1>3, <1>4, <1>5, <1>6 DEF Progress, Fault, WriteRow

(* What a pass has yet to do, it does or has yet to do. *)
LEMMA SyncOnward ==
    ASSUME BInv, Rerunnable, Progress \/ Fault, UNCHANGED srcVars, Admitted' = Admitted,
           ~Refusals /\ ~RowFaults => \A i \in RowId, r \in 1..MaxRev : filed'[i][r] = 0,
           pc \notin {"idle", "max"}, pc' # "idle", NEW k \in Admitted, ToSync(k)
    PROVE  ToSync(k)' \/ InHand(k)'
<1> USE DEF scan
<1>1. /\ k \in RowId /\ k \in Nat /\ k > 0 /\ src'[k] = src[k] /\ Real(src[k])
      /\ page[k] \in Version /\ Fits(page[k], k) /\ page \in [RowId -> Version]
      /\ pc \notin {"write", "isolate"} => ~Real(page[k])
  BY DEF Admitted, Live, RowId, srcVars, BInv, CopiesInv, BackfillTypeOK, TypeOK, LocalsInv
<1>2. CASE Select
  BY <1>1, <1>2 DEF Select, ToSync, Ahead
<1>3. CASE ReadPage
  <2>1. PICK P \in SUBSET Selected :
          /\ FirstOf(Selected, P)
          /\ page' = [j \in RowId |-> IF j \in P THEN src[j] ELSE NoRow]
          /\ full' = (Cardinality(P) = BatchSize)
          /\ \/ P = {} /\ pc' = "drained" /\ after' = after
             \/ P # {} /\ pc' = "write" /\ after' \in P
    BY <1>3 DEF ReadPage, LastRowID
  <2>2. Ahead(k) /\ k \in Selected /\ Selected \subseteq RowId
    BY <1>1, <1>3 DEF ReadPage, ToSync, Ahead, Selected, Admitted
  <2>3. CASE k \in P
    BY <1>1, <2>1, <2>3 DEF ToSync
  <2>4. CASE k \notin P
    <3>1. P # {} /\ Cardinality(P) = BatchSize /\ \A i \in P : k > i
      BY <2>1, <2>2, <2>4, PageTakesOver
    <3>2. pc' = "write" /\ after' \in P /\ full' = TRUE
      BY <2>1, <3>1
    <3>3. QED
      BY <1>1, <1>3, <2>2, <3>1, <3>2 DEF ReadPage, ToSync, Ahead
  <2>5. QED
    BY <2>3, <2>4
<1>4. CASE WriteBatch
  <2>1. Real(page[k]) => tgt'[k] = page[k]
    BY <1>1, <1>4 DEF WriteBatch, Landed, InPage
  <2>2. QED
    BY <1>1, <1>4, <2>1 DEF WriteBatch, ToSync, Ahead, InHand
<1>5. CASE BatchRefused \/ BatchFault
  BY <1>1, <1>5 DEF BatchRefused, BatchFault, ToSync, Ahead
<1>6. ASSUME NEW i \in RowId, IsolateRow(i) \/ Quarantine(i) \/ RowFault(i)
      PROVE  ToSync(k)' \/ InHand(k)'
  <2>1. /\ pc = "isolate" /\ pc' = "isolate" /\ UNCHANGED <<mark, stage, after, full>>
        /\ page' = [page EXCEPT ![i] = NoRow] /\ Real(page[i])
        /\ tgt'[i] = page[i] \/ filed' = Filed(i, page[i].rev)
    BY <1>6 DEF IsolateRow, Quarantine, RowFault, Foremost, InPage, BInv, BackfillTypeOK, TypeOK
  <2>2. Ahead(k) => Ahead(k)'
    BY <1>1, <2>1 DEF Ahead
  <2>3. CASE k = i
    BY <1>1, <2>1, <2>3, TriedIsInHand
  <2>4. CASE k # i
    BY <1>1, <2>1, <2>2, <2>4 DEF ToSync
  <2>5. QED
    BY <2>3, <2>4
<1>7. CASE Isolated
  BY <1>1, <1>7 DEF Isolated, InPage, ToSync, Ahead
<1>8. CASE NextPage
  BY <1>1, <1>8 DEF NextPage, ToSync, Ahead
<1>9. CASE NextSelector \/ Drained
  BY <1>1, <1>9 DEF NextSelector, Drained, ToSync, Ahead
<1>10. CASE BeginPass \/ ReadMax \/ SetWatermark \/ Abort
  BY <1>10 DEF BeginPass, ReadMax, SetWatermark, Abort, EndPass
<1>11. QED
  BY <1>2, <1>3, <1>4, <1>5, <1>6, <1>7, <1>8, <1>9, <1>10 DEF Progress, Fault, WriteRow

LEMMA SyncKeeps ==
    ASSUME BInv, BackfillTypeOK', Rerunnable, SyncStep
    PROVE  BInv'
<1>1. /\ Progress \/ Fault
      /\ UNCHANGED <<bpc, bnext, bafter, bpage, bfull, torn>>
  BY DEF SyncStep, backfill
<1>2. /\ UNCHANGED srcVars /\ page \in [RowId -> Version] /\ \A k \in RowId : Fits(page[k], k)
      /\ \A k \in RowId : tgt'[k] = tgt[k] \/ (Real(page[k]) /\ tgt'[k] = page[k])
      /\ filed' = filed \/ \E k \in RowId : Real(page[k]) /\ filed' = Filed(k, page[k].rev)
      /\ ~RowFaults /\ (\A k \in RowId : Real(page[k]) => ~page[k].refused) => filed' = filed
  BY <1>1, SinkMoves DEF BInv, BackfillTypeOK, TypeOK, CopiesInv
<1>3. /\ RowsInv' /\ Admitted' = Admitted
      /\ \A k \in RowId : Fits(tgt[k], k)'
      /\ \A k \in Admitted : InHand(k) => InHand(k)'
      /\ ~Refusals /\ ~RowFaults => \A k \in RowId, r \in 1..MaxRev : filed'[k][r] = 0
  BY <1>2, WritesKeep
<1>4. src' = src /\ top' = top
  BY <1>2 DEF srcVars
<1>5. CopiesInv'
  <2>1. SUFFICES ASSUME NEW k \in RowId
                 PROVE  Fits(page[k], k)' /\ Fits(bpage[k], k)'
    BY <1>3 DEF CopiesInv
  <2>2. Fits(bpage[k], k)'
    BY <1>1, <1>4 DEF Fits, BInv, CopiesInv
  <2>3. CASE page'[k] = page[k] \/ ~Real(page'[k])
    BY <1>2, <1>4, <2>2, <2>3 DEF Fits
  <2>4. CASE k \in Admitted /\ page'[k] = src[k]
    <3>1. Fits(src[k], k)
      BY <2>4, ReadFits
    <3>2. QED
      BY <1>4, <2>2, <2>4, <3>1 DEF Fits
  <2>5. QED
    BY <1>1, <2>3, <2>4, SyncPages
<1>6. LocalsInv'
  <2>1. CursorColumn = "id" => bnext' <= top'
    BY <1>1, <1>4 DEF BInv, LocalsInv
  <2>2. /\ bpc' \notin {"write", "isolate"} => \A k \in RowId : ~Real(bpage'[k])
        /\ bpc' \in {"idle", "max", "select"} => bafter' = 0
    BY <1>1 DEF BInv, LocalsInv
  <2>3. QED
    BY <1>1, <1>3, <1>4, <2>1, <2>2, SyncPages, SyncMarks DEF LocalsInv
<1>7. \A k \in RowId : /\ ToScan(k)' <=> ToScan(k)
                       /\ Owed(k)' <=> Owed(k)
  BY <1>1 DEF ToScan, Owed
<1>8. AfterScan'
  BY <1>1, <1>3, <1>4, <1>7 DEF BInv, AfterScan, Kept, Admitted
<1>9. AfterMark'
  <2>1. SUFFICES ASSUME NEW k \in Admitted
                 PROVE  (Kept(k, wm) \/ Owed(k))'
    BY <1>3 DEF AfterMark
  <2>2. k \in RowId
    BY DEF Admitted
  <2>3. CASE wm' = wm
    BY <1>3, <1>4, <1>7, <2>2, <2>3 DEF BInv, AfterMark, Kept
  <2>4. CASE pc = "mark" /\ wm' = next
    <3>1. ~ToSync(k)
      BY <2>2, <2>4 DEF BInv, LocalsInv, ToSync, Ahead
    <3>2. Kept(k, next) \/ Owed(k)
      BY <2>4, <3>1 DEF BInv, AfterPass
    <3>3. QED
      BY <1>3, <1>4, <1>7, <2>2, <2>4, <3>2 DEF Kept
  <2>5. QED
    BY <1>1, <2>3, <2>4, SyncMarks
<1>10. AfterStart'
  <2>1. SUFFICES ASSUME NEW k \in Admitted, pc' = "max"
                 PROVE  (Kept(k, mark) \/ Owed(k))'
    BY <1>3 DEF AfterStart
  <2>2. k \in RowId /\ mark' = wm
    BY <1>1, <2>1, SyncMarks DEF Admitted
  <2>3. QED
    BY <1>3, <1>4, <1>7, <2>2 DEF BInv, AfterMark, Kept
<1>11. AfterPass'
  <2>1. SUFFICES ASSUME NEW k \in Admitted, pc' \notin {"idle", "max"}
                 PROVE  (Kept(k, next) \/ ToSync(k) \/ Owed(k))'
    BY <1>3 DEF AfterPass
  <2>2. k \in RowId
    BY DEF Admitted
  <2>3. CASE pc = "max" /\ pc' = "select" /\ stage' = "advance" /\ mark' = mark
    <3>1. Kept(k, mark) \/ Owed(k)
      BY <2>3 DEF BInv, AfterStart
    <3>2. QED
      BY <1>3, <1>4, <1>7, <2>2, <2>3, <3>1 DEF Kept, ToSync, Ahead
  <2>4. CASE pc \notin {"idle", "max"} /\ next' = next
    <3>1. Kept(k, next) \/ ToSync(k) \/ Owed(k)
      BY <2>4 DEF BInv, AfterPass
    <3>2. ToSync(k) => ToSync(k)' \/ InHand(k)'
      BY <1>1, <1>2, <1>3, <2>1, <2>4, SyncOnward
    <3>3. QED
      BY <1>3, <1>4, <1>7, <2>2, <2>4, <3>1, <3>2 DEF Kept
  <2>5. QED
    BY <1>1, <2>1, <2>3, <2>4, SyncMarks
<1>12. QED
  BY <1>3, <1>5, <1>6, <1>8, <1>9, <1>10, <1>11 DEF BInv

(***************************************************************************)
(* The steps of a backfill, beside a pass.                                 *)
(***************************************************************************)

(* A step that reads or writes, and records nothing. *)
Scanning == BeginScan \/ ScanStep

LEMMA ScanKeeps ==
    ASSUME BInv, Scanning
    PROVE  /\ RowsInv' /\ Admitted' = Admitted /\ UNCHANGED <<srcVars, wm>>
           /\ \A k \in RowId : Fits(tgt[k], k)'
           /\ \A k \in Admitted : InHand(k) => InHand(k)'
           /\ ~Refusals /\ ~RowFaults => \A k \in RowId, r \in 1..MaxRev : filed'[k][r] = 0
<1>1. BackfillTypeOK /\ bpage \in [RowId -> Version] /\ \A k \in RowId : Fits(bpage[k], k)
  BY DEF BInv, BackfillTypeOK, CopiesInv
<1>2. /\ UNCHANGED <<srcVars, wm>>
      /\ \A k \in RowId : tgt'[k] = tgt[k] \/ (Real(bpage[k]) /\ tgt'[k] = bpage[k])
      /\ filed' = filed \/ \E k \in RowId : Real(bpage[k]) /\ filed' = Filed(k, bpage[k].rev)
      /\ ~RowFaults /\ (\A k \in RowId : Real(bpage[k]) => ~bpage[k].refused) => filed' = filed
  <2>1. CASE BeginScan
    BY <2>1 DEF BeginScan, target
  <2>2. CASE Scan!ReadMax
    BY <2>2, ScanReadMax DEF target
  <2>3. CASE Scan!ReadPage
    BY <2>3, ScanReadPage DEF target
  <2>4. CASE Scan!WriteBatch \/ Scan!BatchFault
    BY <1>1, <2>4, ScanWriteBatch DEF ScanWrites
  <2>5. ASSUME NEW i \in Scan!RowId, Scan!IsolateRow(i) \/ Scan!Quarantine(i) \/ Scan!RowFault(i)
        PROVE  ScanWrites
    BY <1>1, <2>5, ScanWriteRow
  <2>6. CASE Scan!BatchRefused \/ Scan!Isolated
    BY <2>6, ScanMovesOn DEF target
  <2>7. QED
    BY <2>1, <2>2, <2>3, <2>4, <2>5, <2>6, ScanNames DEF Scanning, ScanStep, Scan!WriteRow, ScanWrites
<1>3. QED
  BY <1>1, <1>2, WritesKeep

LEMMA ScanPages ==
    ASSUME BInv, Scanning
    PROVE  /\ \A k \in RowId : \/ bpage'[k] = bpage[k] \/ ~Real(bpage'[k])
                               \/ k \in Admitted /\ bpage'[k] = src[k]
           /\ bpc' \notin {"write", "isolate"} => \A k \in RowId : ~Real(bpage'[k])
           /\ bpc' \in {"idle", "max", "select"} => bafter' = 0
           /\ CursorColumn = "id" => bnext' <= top
           /\ bpc' \notin {"idle", "max"}
           /\ bpc' = "select" \/ (bpc \notin {"idle", "max"} /\ bnext' = bnext)
<1> USE DEF LocalsInv
<1>1. ~Real(NoRow) /\ bpage \in [RowId -> Version] /\ LocalsInv /\ BackfillTypeOK
  BY DEF NoRow, Real, BInv, BackfillTypeOK, TypeOK
<1>2. CASE BeginScan
  BY <1>1, <1>2 DEF BeginScan
<1>3. CASE Scan!ReadMax
  BY <1>1, <1>3, ScanReadMax, MaxIsInTable
<1>4. CASE Scan!ReadPage
  <2>1. PICK P \in SUBSET Unread :
          /\ bpage' = [k \in RowId |-> IF k \in P THEN src[k] ELSE NoRow]
          /\ \/ P = {} /\ bpc' = "drained"
             \/ P # {} /\ bpc' = "write"
    BY <1>4, ScanReadPage
  <2>2. P \subseteq Admitted /\ bpc = "read" /\ bnext' = bnext
    BY <1>4, ScanReadPage DEF Unread
  <2>3. QED
    BY <1>1, <2>1, <2>2
<1>5. CASE Scan!WriteBatch \/ Scan!BatchFault
  <2>1. /\ bpc = "write" /\ bnext' = bnext
        /\ \/ bpc' = "written" /\ bpage' = NoPage
           \/ bpc' = "isolate" /\ bpage' = bpage
    BY <1>1, <1>5, ScanWriteBatch DEF ScanWrites
  <2>2. QED
    BY <1>1, <2>1 DEF NoPage
<1>6. ASSUME NEW i \in Scan!RowId, Scan!IsolateRow(i) \/ Scan!Quarantine(i) \/ Scan!RowFault(i)
      PROVE  /\ \A k \in RowId : bpage'[k] = bpage[k] \/ ~Real(bpage'[k])
             /\ bpc = "isolate" /\ bpc' = "isolate" /\ bnext' = bnext
  <2>1. /\ bpc = "isolate" /\ bpc' = "isolate" /\ bnext' = bnext
        /\ bpage' = [bpage EXCEPT ![i] = NoRow]
    BY <1>1, <1>6, ScanWriteRow DEF ScanWrites
  <2>2. QED
    BY <1>1, <2>1
<1>7. CASE Scan!BatchRefused \/ Scan!Isolated
  BY <1>1, <1>7, ScanMovesOn
<1>8. QED
  BY <1>1, <1>2, <1>3, <1>4, <1>5, <1>6, <1>7, ScanNames DEF Scanning, ScanStep, Scan!WriteRow

(* What a backfill has yet to do, it does or has yet to do. *)
LEMMA ScanOnward ==
    ASSUME BInv, Rerunnable, Scanning, NEW k \in Admitted, ToScan(k)
    PROVE  ToScan(k)' \/ InHand(k)'
<1>1. /\ k \in RowId /\ k \in Nat /\ k > 0 /\ Real(src[k])
      /\ bpage[k] \in Version /\ Fits(bpage[k], k) /\ bpage \in [RowId -> Version]
      /\ bpc \notin {"write", "isolate"} => ~Real(bpage[k])
      /\ bpc = "select" => bafter = 0
      /\ BackfillTypeOK
  BY DEF Admitted, Live, RowId, BInv, CopiesInv, BackfillTypeOK, TypeOK, LocalsInv
<1>2. CASE BeginScan
  BY <1>1, <1>2 DEF BeginScan, ToScan
<1>3. CASE Scan!ReadMax
  BY <1>3, ScanReadMax DEF ToScan
<1>4. CASE Scan!ReadPage
  <2>1. PICK P \in SUBSET Unread :
          /\ FirstOf(Unread, P)
          /\ bpage' = [j \in RowId |-> IF j \in P THEN src[j] ELSE NoRow]
          /\ bfull' = (Cardinality(P) = BatchSize)
          /\ \/ P = {} /\ bpc' = "drained" /\ bafter' = bafter
             \/ P # {} /\ bpc' = "write" /\ bafter' \in P
    BY <1>4, ScanReadPage
  <2>2. bpc = "read"
    BY <1>4, ScanReadPage
  <2>3. k \in Unread /\ Unread \subseteq RowId
    BY <1>1, <2>2 DEF ToScan, Unread, Admitted
  <2>4. CASE k \in P
    BY <1>1, <2>1, <2>4 DEF ToScan
  <2>5. CASE k \notin P
    <3>1. P # {} /\ Cardinality(P) = BatchSize /\ \A i \in P : k > i
      BY <2>1, <2>3, <2>5, PageTakesOver
    <3>2. bpc' = "write" /\ bafter' \in P /\ bfull' = TRUE
      BY <2>1, <3>1
    <3>3. QED
      BY <3>1, <3>2 DEF ToScan
  <2>6. QED
    BY <2>4, <2>5
<1>5. CASE Scan!WriteBatch \/ Scan!BatchFault
  <2>1. /\ bpc = "write" /\ UNCHANGED <<bafter, bfull>>
        /\ \/ bpc' = "written" /\ \A j \in RowId : Real(bpage[j]) => tgt'[j] = bpage[j]
           \/ bpc' = "isolate" /\ bpage' = bpage
    BY <1>1, <1>5, ScanWriteBatch DEF ScanWrites
  <2>2. QED
    BY <1>1, <2>1 DEF ToScan, InHand
<1>6. ASSUME NEW i \in Scan!RowId, Scan!IsolateRow(i) \/ Scan!Quarantine(i) \/ Scan!RowFault(i)
      PROVE  ToScan(k)' \/ InHand(k)'
  <2>1. /\ bpc = "isolate" /\ bpc' = "isolate" /\ UNCHANGED <<srcVars, bafter, bfull>>
        /\ i \in RowId /\ Real(bpage[i]) /\ bpage' = [bpage EXCEPT ![i] = NoRow]
        /\ tgt'[i] = bpage[i] \/ filed' = Filed(i, bpage[i].rev)
    BY <1>1, <1>6, ScanWriteRow DEF ScanWrites
  <2>2. ~Refusals /\ ~RowFaults => \A j \in RowId, r \in 1..MaxRev : filed'[j][r] = 0
    BY ScanKeeps
  <2>3. CASE k = i
    BY <1>1, <2>1, <2>2, <2>3, TriedIsInHand
  <2>4. CASE k # i
    BY <1>1, <2>1, <2>4 DEF ToScan
  <2>5. QED
    BY <2>3, <2>4
<1>7. CASE Scan!BatchRefused \/ Scan!Isolated
  BY <1>1, <1>7, ScanMovesOn DEF ToScan
<1>8. QED
  BY <1>2, <1>3, <1>4, <1>5, <1>6, <1>7, ScanNames DEF Scanning, ScanStep, Scan!WriteRow

LEMMA ScanningKeeps ==
    ASSUME BInv, BackfillTypeOK', Rerunnable, Scanning, UNCHANGED <<pass, torn, edits>>
    PROVE  BInv'
<1>1. /\ RowsInv' /\ Admitted' = Admitted /\ src' = src /\ top' = top /\ wm' = wm
      /\ \A k \in RowId : Fits(tgt[k], k)'
      /\ \A k \in Admitted : InHand(k) => InHand(k)'
      /\ ~Refusals /\ ~RowFaults => \A k \in RowId, r \in 1..MaxRev : filed'[k][r] = 0
  BY ScanKeeps DEF srcVars
<1>2. UNCHANGED <<pc, mark, next, stage, after, page, full, torn>>
  BY DEF pass, scan
<1>3. CopiesInv'
  <2>1. SUFFICES ASSUME NEW k \in RowId
                 PROVE  Fits(page[k], k)' /\ Fits(bpage[k], k)'
    BY <1>1 DEF CopiesInv
  <2>2. Fits(page[k], k)'
    BY <1>1, <1>2 DEF Fits, BInv, CopiesInv
  <2>3. CASE bpage'[k] = bpage[k] \/ ~Real(bpage'[k])
    BY <1>1, <2>2, <2>3 DEF Fits, BInv, CopiesInv
  <2>4. CASE k \in Admitted /\ bpage'[k] = src[k]
    <3>1. Fits(src[k], k)
      BY <2>4, ReadFits
    <3>2. QED
      BY <1>1, <2>2, <2>4, <3>1 DEF Fits
  <2>5. QED
    BY <2>3, <2>4, ScanPages
<1>4. LocalsInv'
  <2>1. LocalsInv
    BY DEF BInv
  <2>2. QED
    BY <1>1, <1>2, <2>1, ScanPages DEF LocalsInv
<1>5. ASSUME NEW k \in Admitted
      PROVE  /\ Owed(k) => Owed(k)' \/ InHand(k)'
             /\ Ahead(k)' <=> Ahead(k)
  <2>1. CASE bpc \in {"idle", "max"}
    <3>1. bpc' = "select"
      BY <2>1, ScanPages
    <3>2. QED
      BY <1>1, <1>2, <3>1 DEF Owed, ToScan, Ahead
  <2>2. CASE ToScan(k)
    BY <1>1, <1>2, <2>2, ScanOnward DEF Owed, Ahead
  <2>3. QED
    BY <1>1, <1>2, <2>1, <2>2 DEF Owed, Ahead
<1>6. AfterScan'
  <2>1. SUFFICES ASSUME NEW k \in Admitted
                 PROVE  (Kept(k, bnext) \/ ToScan(k))'
    BY <1>1 DEF AfterScan
  <2>2. CASE bpc' = "select"
    BY <2>2 DEF ToScan
  <2>3. CASE bpc \notin {"idle", "max"} /\ bnext' = bnext
    BY <1>1, <2>3, ScanOnward DEF BInv, AfterScan, Kept
  <2>4. QED
    BY <2>2, <2>3, ScanPages
<1>7. AfterMark'
  BY <1>1, <1>5 DEF BInv, AfterMark, Kept
<1>8. AfterStart'
  BY <1>1, <1>2, <1>5 DEF BInv, AfterStart, Kept
<1>9. AfterPass'
  BY <1>1, <1>2, <1>5 DEF BInv, AfterPass, Kept, ToSync
<1>10. QED
  BY <1>1, <1>3, <1>4, <1>6, <1>7, <1>8, <1>9 DEF BInv

(* A batch is in, and its mark is recorded: beyond it are the rows the     *)
(* backfill has yet to read, if the batch was full, and none otherwise.    *)
LEMMA MarkingKeeps ==
    ASSUME BInv, BackfillTypeOK', MarkBatch, UNCHANGED pass
    PROVE  BInv'
<1>1. /\ bpc = "written" /\ wm' = bnext /\ torn' = (torn \/ bfull)
      /\ bpc' = IF bfull THEN "read" ELSE "drained"
      /\ UNCHANGED <<src, gone, top, tgt, filed, bnext, bafter, bpage, bfull,
                     pc, mark, next, stage, after, page, full>>
  BY DEF MarkBatch, srcVars, pass, scan
<1>2. torn \in BOOLEAN /\ bfull \in BOOLEAN /\ \A k \in RowId : ~Real(bpage[k])
  BY <1>1 DEF BInv, BackfillTypeOK, LocalsInv
<1>3. RowsInv' /\ CopiesInv'
  BY <1>1 DEF BInv, RowsInv, CopiesInv, Fits
<1>4. LocalsInv'
  BY <1>1, <1>2 DEF BInv, LocalsInv
<1>5. Admitted' = Admitted /\ \A k : (InHand(k)' <=> InHand(k)) /\ (ToSync(k)' <=> ToSync(k))
  BY <1>1 DEF Admitted, Live, InHand, Parked, ToSync, Ahead
<1>6. ASSUME NEW k \in Admitted
      PROVE  /\ ToScan(k) => ToScan(k)' /\ Owed(k)'
             /\ Owed(k) => Owed(k)'
  <2>1. k \in RowId
    BY DEF Admitted
  <2>2. ToScan(k) => bfull /\ k > bafter
    BY <1>1, <1>2, <2>1 DEF ToScan
  <2>3. ToScan(k) => ToScan(k)'
    BY <1>1, <2>2 DEF ToScan
  <2>4. ToScan(k) => torn' /\ ToScan(k)'
    BY <1>1, <2>2, <2>3
  <2>5. QED
    BY <1>1, <2>4 DEF Owed
<1>7. AfterScan'
  BY <1>1, <1>5, <1>6 DEF BInv, AfterScan, Kept
<1>8. AfterMark'
  BY <1>1, <1>5, <1>6 DEF BInv, AfterScan, AfterMark, Kept
<1>9. AfterStart'
  BY <1>1, <1>5, <1>6 DEF BInv, AfterStart, Kept
<1>10. AfterPass'
  BY <1>1, <1>5, <1>6 DEF BInv, AfterPass, Kept
<1>11. QED
  BY <1>3, <1>4, <1>7, <1>8, <1>9, <1>10 DEF BInv

(* A backfill begins, ends or dies.  One that ends owes nothing. *)
LEMMA BoundaryKeeps ==
    ASSUME BInv, BackfillTypeOK', UNCHANGED pass,
           (BeginBackfill /\ UNCHANGED torn) \/ EndBackfill \/ AbortBackfill
    PROVE  BInv'
<1>1. UNCHANGED <<src, gone, top, tgt, filed, wm, pc, mark, next, stage, after, page, full>>
  BY DEF BeginBackfill, EndBackfill, AbortBackfill, srcVars, target, pass, scan
<1>2. /\ bpc' \in {"idle", "max"} /\ bafter' = 0
      /\ \A k \in RowId : ~Real(bpage'[k])
      /\ CursorColumn = "id" => bnext' <= top
  <2>1. CASE BeginBackfill
    BY <2>1 DEF BeginBackfill, BInv, LocalsInv
  <2>2. CASE EndBackfill \/ AbortBackfill
    <3>1. 0 <= top
      BY BoundAssumption DEF BInv, BackfillTypeOK, TypeOK
    <3>2. QED
      BY <2>2, <3>1 DEF EndBackfill, AbortBackfill, EndScan, NoPage, NoRow, Real
  <2>3. QED
    BY <2>1, <2>2
<1>3. RowsInv' /\ CopiesInv'
  <2>1. \A k \in RowId : Fits(bpage'[k], k)
    BY <1>2 DEF Fits
  <2>2. QED
    BY <1>1, <2>1 DEF BInv, RowsInv, CopiesInv, Fits
<1>4. LocalsInv'
  BY <1>1, <1>2 DEF BInv, LocalsInv
<1>5. /\ Admitted' = Admitted
      /\ \A k : (InHand(k)' <=> InHand(k)) /\ (ToSync(k)' <=> ToSync(k))
  BY <1>1 DEF Admitted, Live, InHand, Parked, ToSync, Ahead
<1>6. ASSUME NEW k \in Admitted, Owed(k)
      PROVE  Owed(k)'
  <2>1. CASE EndBackfill
    <3>1. ~Real(bpage[k]) /\ bpc = "drained"
      BY <2>1 DEF EndBackfill, BInv, LocalsInv, Admitted
    <3>2. QED
      BY <1>6, <3>1 DEF Owed, ToScan
  <2>2. CASE ~EndBackfill
    BY <1>2, <1>6, <2>2 DEF Owed, AbortBackfill
  <2>3. QED
    BY <2>1, <2>2
<1>7. AfterScan'
  BY <1>2 DEF AfterScan
<1>8. AfterMark'
  BY <1>1, <1>5, <1>6 DEF BInv, AfterMark, Kept
<1>9. AfterStart'
  BY <1>1, <1>5, <1>6 DEF BInv, AfterStart, Kept
<1>10. AfterPass'
  BY <1>1, <1>5, <1>6 DEF BInv, AfterPass, Kept
<1>11. QED
  BY <1>3, <1>4, <1>7, <1>8, <1>9, <1>10 DEF BInv

LEMMA BackfillInvStep == Rerunnable /\ BInv /\ [BackfillNext]_bvars => BInv'
<1> SUFFICES ASSUME Rerunnable, BInv, [BackfillNext]_bvars PROVE BInv'
  OBVIOUS
<1>1. BackfillTypeOK'
  BY BackfillTypeStep DEF BInv
<1>2. CASE SyncStep
  BY <1>1, <1>2, SyncKeeps
<1>3. CASE DaemonStep /\ UNCHANGED <<backfill, torn, edits>>
  BY <1>1, <1>3, DaemonKeeps DEF DaemonStep
<1>4. CASE Refilter
  BY <1>1, <1>4, RefilterKeeps
<1>5. CASE BackfillStep
  BY <1>1, <1>5, ScanningKeeps, MarkingKeeps, BoundaryKeeps DEF BackfillStep, Scanning
<1>6. CASE UNCHANGED bvars
  <2>1. UNCHANGED <<src, gone, top, tgt, filed, wm, pc, mark, next, stage, after, page, full,
                    bpc, bnext, bafter, bpage, bfull, torn>>
    BY <1>6 DEF bvars, vars, srcVars, target, pass, scan, backfill
  <2>2. RowsInv' /\ CopiesInv' /\ LocalsInv'
    BY <2>1 DEF BInv, RowsInv, CopiesInv, Fits, LocalsInv
  <2>3. AfterScan' /\ AfterMark' /\ AfterStart' /\ AfterPass'
    BY <2>1 DEF BInv, AfterScan, AfterMark, AfterStart, AfterPass, Kept, InHand, Parked, Owed,
                ToScan, ToSync, Ahead, Admitted, Live
  <2>4. QED
    BY <1>1, <2>2, <2>3 DEF BInv
<1>7. QED
  BY <1>2, <1>3, <1>4, <1>5, <1>6 DEF BackfillNext

(* A backfill cut short and a change of filters are all that loses rows,   *)
(* and a backfill that ends brings them back: whatever the interleaving of *)
(* the two processes, whichever records its mark last, and however often   *)
(* either dies.                                                            *)
THEOREM BackfillRepairs == ASSUME Rerunnable PROVE BackfillSpec => []LostOnlyWhenTorn
<1>1. BackfillInit => BInv
  BY BackfillInitInv
<1>2. BInv /\ [BackfillNext]_bvars => BInv'
  BY BackfillInvStep
<1>3. BInv => LostOnlyWhenTorn
  BY BInvLost
<1>4. QED
  BY <1>1, <1>2, <1>3, PTL DEF BackfillSpec

(* At its last page a backfill has covered the table up to its own mark,   *)
(* beside a pass and a daemon that write.                                  *)
THEOREM BackfillReachesAll == ASSUME Rerunnable PROVE BackfillSpec => []BackfillCovers
<1>1. BackfillInit => BInv
  BY BackfillInitInv
<1>2. BInv /\ [BackfillNext]_bvars => BInv'
  BY BackfillInvStep
<1>3. BInv => BackfillCovers
  BY BInvCovers
<1>4. QED
  BY <1>1, <1>2, <1>3, PTL DEF BackfillSpec
=============================================================================
