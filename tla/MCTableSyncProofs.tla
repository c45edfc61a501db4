------------------------- MODULE MCTableSyncProofs -------------------------
(***************************************************************************)
(* What a pass promises, beyond losing nothing: that it implements the     *)
(* archive of Replica, and that one which completes is as fresh as the     *)
(* source was when it began.  Both rest on the invariant of NothingIsLost. *)
(***************************************************************************)
EXTENDS NothingLostProofs, MCTableSync

LEMMA InvHolds == ASSUME Followable PROVE Spec => []IInv
<1>1. QED
  BY InitInv, StepInv, PTL DEF Spec

LEMMA HistoryHides == MCSpec => Spec
<1>1. MCInit => Init
  BY DEF MCInit
<1>2. [MCNext]_<<vars, due>> => [Next]_vars
  BY DEF MCNext
<1>3. QED
  BY <1>1, <1>2, PTL DEF MCSpec, Spec

(***************************************************************************)
(* The refinement.                                                         *)
(***************************************************************************)
LEMMA PromiseInit == Init => Promise!Init
<1> SUFFICES ASSUME Init PROVE Promise!Init
  OBVIOUS
<1>1. TypeOK /\ tgt = NoPage /\ wm = 0 /\ filed = [k \in RowId |-> [r \in 1..MaxRev |-> 0]]
  BY InitType DEF Init
<1>2. \A k \in RowId : src[k].rev \in Nat
  BY <1>1 DEF TypeOK, Version
<1>3. [k \in RowId |-> src[k].rev] \in [RowId -> Nat]
  BY <1>2
<1>4. [k \in RowId |-> tgt[k].rev] = [k \in RowId |-> 0]
  BY <1>1 DEF NoPage, NoRow
<1>5. [k \in RowId |-> {r \in 1..MaxRev : filed[k][r] > 0}] = [k \in RowId |-> {}]
  <2>1. ASSUME NEW k \in RowId PROVE {r \in 1..MaxRev : filed[k][r] > 0} = {}
    BY <1>1
  <2>2. QED
    BY <2>1
<1>6. {k \in Admitted : Found(k)} = Admitted
  BY <1>1 DEF Found, Advances
<1>7. Admitted \subseteq RowId
  BY DEF Admitted
<1>8. QED
  BY <1>3, <1>4, <1>5, <1>6, <1>7 DEF Promise!Init

(* Whatever has not arrived is within reach of the next pass. *)
LEMMA TrackIsKept ==
    ASSUME TypeOK', SourceInv', NothingLost'
    PROVE  Promise!KeepsTrack
<1>1. ASSUME NEW k \in RowId, k \in Admitted', tgt'[k].rev # src'[k].rev,
             src'[k].rev \notin {r \in 1..MaxRev : filed'[k][r] > 0}
      PROVE  Found(k)'
  <2>1. src'[k].rev \in 1..MaxRev
    <3>1. src'[k].rev \in Nat /\ src'[k].rev > 0 /\ src'[k].rev <= MaxRev
      BY <1>1 DEF Admitted, Live, Real, TypeOK, SourceInv, Version
    <3>2. QED
      BY <3>1, BoundAssumption
  <2>2. ~Parked(k)'
    BY <1>1, <2>1 DEF Parked
  <2>3. ~Replicated(k)'
    BY <1>1 DEF Replicated
  <2>4. QED
    BY <1>1, <2>2, <2>3 DEF NothingLost
<1>2. Promise!Outstanding' \subseteq {k \in Admitted : Found(k)}'
  BY <1>1 DEF Promise!Outstanding, Admitted
<1>3. QED
  BY <1>2 DEF Promise!KeepsTrack

LEMMA SinkTransfers ==
    ASSUME IInv, Progress \/ Fault
    PROVE  Promise!Transfer
<1>1. TypeOK /\ SourceInv /\ CopyInv
  BY DEF IInv
<1>2. /\ UNCHANGED srcVars
      /\ \A k \in RowId : tgt'[k] = tgt[k] \/ (Real(page[k]) /\ tgt'[k] = page[k])
      /\ filed' = filed \/ \E k \in RowId : Real(page[k]) /\ filed' = Filed(k, page[k].rev)
  BY <1>1, SinkMoves
<1>3. ASSUME NEW k \in RowId
      PROVE  tgt'[k].rev = tgt[k].rev \/ tgt'[k].rev \in (tgt[k].rev + 1)..src[k].rev
  <2>1. /\ tgt[k].rev \in Nat /\ page[k].rev \in Nat /\ src[k].rev \in Nat
        /\ Real(page[k]) => tgt[k].rev <= page[k].rev /\ page[k].rev <= src[k].rev
    BY <1>1 DEF TypeOK, Version, CopyInv, CopyOf
  <2>2. QED
    BY <1>2, <2>1
<1>4. ASSUME NEW k \in RowId
      PROVE  /\ {r \in 1..MaxRev : filed[k][r] > 0} \subseteq {r \in 1..MaxRev : filed'[k][r] > 0}
             /\ {r \in 1..MaxRev : filed'[k][r] > 0}
                  \subseteq {r \in 1..MaxRev : filed[k][r] > 0} \cup 1..src[k].rev
  <2>1. CASE filed' = filed
    BY <2>1
  <2>2. ASSUME NEW i \in RowId, Real(page[i]), filed' = Filed(i, page[i].rev)
        PROVE  /\ \A r \in 1..MaxRev : filed[k][r] > 0 => filed'[k][r] > 0
               /\ \A r \in 1..MaxRev : filed'[k][r] > 0 => filed[k][r] > 0 \/ r \in 1..src[k].rev
    <3>1. /\ page[i].rev \in Nat /\ src[i].rev \in Nat /\ page[i].rev > 0
          /\ page[i].rev <= src[i].rev /\ src[i].rev <= MaxRev
      BY <1>1, <2>2 DEF TypeOK, Version, CopyInv, CopyOf, SourceInv, Real
    <3>2. page[i].rev \in 1..MaxRev
      BY <3>1, BoundAssumption
    <3>3. \A r \in 1..MaxRev : filed[k][r] > 0 => filed'[k][r] > 0
      BY <1>1, <2>2, <3>2, Filing
    <3>4. ASSUME NEW r \in 1..MaxRev, ~(k = i /\ r = page[i].rev)
          PROVE  filed'[k][r] = filed[k][r]
      <4>1. filed \in [RowId -> [1..MaxRev -> 0..FiledCap]]
        BY <1>1 DEF TypeOK
      <4>2. CASE k # i
        BY <2>2, <4>1, <4>2 DEF Filed
      <4>3. CASE k = i /\ r # page[i].rev
        <5>1. filed[k] \in [1..MaxRev -> 0..FiledCap]
          BY <4>1
        <5>2. filed'[k] = [filed[k] EXCEPT ![page[i].rev] =
                             IF filed[k][page[i].rev] < FiledCap THEN filed[k][page[i].rev] + 1 ELSE filed[k][page[i].rev]]
          BY <2>2, <4>1, <4>3 DEF Filed
        <5>3. QED
          BY <4>3, <5>1, <5>2
      <4>4. QED
        BY <3>4, <4>2, <4>3
    <3>5. k = i => page[i].rev \in 1..src[k].rev
      BY <3>1
    <3>6. QED
      BY <3>3, <3>4, <3>5
  <2>3. QED
    BY <1>2, <2>1, <2>2
<1>5. Admitted' = Admitted /\ src' = src
  BY <1>1, <1>2, SinkSource DEF srcVars
<1>6. QED
  BY <1>3, <1>4, <1>5 DEF Promise!Transfer

(* A write of one row issues its next version, admitted or not. *)
LEMMA WriteIssues ==
    ASSUME TypeOK, SourceInv, NEW k \in RowId, Write(k), gone' = gone,
           UNCHANGED <<tgt, filed>>
    PROVE  Promise!Issue(k)
<1>1. /\ \A j \in RowId \ {k} : src'[j] = src[j]
      /\ src'[k].rev = src[k].rev + 1
  BY WriteFacts
<1>2. [j \in RowId |-> src[j].rev]' = [[j \in RowId |-> src[j].rev] EXCEPT ![k] = @ + 1]
  BY <1>1
<1>3. \A j \in RowId \ {k} : j \in Admitted' <=> j \in Admitted
  BY <1>1 DEF Admitted, Live
<1>4. Admitted \subseteq RowId /\ Admitted' \subseteq RowId
  BY DEF Admitted
<1>5. Admitted' \in {Admitted \cup {k}, Admitted \ {k}}
  <2>1. CASE k \in Admitted'
    <3>1. Admitted' = Admitted \cup {k}
      BY <1>3, <1>4, <2>1
    <3>2. QED
      BY <3>1
  <2>2. CASE k \notin Admitted'
    <3>1. Admitted' = Admitted \ {k}
      BY <1>3, <1>4, <2>2
    <3>2. QED
      BY <3>1
  <2>3. QED
    BY <2>1, <2>2
<1>6. QED
  BY <1>2, <1>5 DEF Promise!Issue

LEMMA DaemonIssues ==
    ASSUME TypeOK, SourceInv, DaemonStep
    PROVE  (\E k \in RowId : Promise!Issue(k) \/ Promise!Drop(k)) \/ UNCHANGED Promise!vars
<1>1. UNCHANGED <<tgt, filed, wm>>
  BY DEF DaemonStep, target
<1>2. CASE Insert
  <2>1. top + 1 \in RowId /\ Write(top + 1) /\ gone' = gone
    BY <1>2, BoundAssumption DEF Insert, TypeOK, RowId
  <2>2. QED
    BY <1>1, <2>1, WriteIssues
<1>3. CASE Tick
  BY <1>1, <1>3 DEF Tick, Promise!vars, Admitted, Live, Found, HeldOpen
<1>4. ASSUME NEW k \in RowId, Update(k)
      PROVE  Promise!Issue(k)
  BY <1>1, <1>4, WriteIssues DEF Update
<1>5. ASSUME NEW k \in RowId, Prune(k)
      PROVE  Promise!Drop(k)
  <2>1. src' = src /\ gone' = gone \cup {k}
    BY <1>5 DEF Prune
  <2>2. Admitted' = Admitted \ {k}
    BY <2>1 DEF Admitted, Live
  <2>3. QED
    BY <1>1, <2>1, <2>2 DEF Promise!Drop
<1>6. QED
  BY <1>2, <1>3, <1>4, <1>5 DEF DaemonStep, Daemon

LEMMA PromiseStep ==
    ASSUME IInv, IInv', [Next]_vars
    PROVE  [Promise!Next]_(Promise!vars)
<1>1. Promise!KeepsTrack
  BY TrackIsKept DEF IInv
<1>2. CASE Progress \/ Fault
  BY <1>1, <1>2, SinkTransfers DEF Promise!Next
<1>3. CASE DaemonStep
  BY <1>1, <1>3, DaemonIssues DEF IInv, Promise!Next
<1>4. CASE UNCHANGED vars
  BY <1>4 DEF vars, srcVars, target, Promise!vars, Admitted, Live, Found, HeldOpen
<1>5. QED
  BY <1>2, <1>3, <1>4 DEF Next

(* The pass implements the archive of Replica for every table of           *)
(* Followable: through any interleaving with the daemon and any failure,   *)
(* the target's copy of a row moves to newer versions only, the quarantine *)
(* only grows, and no step lets go of a row that has not arrived.          *)
THEOREM PassImplementsArchive == ASSUME Followable PROVE MCSpec => ImplementsReplica
<1>1. Init => Promise!Init
  BY PromiseInit
<1>2. IInv /\ IInv' /\ [Next]_vars => [Promise!Next]_(Promise!vars)
  BY PromiseStep
<1>3. MCSpec => Spec /\ []IInv
  BY HistoryHides, InvHolds, PTL
<1>4. QED
  BY <1>1, <1>2, <1>3, PTL DEF Spec, ImplementsReplica, Promise!Spec

(***************************************************************************)
(* Freshness.                                                              *)
(***************************************************************************)

(* A rescan reads at most OpenLimit keys, in no order: that one pass gets  *)
(* to every row held open needs no more of them than that.                 *)
RescanReachesAll == Class = "open_row" => MaxRow <= OpenLimit

(* The rescan in flight has yet to reach row k. *)
ToRescan(k) ==
    \/ pc \notin {"idle", "max", "select"} /\ k \in todo
    \/ /\ stage = "rescan" /\ k \in chunk
       /\ \/ pc = "read" /\ k > after
          \/ pc \in {"write", "isolate", "written"} /\ full /\ k > after

(* What the pass in flight has still to do about row k. *)
Coming(k) ==
    \/ pc \in {"max", "select"} /\ FoundFrom(k, mark)
    \/ pc # "select" /\ Ahead(k)
    \/ ToRescan(k)
    \/ Real(page[k]) /\ page[k].rev >= due[k]

FreshInv ==
    /\ due \in [RowId -> Nat]
    /\ pc = "mark" => todo = {}
    /\ \A k \in RowId : due[k] > 0 =>
          k \in Admitted /\ due[k] <= src[k].rev /\ pc # "idle" /\ Coming(k)

(* A step forgets what has arrived and what is no longer wanted, and       *)
(* remembers nothing new but at the beginning of a pass.                   *)
LEMMA StillDue ==
    ASSUME FreshInv, Remember, ~BeginPass, NEW k \in RowId, due'[k] > 0
    PROVE  /\ due'[k] = due[k] /\ k \in Admitted' /\ pc' # "idle"
           /\ ~Arrived(tgt', filed', k, due[k])
           /\ k \in Admitted /\ due[k] <= src[k].rev /\ Coming(k)
BY DEF Remember, FreshInv

(* A version that reaches the target or the quarantine has arrived. *)
LEMMA ArrivesWritten ==
    ASSUME NEW k \in RowId, NEW d, page[k].rev >= d, tgt'[k] = page[k]
    PROVE  Arrived(tgt', filed', k, d)
BY DEF Arrived

LEMMA ArrivesFiled ==
    ASSUME NEW k \in RowId, NEW d \in Nat, page[k].rev >= d, page[k].rev \in 1..MaxRev,
           filed'[k][page[k].rev] > 0
    PROVE  Arrived(tgt', filed', k, d)
<1>1. page[k].rev \in d..MaxRev
  BY BoundAssumption
<1>2. QED
  BY <1>1 DEF Arrived

(* Nothing a daemon does puts a row out of the reach of a mark. *)
LEMMA StaysAdvanced ==
    ASSUME TypeOK, TypeOK', SourceInv, Followable, DaemonMoves, NEW k \in RowId,
           NEW w \in Nat, w <= Horizon, Advances(src[k], w)
    PROVE  Advances(src'[k], w)
<1>1. CASE src'[k] = src[k]
  BY <1>1
<1>2. CASE Rewritten(k)
  <2>1. Advances(src'[k], w) \/ src'[k].cur = src[k].cur
    BY <1>2, BeyondMark
  <2>2. src'[k].cur = src[k].cur => Advances(src'[k], w)
    BY DEF Advances, Past, Window
  <2>3. QED
    BY <2>1, <2>2
<1>3. QED
  BY <1>1, <1>2 DEF DaemonMoves

LEMMA DaemonComing ==
    ASSUME IInv, TypeOK', Followable, DaemonMoves, UNCHANGED <<target, pass>>,
           NEW k \in RowId, Coming(k), due'[k] = due[k], pc # "idle"
    PROVE  Coming(k)'
<1>1. TypeOK /\ SourceInv /\ mark = wm /\ wm <= Horizon /\ mark \in Nat
  BY DEF IInv, PassInv, TypeOK
<1>2. UNCHANGED <<tgt, pc, mark, stage, chunk, todo, after, page, full>>
  BY DEF target, pass, scan
<1>3. Advances(src[k], mark) => Advances(src'[k], mark)
  BY <1>1, StaysAdvanced
<1>4. FoundFrom(k, mark) => FoundFrom(k, mark)'
  BY <1>2, <1>3 DEF FoundFrom, HeldOpen
<1>5. Ahead(k) => Ahead(k)'
  BY <1>2, <1>3 DEF Ahead
<1>6. ToRescan(k) => ToRescan(k)'
  BY <1>2 DEF ToRescan
<1>7. QED
  BY <1>2, <1>4, <1>5, <1>6 DEF Coming

(* The beginning: what has not arrived is what the pass will look for. *)
LEMMA BeginComing ==
    ASSUME IInv, BeginPass, Remember
    PROVE  FreshInv'
<1>1. TypeOK /\ SourceInv /\ NothingLost
  BY DEF IInv
<1>2. /\ UNCHANGED <<srcVars, target>> /\ mark' = wm /\ pc' = "max"
      /\ due' = [k \in RowId |-> IF k \in Admitted /\ ~Arrived(tgt, filed, k, src[k].rev) THEN src[k].rev ELSE 0]
  BY DEF BeginPass, Remember
<1>3. \A k \in RowId : src[k].rev \in Nat
  BY <1>1 DEF TypeOK, Version
<1>4. due' \in [RowId -> Nat]
  BY <1>2, <1>3
<1>5. ASSUME NEW k \in RowId, due'[k] > 0
      PROVE  k \in Admitted' /\ due'[k] <= src'[k].rev /\ pc' # "idle" /\ Coming(k)'
  <2>1. k \in Admitted /\ ~Arrived(tgt, filed, k, src[k].rev) /\ due'[k] = src[k].rev
    BY <1>2, <1>5
  <2>2. src[k].rev \in 1..MaxRev /\ Admitted' = Admitted
    BY <1>1, <1>2, <2>1, RevRange, SinkSource DEF Admitted, Live
  <2>3. ~Replicated(k)
    BY <1>3, <2>1 DEF Arrived, Replicated
  <2>4. ~Parked(k)
    <3>1. src[k].rev \in src[k].rev..MaxRev
      BY <2>2, BoundAssumption
    <3>2. QED
      BY <2>1, <3>1 DEF Arrived, Parked
  <2>5. FoundFrom(k, wm)
    BY <1>1, <2>1, <2>3, <2>4 DEF NothingLost, Found, FoundFrom
  <2>6. FoundFrom(k, mark)'
    BY <1>2, <2>5 DEF FoundFrom, HeldOpen, srcVars, target
  <2>7. QED
    BY <1>2, <1>3, <2>1, <2>2, <2>6 DEF Coming, srcVars
<1>6. QED
  BY <1>2, <1>4, <1>5 DEF FreshInv

(* Every key held open is selected, when the limit is no less. *)
LEMMA AllOpenKeys ==
    ASSUME RescanReachesAll, Class = "open_row", NEW K \in OpenKeys
    PROVE  HeldOpen \subseteq K
<1>1. K \in SUBSET HeldOpen /\ (K = HeldOpen \/ Cardinality(K) = OpenLimit)
  BY DEF OpenKeys, AnyUpTo
<1>2. CASE K = HeldOpen
  BY <1>2
<1>3. CASE Cardinality(K) = OpenLimit
  <2>1. IsFiniteSet(1..MaxRow) /\ Cardinality(1..MaxRow) = MaxRow
    BY FS_Interval, BoundAssumption
  <2>2. HeldOpen \in SUBSET (1..MaxRow)
    BY DEF HeldOpen, RowId
  <2>3. IsFiniteSet(HeldOpen) /\ Cardinality(HeldOpen) <= MaxRow
    BY <2>1, <2>2, FS_Subset
  <2>4. Cardinality(HeldOpen) \in Nat /\ Cardinality(K) <= Cardinality(HeldOpen)
    BY <1>1, <2>3, FS_Subset, FS_CardinalityType
  <2>5. MaxRow <= OpenLimit
    BY DEF RescanReachesAll
  <2>6. Cardinality(HeldOpen) = Cardinality(K)
    BY <1>3, <2>3, <2>4, <2>5, BoundAssumption, PassAssumption
  <2>7. K = HeldOpen
    BY <1>1, <2>3, <2>6, FS_Subset
  <2>8. QED
    BY <2>7
<1>4. QED
  BY <1>1, <1>2, <1>3

LEMMA MarksComing ==
    ASSUME IInv, RescanReachesAll, ReadMax \/ Select,
           NEW k \in RowId, Coming(k), due'[k] = due[k]
    PROVE  Coming(k)'
<1>1. UNCHANGED <<srcVars, target, mark, page>> /\ ~Real(page[k])
  BY DEF ReadMax, Select, IInv, PassInv
<1>2. FoundFrom(k, mark) /\ pc \in {"max", "select"}
  BY <1>1 DEF ReadMax, Select, Coming, Ahead, ToRescan, IInv, PassInv
<1>3. CASE ReadMax
  BY <1>1, <1>2, <1>3 DEF ReadMax, Coming, FoundFrom, HeldOpen, srcVars, target
<1>4. CASE Select
  <2>1. pc' = "read" /\ stage' = "advance" /\ after' = 0 /\ k > 0
    BY <1>4 DEF Select, RowId
  <2>2. CASE Advances(src[k], mark)
    BY <1>1, <2>1, <2>2 DEF Coming, Ahead, srcVars
  <2>3. CASE Class = "open_row" /\ k \in HeldOpen
    <3>1. todo' \in OpenKeys
      BY <1>4 DEF Select
    <3>2. k \in todo'
      BY <2>3, <3>1, AllOpenKeys
    <3>3. QED
      BY <2>1, <3>2 DEF Coming, ToRescan
  <2>4. QED
    BY <1>2, <2>2, <2>3 DEF FoundFrom
<1>5. QED
  BY <1>3, <1>4

LEMMA PageComing ==
    ASSUME IInv, FreshInv, ReadPage, NEW k \in Admitted, due[k] <= src[k].rev, Coming(k), due'[k] = due[k]
    PROVE  Coming(k)'
<1>1. PICK P \in SUBSET Selected :
        /\ FirstOf(Selected, P)
        /\ page' = [i \in RowId |-> IF i \in P THEN src[i] ELSE NoRow]
        /\ full' = (Cardinality(P) = BatchSize)
        /\ \/ P = {} /\ pc' = "drained" /\ after' = after
           \/ P # {} /\ pc' = "write" /\ after' \in P /\ \A i \in P : i <= after'
  BY DEF ReadPage, LastRowID
<1>2. UNCHANGED <<srcVars, target, scan>> /\ pc = "read" /\ k \in RowId
  BY DEF ReadPage, Admitted
<1>3. ~Real(page[k])
  BY <1>2 DEF IInv, PassInv
<1>4. CASE k \in todo
  BY <1>1, <1>2, <1>4 DEF Coming, ToRescan, scan
<1>5. CASE k \notin todo
  <2>1. Ahead(k) \/ (stage = "rescan" /\ k \in chunk /\ k > after)
    BY <1>2, <1>3, <1>5 DEF Coming, ToRescan
  <2>2. k \in Selected
    BY <1>2, <2>1 DEF Ahead, Selected
  <2>3. CASE k \in P
    <3>1. page'[k] = src'[k] /\ Real(page'[k])
      BY <1>1, <1>2, <2>3 DEF srcVars, Admitted, Live
    <3>2. QED
      BY <1>2, <3>1 DEF Coming, srcVars
  <2>4. CASE k \notin P
    <3>1. Cardinality(P) = BatchSize
      BY <1>1, <2>2, <2>4 DEF FirstOf
    <3>2. full' = TRUE
      BY <1>1, <3>1
    <3>3. P # {}
      BY <3>1, FS_EmptySet, PassAssumption
    <3>4. pc' = "write" /\ after' \in P
      BY <1>1, <3>3
    <3>5. k > after'
      BY <1>1, <2>2, <2>4, <3>4 DEF FirstOf, Selected, Admitted, RowId
    <3>6. QED
      BY <1>2, <2>1, <3>2, <3>4, <3>5 DEF Coming, Ahead, ToRescan, scan, srcVars
  <2>5. QED
    BY <2>3, <2>4
<1>6. QED
  BY <1>4, <1>5

(* What a write takes from the page has arrived. *)
LEMMA WritesComing ==
    ASSUME IInv, WriteBatch \/ BatchRefused \/ BatchFault \/ (\E i \in RowId : IsolateRow(i) \/ Quarantine(i) \/ RowFault(i)),
           NEW k \in RowId, due[k] \in Nat, Coming(k), due'[k] = due[k],
           ~Arrived(tgt', filed', k, due[k])
    PROVE  Coming(k)'
<1>1. TypeOK /\ SourceInv /\ CopyInv
  BY DEF IInv
<1>2. /\ UNCHANGED <<srcVars, wm, scan, after, full>>
      /\ pc \in {"write", "isolate"} /\ pc' \in {"isolate", "written"}
  BY DEF WriteBatch, BatchRefused, BatchFault, IsolateRow, Quarantine, RowFault, target
<1>3. Ahead(k) => Ahead(k)' /\ pc' # "select"
  BY <1>2 DEF Ahead, scan, srcVars
<1>4. ToRescan(k) => ToRescan(k)'
  BY <1>2 DEF ToRescan, scan
<1>5. ASSUME Real(page[k]), page[k].rev >= due[k]
      PROVE  page'[k] = page[k]
  <2>1. tgt'[k] # page[k]
    BY <1>5, ArrivesWritten
  <2>2. CASE WriteBatch
    BY <1>5, <2>1, <2>2 DEF WriteBatch, Landed, InPage
  <2>3. CASE BatchRefused \/ BatchFault
    BY <2>3 DEF BatchRefused, BatchFault
  <2>4. ASSUME NEW i \in RowId, IsolateRow(i) \/ Quarantine(i) \/ RowFault(i)
        PROVE  page'[k] = page[k]
    <3>1. CASE k # i
      BY <1>1, <2>4, <3>1 DEF IsolateRow, Quarantine, RowFault, TypeOK
    <3>2. CASE k = i /\ IsolateRow(i)
      BY <1>1, <2>1, <3>2 DEF IsolateRow, TypeOK
    <3>3. CASE k = i /\ (Quarantine(i) \/ RowFault(i))
      <4>1. filed' = Filed(k, page[k].rev)
        BY <3>3 DEF Quarantine, RowFault
      <4>2. page[k].rev \in 1..MaxRev
        <5>1. page[k].rev \in Nat /\ src[k].rev \in Nat /\ page[k].rev > 0
          BY <1>1, <1>5 DEF TypeOK, Version, Real
        <5>2. page[k].rev <= src[k].rev /\ src[k].rev <= MaxRev
          BY <1>1, <1>5 DEF CopyInv, CopyOf, SourceInv
        <5>3. QED
          BY <5>1, <5>2, BoundAssumption
      <4>3. filed'[k][page[k].rev] > 0
        BY <1>1, <4>1, <4>2, Filing
      <4>4. QED
        BY <1>5, <4>2, <4>3, ArrivesFiled
    <3>4. QED
      BY <2>4, <3>1, <3>2, <3>3
  <2>5. QED
    BY <2>2, <2>3, <2>4
<1>6. QED
  BY <1>2, <1>3, <1>4, <1>5 DEF Coming

LEMMA MovingComing ==
    ASSUME IInv, Isolated \/ NextPage \/ NextSelector \/ Drained,
           NEW k \in RowId, Coming(k), due'[k] = due[k]
    PROVE  Coming(k)'
<1>1. UNCHANGED <<srcVars, target, mark, page>> /\ ~Real(page[k])
  BY DEF Isolated, NextPage, NextSelector, Drained, scan, InPage, IInv, PassInv
<1>2. (Ahead(k) \/ ToRescan(k)) /\ pc \in {"isolate", "written", "drained"}
  BY <1>1 DEF Coming, Isolated, NextPage, NextSelector, Drained
<1>3. CASE Isolated
  BY <1>1, <1>2, <1>3 DEF Isolated, Coming, Ahead, ToRescan, srcVars, scan
<1>4. CASE NextPage
  BY <1>1, <1>2, <1>4 DEF NextPage, Coming, Ahead, ToRescan, srcVars, scan
<1>5. CASE NextSelector
  <2>1. k \in todo /\ k > 0
    BY <1>2, <1>5 DEF NextSelector, Ahead, ToRescan, RowId
  <2>2. QED
    BY <1>5, <2>1 DEF NextSelector, Coming, ToRescan
<1>6. CASE Drained
  BY <1>2, <1>6 DEF Drained, Ahead, ToRescan
<1>7. QED
  BY <1>3, <1>4, <1>5, <1>6

LEMMA FreshStep ==
    ASSUME Followable, RescanReachesAll, IInv, IInv', FreshInv, [MCNext]_<<vars, due>>
    PROVE  FreshInv'
<1>1. CASE UNCHANGED <<vars, due>>
  BY <1>1 DEF vars, srcVars, target, pass, scan, FreshInv, Coming, FoundFrom, HeldOpen, Ahead, ToRescan,
              Admitted, Live
<1>2. CASE BeginPass /\ Remember
  BY <1>2, BeginComing
<1>3. CASE Next /\ Remember /\ ~BeginPass
  <2>1. due' \in [RowId -> Nat]
    BY <1>3 DEF Remember, FreshInv
  <2>2. ASSUME NEW k \in RowId, due'[k] > 0
        PROVE  k \in Admitted' /\ due'[k] <= src'[k].rev /\ pc' # "idle" /\ Coming(k)'
    <3>1. /\ due'[k] = due[k] /\ k \in Admitted' /\ pc' # "idle" /\ due[k] \in Nat
          /\ ~Arrived(tgt', filed', k, due[k])
          /\ k \in Admitted /\ due[k] <= src[k].rev /\ Coming(k) /\ pc # "idle"
      BY <1>3, <2>2, StillDue DEF FreshInv
    <3>2. CASE DaemonStep
      <4>1. DaemonMoves /\ UNCHANGED <<target, pass>>
        BY <3>2, DaemonFacts DEF IInv, DaemonStep
      <4>2. Coming(k)'
        BY <3>1, <4>1, DaemonComing DEF IInv
      <4>3. src[k].rev \in Nat /\ src'[k].rev \in Nat
        BY DEF IInv, TypeOK, Version
      <4>4. src[k].rev <= src'[k].rev
        BY <4>1, <4>3 DEF DaemonMoves, Rewritten
      <4>5. QED
        BY <3>1, <4>2, <4>3, <4>4
    <3>3. CASE Progress \/ Fault
      <4>1. src' = src
        BY <3>3, SinkMoves DEF IInv, srcVars
      <4>2. CASE ReadMax \/ Select
        BY <3>1, <4>1, <4>2, MarksComing
      <4>3. CASE ReadPage
        BY <3>1, <4>1, <4>3, PageComing
      <4>4. CASE WriteBatch \/ BatchRefused \/ BatchFault \/ (\E i \in RowId : IsolateRow(i) \/ Quarantine(i) \/ RowFault(i))
        BY <3>1, <4>1, <4>4, WritesComing
      <4>5. CASE Isolated \/ NextPage \/ NextSelector \/ Drained
        BY <3>1, <4>1, <4>5, MovingComing
      <4>6. CASE SetWatermark \/ Abort
        BY <3>1, <4>6 DEF SetWatermark, Abort, EndPass
      <4>7. QED
        BY <1>3, <3>3, <4>2, <4>3, <4>4, <4>5, <4>6 DEF Progress, Fault, WriteRow
    <3>4. QED
      BY <1>3, <3>2, <3>3 DEF Next
  <2>3. pc' = "mark" => todo' = {}
    BY <1>3 DEF FreshInv, Next, Progress, Fault, WriteRow, BeginPass, ReadMax, Select, ReadPage,
                WriteBatch, BatchRefused, IsolateRow, Quarantine, Isolated, NextPage, NextSelector,
                Drained, SetWatermark, EndPass, Abort, BatchFault, RowFault, DaemonStep, pass, scan
  <2>4. QED
    BY <2>1, <2>2, <2>3 DEF FreshInv
<1>4. QED
  BY <1>1, <1>2, <1>3 DEF MCNext

(* For every table of Followable, whatever the daemon does meanwhile and   *)
(* whatever has failed before: a pass about to record its watermark has    *)
(* brought every row that was admitted when it began, in the version of    *)
(* that moment or a later one.  An open_row table must have no more rows   *)
(* open than one rescan reads.                                             *)
THEOREM PassesAreFresh ==
    ASSUME Followable, RescanReachesAll PROVE MCSpec => []FreshAsOfStart
<1>1. MCInit => FreshInv
  BY DEF MCInit, FreshInv, Init, PassInit
<1>2. FreshInv /\ IInv /\ IInv' /\ [MCNext]_<<vars, due>> => FreshInv'
  BY FreshStep
<1>3. IInv /\ FreshInv => FreshAsOfStart
  <2> SUFFICES ASSUME IInv, FreshInv, pc = "mark", NEW k \in RowId PROVE due[k] = 0
    BY DEF FreshAsOfStart
  <2>1. ~Coming(k)
    BY DEF Coming, Ahead, ToRescan, IInv, PassInv, FreshInv
  <2>2. QED
    BY <2>1 DEF FreshInv
<1>4. MCSpec => []IInv
  BY HistoryHides, InvHolds, PTL
<1>5. QED
  BY <1>1, <1>2, <1>3, <1>4, PTL DEF MCSpec
=============================================================================
