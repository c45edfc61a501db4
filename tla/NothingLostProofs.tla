-------------------------- MODULE NothingLostProofs --------------------------
(***************************************************************************)
(* No row is lost: the inductive invariant that says so at every step of a *)
(* pass, and the proof that every step preserves it.                       *)
(***************************************************************************)
EXTENDS TableSyncProofs, FiniteSetTheorems

(* The tables the guarantee is proved for: every pairing of class and      *)
(* cursor column in the catalog whose cursor is an id, an updated_at or    *)
(* absent.  A clock may lag by no more than sync.overlap absorbs, and a    *)
(* row that has not settled must reach the target, so the filters must not *)
(* turn on a column that changes, the target must not refuse it, and its   *)
(* write must not fail by itself and leave it to the quarantine.           *)
Followable ==
    \/ Class = "append_only" /\ CursorColumn = "id"
    \/ Class = "mutable" /\ CursorColumn = "updated_at" /\ Skew <= Overlap
    \/ Class = "open_row" /\ CursorColumn = "id" /\ Filtering \in {"none", "fixed"}
                          /\ ~Refusals /\ ~RowFaults
    \/ Class = "snapshot"

(* v is a version row k once had, and if it is settled, the last one. *)
CopyOf(v, k) ==
    /\ v.rev <= src[k].rev
    /\ v.rev = src[k].rev => v = src[k]
    /\ Class = "open_row" /\ Real(v) /\ v.settled => v = src[k]

(* Nothing the sink records as a mark is ahead of what the source wrote. *)
Horizon == IF CursorColumn = "id" THEN top ELSE now

SourceInv ==
    \A k \in RowId :
        /\ k > top => src[k] = NoRow
        /\ src[k].rev <= MaxRev
        /\ Real(src[k]) => src[k].cur <= Horizon
        /\ Real(src[k]) /\ CursorColumn = "id" => src[k].cur = k
        /\ ~Refusals => ~src[k].refused
        /\ Filtering = "none" /\ Real(src[k]) => src[k].shown

CopyInv ==
    \A k \in RowId :
        /\ CopyOf(tgt[k], k)
        /\ Real(page[k]) => CopyOf(page[k], k) /\ tgt[k].rev <= page[k].rev
        /\ ~Refusals => ~page[k].refused

PassInv ==
    /\ wm <= Horizon /\ next <= Horizon
    /\ pc # "idle" => mark = wm
    /\ ~Refusals /\ ~RowFaults => \A k \in RowId, r \in 1..MaxRev : filed[k][r] = 0
    /\ pc \in {"idle", "max", "select"} => stage = "advance"
    /\ pc \notin {"write", "isolate"} => \A k \in RowId : ~Real(page[k])

(* What a pass that starts from mark w would read. *)
FoundFrom(k, w) == Advances(src[k], w) \/ (Class = "open_row" /\ k \in HeldOpen)

(* The advancing selector of the pass in flight has yet to reach row k. *)
Ahead(k) ==
    /\ stage = "advance"
    /\ Advances(src[k], mark)
    /\ \/ pc = "select"
       \/ pc = "read" /\ k > after
       \/ pc \in {"write", "isolate", "written"} /\ full /\ k > after

(* The page in flight brings row k, or a version of it that the rescan of  *)
(* the next pass will ask after.                                           *)
Carried(k) ==
    /\ Real(page[k])
    /\ page[k] = src[k] \/ (Class = "open_row" /\ ~page[k].settled)

Settled(k) == Replicated(k) \/ Parked(k)

(* The watermark the pass is going to record is already sound, but for     *)
(* what the pass has still to read or to write.                            *)
MidPass ==
    pc \notin {"idle", "max"} =>
        \A k \in Admitted : Settled(k) \/ FoundFrom(k, next) \/ Ahead(k) \/ Carried(k)

IInv == TypeOK /\ SourceInv /\ CopyInv /\ PassInv /\ NothingLost /\ MidPass

(***************************************************************************)
(* The daemon's steps.                                                     *)
(***************************************************************************)

(* What a write may have made of row k. *)
Rewritten(k) ==
    /\ src'[k].rev = src[k].rev + 1
    /\ src'[k].rev <= MaxRev
    /\ src'[k].cur <= Horizon'
    /\ CursorColumn = "id" => src'[k].cur = k
    /\ CursorColumn = "updated_at" => src'[k].cur > 0 /\ src'[k].cur + Skew >= now
    /\ ~Refusals => ~src'[k].refused
    /\ Filtering = "none" => src'[k].shown
    /\ \/ src[k] = NoRow /\ k = top + 1
       \/ /\ Real(src[k])
          /\ Class # "append_only"
          /\ Class = "open_row" => ~src[k].settled
          /\ k \notin gone
          /\ Filtering = "fixed" => src'[k].shown = src[k].shown

DaemonMoves ==
    /\ \A k \in RowId : src'[k] = src[k] \/ Rewritten(k)
    /\ \A k \in RowId : k > top' => src'[k] = NoRow
    /\ top <= top' /\ now <= now' /\ gone \subseteq gone'

(* What one committed write does to its row, and to no other. *)
LEMMA WriteShape ==
    ASSUME TypeOK, NEW k \in RowId, Write(k)
    PROVE  /\ \A j \in RowId \ {k} : src'[j] = src[j]
           /\ src'[k].rev = src[k].rev + 1
           /\ CursorColumn = "id" => src'[k].cur = k
           /\ CursorColumn # "id" => \/ src'[k].cur <= now
                                     \/ Real(src[k]) /\ src'[k].cur = src[k].cur
           /\ CursorColumn = "updated_at" => src'[k].cur > 0 /\ src'[k].cur + Skew >= now
           /\ ~Refusals => ~src'[k].refused
           /\ Filtering = "none" => src'[k].shown
           /\ Filtering = "fixed" /\ Real(src[k]) => src'[k].shown = src[k].shown
<1>1. PICK settled \in StatesAfter, refused \in RefusedAfter, t \in Stamps :
        \E shown \in ShownAfter(src[k], settled) :
            src' = [src EXCEPT ![k] =
                      [rev |-> src[k].rev + 1, cur |-> CursorAfter(k, src[k], settled, t),
                       settled |-> settled, shown |-> shown, refused |-> refused]]
  BY DEF Write
<1>2. PICK shown \in ShownAfter(src[k], settled) :
            src' = [src EXCEPT ![k] =
                      [rev |-> src[k].rev + 1, cur |-> CursorAfter(k, src[k], settled, t),
                       settled |-> settled, shown |-> shown, refused |-> refused]]
  BY <1>1
<1>3. /\ src'[k] = [rev |-> src[k].rev + 1, cur |-> CursorAfter(k, src[k], settled, t),
                     settled |-> settled, shown |-> shown, refused |-> refused]
      /\ \A j \in RowId \ {k} : src'[j] = src[j]
  BY <1>2 DEF TypeOK
<1>4. t \in Nat /\ t > 0 /\ t <= now /\ t + Skew >= now
  BY DEF Stamps, TypeOK
<1>5. /\ CursorColumn = "id" => CursorAfter(k, src[k], settled, t) = k
      /\ CursorColumn # "id" => \/ CursorAfter(k, src[k], settled, t) <= now
                                \/ Real(src[k]) /\ CursorAfter(k, src[k], settled, t) = src[k].cur
      /\ CursorColumn = "updated_at" => CursorAfter(k, src[k], settled, t) = t
  <2>2. now \in Nat
    BY DEF TypeOK
  <2>3. CASE CursorColumn = "id"
    BY <2>3 DEF CursorAfter
  <2>4. CASE CursorColumn = "created_at"
    BY <1>4, <2>4 DEF CursorAfter
  <2>5. CASE CursorColumn = "updated_at"
    BY <1>4, <2>5 DEF CursorAfter
  <2>6. CASE CursorColumn = "finished_at"
    BY <1>4, <2>2, <2>6 DEF CursorAfter
  <2>7. CASE CursorColumn = "none"
    BY <2>2, <2>7 DEF CursorAfter
  <2>8. QED
    BY <2>3, <2>4, <2>5, <2>6, <2>7, CursorAssumption DEF CursorColumns
<1>6. ~Refusals => ~refused
  BY DEF RefusedAfter
<1>7. /\ Filtering = "none" => shown
      /\ Filtering = "fixed" /\ Real(src[k]) => shown = src[k].shown
  BY <1>2 DEF ShownAfter
<1>8. QED
  BY <1>3, <1>4, <1>5, <1>6, <1>7

LEMMA WriteFacts ==
    ASSUME TypeOK, SourceInv, NEW k \in RowId, Write(k)
    PROVE  /\ \A j \in RowId \ {k} : src'[j] = src[j]
           /\ src'[k].rev = src[k].rev + 1
           /\ CursorColumn = "id" => src'[k].cur = k
           /\ CursorColumn # "id" => src'[k].cur <= now
           /\ CursorColumn = "updated_at" => src'[k].cur > 0 /\ src'[k].cur + Skew >= now
           /\ ~Refusals => ~src'[k].refused
           /\ Filtering = "none" => src'[k].shown
           /\ Filtering = "fixed" /\ Real(src[k]) => src'[k].shown = src[k].shown
BY WriteShape DEF SourceInv, Horizon

LEMMA DaemonFacts ==
    ASSUME TypeOK, SourceInv, Daemon
    PROVE  DaemonMoves
<1>1. CASE Insert
  <2>1. top + 1 \in RowId /\ top' = top + 1 /\ Write(top + 1) /\ gone' = gone /\ now' = now
    BY <1>1, BoundAssumption DEF Insert, TypeOK, RowId
  <2>2. src[top + 1] = NoRow
    BY <2>1, BoundAssumption DEF SourceInv, TypeOK
  <2>3. Rewritten(top + 1)
    BY <2>1, <2>2, WriteFacts, BoundAssumption DEF Rewritten, Horizon, NoRow, TypeOK, Real
  <2>4. \A k \in RowId : k > top' => src'[k] = NoRow
    BY <2>1, WriteFacts, BoundAssumption DEF SourceInv, TypeOK, RowId
  <2>5. QED
    BY <2>1, <2>3, <2>4, WriteFacts DEF DaemonMoves, TypeOK
<1>2. CASE Tick
  BY <1>2 DEF Tick, DaemonMoves, SourceInv, TypeOK
<1>3. ASSUME NEW k \in RowId, Update(k)
      PROVE  DaemonMoves
  <2>1. Write(k) /\ UNCHANGED <<gone, top, now>>
    BY <1>3 DEF Update
  <2>2. Rewritten(k)
    <3>1. src[k] \in Version /\ src[k].rev + 1 <= MaxRev /\ Real(src[k]) /\ k \notin gone
      BY <1>3, BoundAssumption DEF Update, Live, TypeOK, Version
    <3>2. src'[k].cur <= Horizon'
      <4>1. k <= top
        BY <3>1, BoundAssumption DEF SourceInv, NoRow, Real, TypeOK, RowId
      <4>2. QED
        BY <2>1, <4>1, WriteFacts DEF Horizon
    <3>3. QED
      BY <1>3, <2>1, <3>1, <3>2, WriteFacts DEF Rewritten, Update
  <2>3. \A j \in RowId : j > top' => src'[j] = NoRow
    <3>1. k <= top
      BY <1>3, BoundAssumption DEF SourceInv, NoRow, Real, TypeOK, RowId, Update, Live
    <3>2. QED
      BY <2>1, <3>1, WriteFacts DEF SourceInv, TypeOK, RowId
  <2>4. QED
    BY <2>1, <2>2, <2>3, WriteFacts DEF DaemonMoves, TypeOK
<1>4. ASSUME NEW k \in RowId, Prune(k)
      PROVE  DaemonMoves
  BY <1>4 DEF Prune, DaemonMoves, SourceInv, TypeOK
<1>5. QED
  BY <1>1, <1>2, <1>3, <1>4 DEF Daemon

LEMMA DaemonSource ==
    ASSUME TypeOK, TypeOK', SourceInv, DaemonMoves
    PROVE  SourceInv'
<1> SUFFICES ASSUME NEW k \in RowId
             PROVE  /\ k > top' => src'[k] = NoRow
                    /\ src'[k].rev <= MaxRev
                    /\ Real(src'[k]) => src'[k].cur <= Horizon'
                    /\ Real(src'[k]) /\ CursorColumn = "id" => src'[k].cur = k
                    /\ ~Refusals => ~src'[k].refused
                    /\ Filtering = "none" /\ Real(src'[k]) => src'[k].shown
  BY DEF SourceInv
<1>1. CASE src'[k] = src[k]
  <2>1. Horizon <= Horizon'
    BY DEF Horizon, DaemonMoves
  <2>2. Horizon \in Nat /\ Horizon' \in Nat /\ src[k].cur \in Nat
    <3>1. top' \in Nat /\ now' \in Nat
      BY BoundAssumption DEF TypeOK
    <3>2. QED
      BY <3>1, BoundAssumption DEF Horizon, TypeOK, Version
  <2>3. QED
    BY <1>1, <2>1, <2>2 DEF SourceInv, DaemonMoves
<1>2. CASE Rewritten(k)
  BY <1>2 DEF Rewritten, DaemonMoves
<1>3. QED
  BY <1>1, <1>2 DEF DaemonMoves

LEMMA DaemonCopies ==
    ASSUME TypeOK, CopyInv, DaemonMoves, UNCHANGED <<target, pass>>
    PROVE  CopyInv'
<1>1. ASSUME NEW k \in RowId, NEW v \in Version, CopyOf(v, k)
      PROVE  CopyOf(v, k)'
  <2>1. CASE src'[k] = src[k]
    BY <1>1, <2>1 DEF CopyOf
  <2>2. CASE Rewritten(k)
    BY <1>1, <2>2 DEF CopyOf, Rewritten, TypeOK, Version, Real, NoRow
  <2>3. QED
    BY <2>1, <2>2 DEF DaemonMoves
<1>2. QED
  BY <1>1 DEF CopyInv, TypeOK, target, pass

LEMMA DaemonPass ==
    ASSUME TypeOK, TypeOK', PassInv, DaemonMoves, UNCHANGED <<target, pass>>
    PROVE  PassInv'
<1>1. Horizon <= Horizon' /\ Horizon \in Nat /\ Horizon' \in Nat
  BY BoundAssumption DEF Horizon, DaemonMoves, TypeOK
<1>2. wm' = wm /\ next' = next /\ wm \in Nat /\ next \in Nat
  BY DEF target, pass, scan, TypeOK
<1>3. wm' <= Horizon' /\ next' <= Horizon'
  BY <1>1, <1>2 DEF PassInv
<1>4. QED
  BY <1>3 DEF PassInv, target, pass, scan

(* A row written after a mark was read is past that mark, for every class  *)
(* but open_row, where the write of an unsettled row may leave its id be.  *)
LEMMA BeyondMark ==
    ASSUME TypeOK, TypeOK', SourceInv, Followable, NEW k \in RowId, Rewritten(k),
           NEW w \in Nat, w <= Horizon
    PROVE  \/ Advances(src'[k], w)
           \/ /\ Class = "open_row" /\ Filtering \in {"none", "fixed"} /\ ~Refusals /\ ~RowFaults
              /\ Real(src[k]) /\ ~src[k].settled /\ k \notin gone
              /\ src'[k].cur = src[k].cur
              /\ src'[k].shown => src[k].shown
<1>1. src[k] \in Version /\ src'[k] \in Version /\ now \in Nat /\ top \in Nat
  BY BoundAssumption DEF TypeOK
<1>2. CASE Class = "snapshot"
  BY <1>2 DEF Advances
<1>3. CASE Class = "mutable" /\ CursorColumn = "updated_at" /\ Skew <= Overlap
  BY <1>1, <1>3, BoundAssumption, PassAssumption
     DEF Advances, Window, Timestamped, Rewritten, Horizon, Version
<1>4. CASE CursorColumn = "id" /\ src[k] = NoRow /\ k = top + 1 /\ Class \in {"append_only", "open_row"}
  BY <1>1, <1>4 DEF Advances, Past, Rewritten, Horizon
<1>5. CASE Class = "open_row" /\ CursorColumn = "id" /\ Filtering \in {"none", "fixed"}
           /\ ~Refusals /\ ~RowFaults /\ src[k] # NoRow
  BY <1>5 DEF Rewritten, SourceInv
<1>6. CASE Class = "append_only" /\ CursorColumn = "id" /\ src[k] # NoRow
  BY <1>6 DEF Rewritten
<1>7. src[k] = NoRow => k = top + 1
  BY DEF Rewritten, Real, NoRow
<1>8. QED
  BY <1>2, <1>3, <1>4, <1>5, <1>6, <1>7 DEF Followable

(* So a daemon's write loses nothing: neither to the recorded watermark... *)
LEMMA DaemonNothingLost ==
    ASSUME TypeOK, TypeOK', SourceInv, PassInv, Followable, NothingLost, DaemonMoves,
           UNCHANGED <<target, pass>>
    PROVE  NothingLost'
<1> SUFFICES ASSUME NEW k \in RowId, k \in Admitted'
             PROVE  (Replicated(k) \/ Parked(k) \/ Found(k))'
  BY DEF NothingLost, Admitted
<1>1. UNCHANGED <<tgt, filed, wm>>
  BY DEF target
<1>2. CASE src'[k] = src[k]
  <2>1. k \in Admitted
    BY <1>2 DEF Admitted, Live, DaemonMoves
  <2>2. QED
    BY <1>1, <1>2, <2>1 DEF NothingLost, Replicated, Parked, Found, HeldOpen
<1>3. CASE Rewritten(k) /\ Advances(src'[k], wm)
  BY <1>1, <1>3 DEF Found
<1>4. CASE Rewritten(k) /\ ~Advances(src'[k], wm)
  <2>1. /\ Class = "open_row" /\ ~Refusals /\ ~RowFaults
        /\ Real(src[k]) /\ ~src[k].settled /\ k \notin gone
        /\ src'[k].cur = src[k].cur /\ (src'[k].shown => src[k].shown)
    BY <1>4, BeyondMark DEF PassInv, TypeOK
  <2>2. k \in Admitted
    BY <2>1 DEF Admitted, Live
  <2>3. ~Advances(src[k], wm)
    BY <1>4, <2>1 DEF Advances, Window, Past
  <2>4. ~Parked(k)
    <3>1. src[k].rev \in Nat /\ src[k].rev > 0 /\ src[k].rev <= MaxRev
      BY <2>1 DEF SourceInv, TypeOK, Version, Real
    <3>2. QED
      BY <2>1, <3>1, BoundAssumption DEF PassInv, Parked
  <2>5. k \in HeldOpen
    BY <2>1, <2>2, <2>3, <2>4 DEF NothingLost, Found, Replicated, HeldOpen
  <2>6. QED
    BY <1>1, <2>1, <2>5 DEF Found, HeldOpen
<1>5. QED
  BY <1>2, <1>3, <1>4 DEF DaemonMoves

(* ... nor to the one the pass in flight is going to record. *)
LEMMA DaemonMidPass ==
    ASSUME TypeOK, TypeOK', SourceInv, PassInv, Followable, MidPass, DaemonMoves,
           UNCHANGED <<target, pass>>
    PROVE  MidPass'
<1> SUFFICES ASSUME pc' \notin {"idle", "max"}, NEW k \in RowId, k \in Admitted'
             PROVE  (Settled(k) \/ FoundFrom(k, next) \/ Ahead(k) \/ Carried(k))'
  BY DEF MidPass, Admitted
<1>1. UNCHANGED <<tgt, filed, wm, pc, mark, next, stage, after, page, full>>
  BY DEF target, pass, scan
<1>2. CASE src'[k] = src[k]
  <2>1. k \in Admitted
    BY <1>2 DEF Admitted, Live, DaemonMoves
  <2>2. Settled(k) \/ FoundFrom(k, next) \/ Ahead(k) \/ Carried(k)
    BY <1>1, <2>1 DEF MidPass
  <2>3. Settled(k) => Settled(k)'
    BY <1>1, <1>2 DEF Settled, Replicated, Parked
  <2>4. FoundFrom(k, next) => FoundFrom(k, next)'
    BY <1>1, <1>2 DEF FoundFrom, HeldOpen
  <2>5. Ahead(k) => Ahead(k)'
    BY <1>1, <1>2 DEF Ahead
  <2>6. Carried(k) => Carried(k)'
    BY <1>1, <1>2 DEF Carried
  <2>7. QED
    BY <2>2, <2>3, <2>4, <2>5, <2>6
<1>3. CASE Rewritten(k) /\ Advances(src'[k], next)
  BY <1>1, <1>3 DEF FoundFrom
<1>4. CASE Rewritten(k) /\ ~Advances(src'[k], next)
  <2>1. /\ Class = "open_row" /\ ~Refusals /\ ~RowFaults
        /\ Real(src[k]) /\ ~src[k].settled /\ k \notin gone
        /\ src'[k].cur = src[k].cur /\ (src'[k].shown => src[k].shown)
    BY <1>4, BeyondMark DEF PassInv, TypeOK
  <2>2. k \in Admitted
    BY <2>1 DEF Admitted, Live
  <2>3. \A w \in Nat : Advances(src[k], w) = Advances(src'[k], w)
    BY <2>1 DEF Advances, Window, Past
  <2>4. ~Parked(k)
    <3>1. src[k].rev \in Nat /\ src[k].rev > 0 /\ src[k].rev <= MaxRev
      BY <2>1 DEF SourceInv, TypeOK, Version, Real
    <3>2. QED
      BY <2>1, <3>1, BoundAssumption DEF PassInv, Parked
  <2>5. next \in Nat /\ mark \in Nat
    BY DEF TypeOK
  <2>6. CASE Replicated(k) \/ FoundFrom(k, next)
    BY <1>1, <1>4, <2>1, <2>3, <2>5, <2>6 DEF FoundFrom, Replicated, HeldOpen
  <2>7. CASE Ahead(k)
    BY <1>1, <2>3, <2>5, <2>7 DEF Ahead
  <2>8. CASE Carried(k)
    BY <1>1, <2>1, <2>8 DEF Carried
  <2>9. QED
    BY <1>1, <2>2, <2>4, <2>6, <2>7, <2>8 DEF MidPass, Settled
<1>5. QED
  BY <1>2, <1>3, <1>4 DEF DaemonMoves

(***************************************************************************)
(* The steps of a pass: the source stands still.                           *)
(***************************************************************************)
LEMMA SinkSource ==
    ASSUME SourceInv, UNCHANGED srcVars
    PROVE  SourceInv' /\ Horizon' = Horizon /\ Admitted' = Admitted
BY DEF SourceInv, srcVars, Horizon, Admitted, Live

(* A step that writes nothing and keeps the watermark loses nothing. *)
LEMMA SinkKeepsTarget ==
    ASSUME NothingLost, UNCHANGED <<srcVars, target>>
    PROVE  NothingLost'
BY SinkSource DEF NothingLost, srcVars, target, Admitted, Live, Replicated, Parked, Found, HeldOpen

LEMMA SettledStays ==
    ASSUME UNCHANGED <<srcVars, target>>, NEW k \in RowId, NEW w
    PROVE  /\ Settled(k) => Settled(k)'
           /\ Advances(src[k], w) => Advances(src'[k], w)
           /\ k \in HeldOpen => k \in HeldOpen'
BY DEF srcVars, target, Settled, Replicated, Parked, HeldOpen

LEMMA SinkCopies ==
    ASSUME CopyInv, UNCHANGED <<srcVars, target>>, page' = page \/ page' = NoPage
    PROVE  CopyInv'
<1>1. \A k \in RowId : CopyOf(tgt[k], k) => CopyOf(tgt[k], k)'
  BY DEF CopyOf, srcVars, target
<1>2. CASE page' = page
  BY <1>1, <1>2 DEF CopyInv, CopyOf, srcVars, target
<1>3. CASE page' = NoPage
  BY <1>1, <1>3 DEF CopyInv, NoPage, NoRow, Real, target
<1>4. QED
  BY <1>2, <1>3

(* Before the rows: the marks. *)
LEMMA BeginInv ==
    ASSUME IInv, BeginPass
    PROVE  CopyInv' /\ PassInv' /\ NothingLost' /\ MidPass'
<1>1. UNCHANGED <<srcVars, target>> /\ page' = page /\ pc' = "max" /\ pc = "idle"
  BY DEF BeginPass
<1>2. CopyInv' /\ NothingLost'
  BY <1>1, SinkCopies, SinkKeepsTarget DEF IInv
<1>3. PassInv'
  BY <1>1, SinkSource DEF BeginPass, IInv, PassInv, target
<1>4. QED
  BY <1>1, <1>2, <1>3 DEF MidPass

LEMMA ReadMaxInv ==
    ASSUME IInv, ReadMax
    PROVE  CopyInv' /\ PassInv' /\ NothingLost' /\ MidPass'
<1>1. /\ UNCHANGED <<srcVars, target>> /\ page' = page /\ pc' = "select" /\ pc = "max"
      /\ UNCHANGED <<mark, stage>>
  BY DEF ReadMax
<1>2. CopyInv' /\ NothingLost'
  BY <1>1, SinkCopies, SinkKeepsTarget DEF IInv
<1>3. next' <= Horizon
  <2>1. \A m \in MaxCursorValue : m <= Horizon
    <3>1. \A c \in Stamped : c <= Horizon
      BY DEF Stamped, Admitted, Live, IInv, SourceInv
    <3>2. 0 <= Horizon
      BY BoundAssumption DEF Horizon, IInv, TypeOK
    <3>3. QED
      BY <3>1, <3>2 DEF MaxCursorValue
  <2>2. mark <= Horizon
    BY <1>1 DEF IInv, PassInv
  <2>3. QED
    BY <2>1, <2>2 DEF ReadMax
<1>4. PassInv'
  BY <1>1, <1>3, SinkSource DEF IInv, PassInv, target
<1>5. ASSUME NEW k \in RowId, k \in Admitted'
      PROVE  (Settled(k) \/ FoundFrom(k, next) \/ Ahead(k))'
  <2>1. k \in Admitted /\ mark = wm /\ stage = "advance"
    BY <1>1, <1>5, SinkSource DEF IInv, PassInv
  <2>2. Replicated(k) \/ Parked(k) \/ Advances(src[k], mark) \/ (Class = "open_row" /\ k \in HeldOpen)
    BY <2>1 DEF IInv, NothingLost, Found
  <2>3. QED
    BY <1>1, <2>1, <2>2, SettledStays DEF FoundFrom, Ahead, Settled
<1>6. QED
  BY <1>2, <1>4, <1>5 DEF MidPass, Admitted

LEMMA SelectInv ==
    ASSUME IInv, Select
    PROVE  CopyInv' /\ PassInv' /\ NothingLost' /\ MidPass'
<1>1. /\ UNCHANGED <<srcVars, target>> /\ page' = page /\ pc' = "read" /\ pc = "select"
      /\ UNCHANGED <<mark, next>> /\ stage' = "advance" /\ after' = 0
  BY DEF Select
<1>2. CopyInv' /\ NothingLost'
  BY <1>1, SinkCopies, SinkKeepsTarget DEF IInv
<1>3. PassInv'
  BY <1>1, SinkSource DEF IInv, PassInv, target
<1>4. ASSUME NEW k \in RowId, k \in Admitted'
      PROVE  (Settled(k) \/ FoundFrom(k, next) \/ Ahead(k))'
  <2>1. k \in Admitted /\ ~Real(page[k]) /\ k > 0
    BY <1>1, <1>4, SinkSource DEF IInv, PassInv, RowId
  <2>2. Settled(k) \/ FoundFrom(k, next) \/ Ahead(k)
    BY <1>1, <2>1 DEF IInv, MidPass, Carried
  <2>3. QED
    BY <1>1, <2>1, <2>2, SettledStays DEF FoundFrom, Ahead
<1>5. QED
  BY <1>2, <1>3, <1>4 DEF MidPass, Admitted

(* The rows.  A page takes over every row it passes; a short one leaves    *)
(* none beyond it.                                                         *)
LEMMA ReadPageInv ==
    ASSUME IInv, ReadPage
    PROVE  CopyInv' /\ PassInv' /\ NothingLost' /\ MidPass'
<1>1. PICK P \in SUBSET Selected :
        /\ FirstOf(Selected, P)
        /\ page' = [k \in RowId |-> IF k \in P THEN src[k] ELSE NoRow]
        /\ full' = (Cardinality(P) = BatchSize)
        /\ \/ P = {} /\ pc' = "drained" /\ after' = after
           \/ P # {} /\ pc' = "write" /\ after' \in P /\ \A k \in P : k <= after'
  BY DEF ReadPage, LastRowID
<1>2. UNCHANGED <<srcVars, target, scan>> /\ pc = "read"
  BY DEF ReadPage
<1>3. NothingLost'
  BY <1>2, SinkKeepsTarget DEF IInv
<1>4. CopyInv'
  <2>1. \A k \in RowId : CopyOf(tgt[k], k) => CopyOf(tgt[k], k)'
    BY <1>2 DEF CopyOf, srcVars, target
  <2>2. ASSUME NEW k \in RowId, Real(page'[k])
        PROVE  page'[k] = src'[k]
    BY <1>1, <1>2, <2>2 DEF NoRow, Real, srcVars
  <2>3. ASSUME NEW k \in RowId
        PROVE  ~Refusals => ~page'[k].refused
    BY <1>1 DEF NoRow, IInv, SourceInv
  <2>4. \A k \in RowId : src[k].rev \in Nat
    BY DEF IInv, TypeOK, Version
  <2>5. ASSUME NEW k \in RowId, Real(page'[k])
        PROVE  CopyOf(page[k], k)' /\ tgt'[k].rev <= page'[k].rev
    BY <1>2, <2>2, <2>4, <2>5 DEF CopyOf, srcVars, target, IInv, CopyInv
  <2>6. QED
    BY <2>1, <2>3, <2>5 DEF IInv, CopyInv
<1>5. PassInv'
  <2>1. pc' = "drained" => \A k \in RowId : ~Real(page'[k])
    BY <1>1 DEF NoRow, Real
  <2>2. QED
    BY <1>1, <1>2, <2>1, SinkSource DEF IInv, PassInv, target, scan
<1>6. ASSUME NEW k \in RowId, k \in Admitted'
      PROVE  (Settled(k) \/ FoundFrom(k, next) \/ Ahead(k) \/ Carried(k))'
  <2>1. k \in Admitted /\ ~Real(page[k])
    BY <1>2, <1>6, SinkSource DEF IInv, PassInv
  <2>2. Settled(k) \/ FoundFrom(k, next) \/ Ahead(k)
    BY <1>2, <2>1 DEF IInv, MidPass, Carried
  <2>3. CASE Settled(k) \/ FoundFrom(k, next)
    BY <1>2, <2>3, SettledStays DEF FoundFrom, scan
  <2>4. CASE Ahead(k)
    <3>1. k \in Selected
      BY <1>2, <2>1, <2>4 DEF Ahead, Selected
    <3>2. CASE k \in P
      <4>1. page'[k] = src'[k] /\ Real(page'[k])
        BY <1>1, <1>2, <2>1, <3>2 DEF srcVars, Admitted, Live
      <4>2. QED
        BY <4>1 DEF Carried
    <3>3. CASE k \notin P
      <4>1. Cardinality(P) = BatchSize
        BY <1>1, <3>1, <3>3 DEF FirstOf
      <4>2. full' = TRUE
        BY <1>1, <4>1
      <4>3. P # {}
        BY <4>1, FS_EmptySet, PassAssumption
      <4>4. pc' = "write" /\ after' \in P
        BY <1>1, <4>3
      <4>5. k > after'
        BY <1>1, <3>1, <3>3, <4>4 DEF FirstOf, Selected, Admitted, RowId
      <4>6. QED
        BY <1>2, <2>4, <4>2, <4>4, <4>5 DEF Ahead, scan, srcVars
    <3>4. QED
      BY <3>2, <3>3
  <2>5. QED
    BY <2>2, <2>3, <2>4
<1>7. QED
  BY <1>3, <1>4, <1>5, <1>6 DEF MidPass, Admitted

(***************************************************************************)
(* The writes.                                                             *)
(***************************************************************************)

(* A version of row k that is written over the target's: it is no older,   *)
(* so what was settled stays so, and what was held open is settled or      *)
(* still held open.                                                        *)
LEMMA Landing ==
    ASSUME TypeOK, CopyInv, UNCHANGED srcVars, NEW k \in RowId,
           tgt'[k] = tgt[k] \/ (Real(page[k]) /\ tgt'[k] = page[k])
    PROVE  /\ Replicated(k) => Replicated(k)'
           /\ Class = "open_row" /\ k \in HeldOpen => Replicated(k)' \/ k \in HeldOpen'
           /\ CopyOf(tgt[k], k)'
           /\ Real(page[k]) => tgt'[k].rev <= page[k].rev
<1>1. CASE tgt'[k] = tgt[k]
  BY <1>1 DEF CopyInv, CopyOf, Replicated, HeldOpen, srcVars
<1>2. CASE Real(page[k]) /\ tgt'[k] = page[k]
  <2>1. /\ CopyOf(page[k], k) /\ CopyOf(tgt[k], k) /\ tgt[k].rev <= page[k].rev
        /\ page[k].rev \in Nat /\ src[k].rev \in Nat
    BY <1>2 DEF CopyInv, TypeOK, Version
  <2>2. Replicated(k) => page[k] = src[k]
    BY <2>1 DEF CopyOf, Replicated
  <2>3. Class = "open_row" /\ page[k].settled => page[k] = src[k]
    BY <1>2, <2>1 DEF CopyOf
  <2>4. QED
    BY <1>2, <2>1, <2>2, <2>3 DEF CopyOf, Replicated, HeldOpen, srcVars
<1>3. QED
  BY <1>1, <1>2

(* What the page carries is in hand once it is in the target. *)
LEMMA Arrival ==
    ASSUME UNCHANGED srcVars, NEW k \in RowId, Carried(k), tgt'[k] = page[k]
    PROVE  Replicated(k)' \/ (Class = "open_row" /\ k \in HeldOpen')
BY DEF Carried, Replicated, HeldOpen, srcVars

(* Filing a version takes nothing out of the quarantine. *)
LEMMA Filing ==
    ASSUME TypeOK, NEW k \in RowId, NEW r \in 1..MaxRev, filed' = Filed(k, r)
    PROVE  /\ filed'[k][r] > 0
           /\ \A j \in RowId, q \in 1..MaxRev : filed[j][q] > 0 => filed'[j][q] > 0
<1>1. filed \in [RowId -> [1..MaxRev -> 0..2]]
  BY DEF TypeOK, FiledCap
<1>2. filed[k][r] \in 0..2
  BY <1>1
<1>3. filed' = [filed EXCEPT ![k] = [filed[k] EXCEPT ![r] = IF filed[k][r] < 2 THEN filed[k][r] + 1 ELSE filed[k][r]]]
  BY DEF Filed, FiledCap
<1>4. filed'[k] = [filed[k] EXCEPT ![r] = IF filed[k][r] < 2 THEN filed[k][r] + 1 ELSE filed[k][r]]
  BY <1>1, <1>3
<1>5. filed[k] \in [1..MaxRev -> 0..2]
  BY <1>1
<1>6. filed'[k][r] = (IF filed[k][r] < 2 THEN filed[k][r] + 1 ELSE filed[k][r])
  BY <1>4, <1>5
<1>7. filed'[k][r] > 0
  BY <1>2, <1>6
<1>8. ASSUME NEW j \in RowId, NEW q \in 1..MaxRev, filed[j][q] > 0
      PROVE  filed'[j][q] > 0
  <2>1. CASE j = k /\ q = r
    BY <1>7, <2>1
  <2>2. CASE j = k /\ q # r
    BY <1>4, <1>5, <1>8, <2>2
  <2>3. CASE j # k
    BY <1>1, <1>3, <1>8, <2>3
  <2>4. QED
    BY <2>1, <2>2, <2>3
<1>9. QED
  BY <1>7, <1>8

(* Only rows the source has, with a version the quarantine has a place for. *)
LEMMA RevRange ==
    ASSUME TypeOK, SourceInv, NEW k \in RowId, Real(src[k])
    PROVE  src[k].rev \in 1..MaxRev
<1>1. src[k].rev \in Nat /\ src[k].rev > 0 /\ src[k].rev <= MaxRev
  BY DEF TypeOK, SourceInv, Version, Real
<1>2. QED
  BY <1>1, BoundAssumption

(* A write of any part of the page keeps every promise made so far. *)
LEMMA WriteKeeps ==
    ASSUME TypeOK, SourceInv, CopyInv, NothingLost,
           UNCHANGED <<srcVars, wm, mark, next, stage, after, full>>,
           \A k \in RowId : tgt'[k] = tgt[k] \/ (Real(page[k]) /\ tgt'[k] = page[k]),
           \A k \in RowId, r \in 1..MaxRev : filed[k][r] > 0 => filed'[k][r] > 0
    PROVE  /\ NothingLost'
           /\ \A k \in Admitted : Settled(k) => Settled(k)'
           /\ \A k \in Admitted : FoundFrom(k, next) => Settled(k)' \/ FoundFrom(k, next)'
<1>1. Admitted' = Admitted /\ src' = src
  BY SinkSource DEF srcVars
<1>2. ASSUME NEW k \in Admitted
      PROVE  Parked(k) => Parked(k)'
  <2>1. k \in RowId /\ src[k].rev \in 1..MaxRev
    BY <1>2, RevRange DEF Admitted, Live
  <2>2. QED
    BY <1>1, <2>1 DEF Parked
<1>3. ASSUME NEW k \in Admitted
      PROVE  /\ Replicated(k) => Replicated(k)'
             /\ Class = "open_row" /\ k \in HeldOpen => Replicated(k)' \/ k \in HeldOpen'
  <2>1. k \in RowId
    BY <1>3 DEF Admitted
  <2>2. QED
    BY <2>1, Landing
<1>4. NothingLost'
  BY <1>1, <1>2, <1>3 DEF NothingLost, Found
<1>5. \A k \in Admitted : Settled(k) => Settled(k)'
  BY <1>2, <1>3 DEF Settled
<1>6. \A k \in Admitted : FoundFrom(k, next) => Settled(k)' \/ FoundFrom(k, next)'
  BY <1>1, <1>3 DEF FoundFrom, Settled
<1>7. QED
  BY <1>4, <1>5, <1>6

(* What every step that writes has in common: it moves rows of the page to *)
(* the target or to the quarantine, and drops from the page only what it   *)
(* has moved.                                                              *)
LEMMA Writing ==
    ASSUME IInv, UNCHANGED <<srcVars, wm, scan, after, full>>,
           pc \in {"write", "isolate"}, pc' \in {"isolate", "written"},
           pc' = "written" => \A k \in RowId : ~Real(page'[k]),
           \A k \in RowId : tgt'[k] = tgt[k] \/ (Real(page[k]) /\ tgt'[k] = page[k]),
           \A k \in RowId : page'[k] = page[k] \/ page'[k] = NoRow,
           \A k \in RowId, r \in 1..MaxRev : filed[k][r] > 0 => filed'[k][r] > 0,
           ~Refusals /\ ~RowFaults => filed' = filed,
           \A k \in Admitted : Carried(k) => Settled(k)' \/ FoundFrom(k, next)' \/ Carried(k)'
    PROVE  CopyInv' /\ PassInv' /\ NothingLost' /\ MidPass'
<1>1. TypeOK /\ SourceInv /\ CopyInv /\ PassInv /\ NothingLost /\ MidPass
  BY DEF IInv
<1>2. UNCHANGED <<srcVars, wm, mark, next, stage, after, full>>
  BY DEF scan
<1>3. /\ NothingLost'
      /\ \A k \in Admitted : Settled(k) => Settled(k)'
      /\ \A k \in Admitted : FoundFrom(k, next) => Settled(k)' \/ FoundFrom(k, next)'
  BY <1>1, <1>2, WriteKeeps
<1>4. CopyInv'
  <2>1. ASSUME NEW k \in RowId
        PROVE  /\ CopyOf(tgt[k], k)'
               /\ Real(page'[k]) => CopyOf(page[k], k)' /\ tgt'[k].rev <= page'[k].rev
               /\ ~Refusals => ~page'[k].refused
    <3>1. /\ CopyOf(tgt[k], k)'
          /\ Real(page[k]) => tgt'[k].rev <= page[k].rev
      BY <1>1, Landing
    <3>2. CASE page'[k] = page[k]
      BY <1>1, <3>1, <3>2 DEF CopyInv, CopyOf, srcVars
    <3>3. CASE page'[k] = NoRow
      BY <3>1, <3>3 DEF NoRow, Real
    <3>4. QED
      BY <3>2, <3>3
  <2>2. QED
    BY <2>1 DEF CopyInv
<1>5. PassInv'
  BY <1>1, <1>2, SinkSource DEF PassInv
<1>6. ASSUME NEW k \in RowId, k \in Admitted'
      PROVE  (Settled(k) \/ FoundFrom(k, next) \/ Ahead(k) \/ Carried(k))'
  <2>1. k \in Admitted
    BY <1>6, SinkSource DEF IInv
  <2>2. Settled(k) \/ FoundFrom(k, next) \/ Ahead(k) \/ Carried(k)
    BY <1>1, <2>1 DEF MidPass
  <2>3. Ahead(k) => Ahead(k)'
    BY <1>2 DEF Ahead, srcVars
  <2>4. QED
    BY <1>3, <2>1, <2>2, <2>3
<1>7. QED
  BY <1>3, <1>4, <1>5, <1>6 DEF MidPass, Admitted

LEMMA WriteBatchInv ==
    ASSUME IInv, WriteBatch
    PROVE  CopyInv' /\ PassInv' /\ NothingLost' /\ MidPass'
<1>1. /\ UNCHANGED <<srcVars, wm, scan, after, full>> /\ filed' = filed
      /\ pc = "write" /\ pc' = "written" /\ page' = NoPage /\ tgt' = Landed
  BY DEF WriteBatch
<1>2. ASSUME NEW k \in RowId
      PROVE  /\ ~Real(page'[k]) /\ page'[k] = NoRow
             /\ tgt'[k] = IF Real(page[k]) THEN page[k] ELSE tgt[k]
  BY <1>1 DEF NoPage, NoRow, Real, Landed, InPage
<1>3. ASSUME NEW k \in Admitted, Carried(k)
      PROVE  Settled(k)' \/ FoundFrom(k, next)'
  <2>1. k \in RowId /\ tgt'[k] = page[k]
    BY <1>2, <1>3 DEF Admitted, Carried
  <2>2. Replicated(k)' \/ (Class = "open_row" /\ k \in HeldOpen')
    BY <1>1, <1>3, <2>1, Arrival
  <2>3. QED
    BY <2>2 DEF Settled, FoundFrom
<1>4. QED
  BY <1>1, <1>2, <1>3, Writing

LEMMA BatchFailsInv ==
    ASSUME IInv, BatchRefused \/ BatchFault
    PROVE  CopyInv' /\ PassInv' /\ NothingLost' /\ MidPass'
<1>1. /\ UNCHANGED <<srcVars, wm, scan, after, full>> /\ filed' = filed
      /\ pc = "write" /\ pc' = "isolate" /\ page' = page
      /\ tgt' = tgt \/ tgt' = Landed
  BY DEF BatchRefused, BatchFault, target
<1>2. \A k \in RowId : tgt'[k] = tgt[k] \/ (Real(page[k]) /\ tgt'[k] = page[k])
  BY <1>1 DEF Landed, InPage
<1>3. \A k \in Admitted : Carried(k) => Carried(k)'
  BY <1>1 DEF Carried, srcVars
<1>4. QED
  BY <1>1, <1>2, <1>3, Writing

LEMMA IsolateRowInv ==
    ASSUME IInv, NEW i \in RowId, IsolateRow(i)
    PROVE  CopyInv' /\ PassInv' /\ NothingLost' /\ MidPass'
<1>1. /\ UNCHANGED <<srcVars, wm, scan, after, full>> /\ filed' = filed
      /\ pc = "isolate" /\ pc' = "isolate" /\ Real(page[i])
  BY DEF IsolateRow, Foremost, InPage
<1>2. /\ tgt'[i] = page[i] /\ page'[i] = NoRow
      /\ \A k \in RowId \ {i} : tgt'[k] = tgt[k] /\ page'[k] = page[k]
  BY DEF IsolateRow, IInv, TypeOK
<1>3. ASSUME NEW k \in Admitted, Carried(k)
      PROVE  Settled(k)' \/ FoundFrom(k, next)' \/ Carried(k)'
  <2>1. CASE k = i
    <3>1. Replicated(k)' \/ (Class = "open_row" /\ k \in HeldOpen')
      BY <1>1, <1>2, <1>3, <2>1, Arrival
    <3>2. QED
      BY <3>1 DEF Settled, FoundFrom
  <2>2. CASE k # i
    <3>1. k \in RowId
      BY DEF Admitted
    <3>2. page'[k] = page[k]
      BY <1>2, <2>2, <3>1
    <3>3. QED
      BY <1>1, <1>3, <3>2 DEF Carried, srcVars
  <2>3. QED
    BY <2>1, <2>2
<1>4. QED
  BY <1>1, <1>2, <1>3, Writing

(* A row that is filed instead of written: only where the class is one     *)
(* whose page carries the current version or nothing of use.               *)
LEMMA FilingInv ==
    ASSUME IInv, Followable, NEW i \in RowId, Quarantine(i) \/ RowFault(i)
    PROVE  CopyInv' /\ PassInv' /\ NothingLost' /\ MidPass'
<1>1. /\ UNCHANGED <<srcVars, wm, scan, after, full>> /\ filed' = Filed(i, page[i].rev)
      /\ pc = "isolate" /\ pc' = "isolate" /\ Real(page[i])
      /\ page' = [page EXCEPT ![i] = NoRow]
      /\ tgt' \in {tgt, [tgt EXCEPT ![i] = page[i]]}
  BY DEF Quarantine, RowFault, Foremost, InPage
<1>2. TypeOK /\ SourceInv /\ CopyInv
  BY DEF IInv
<1>3. /\ \A k \in RowId : tgt'[k] = tgt[k] \/ (Real(page[k]) /\ tgt'[k] = page[k])
      /\ page'[i] = NoRow
      /\ \A k \in RowId \ {i} : page'[k] = page[k]
  BY <1>1, <1>2 DEF TypeOK
<1>4. page[i].rev \in 1..MaxRev
  <2>1. page[i].rev \in Nat /\ src[i].rev \in Nat /\ page[i].rev > 0
    BY <1>1, <1>2 DEF TypeOK, Version, Real
  <2>2. page[i].rev <= src[i].rev /\ src[i].rev <= MaxRev
    BY <1>1, <1>2 DEF CopyInv, CopyOf, SourceInv
  <2>3. QED
    BY <2>1, <2>2, BoundAssumption
<1>5. /\ filed'[i][page[i].rev] > 0
      /\ \A k \in RowId, r \in 1..MaxRev : filed[k][r] > 0 => filed'[k][r] > 0
  BY <1>1, <1>2, <1>4, Filing
<1>6. Refusals \/ RowFaults
  BY <1>2 DEF Quarantine, RowFault, CopyInv
<1>7. Class # "open_row"
  BY <1>6 DEF Followable
<1>8. ASSUME NEW k \in Admitted, Carried(k)
      PROVE  Settled(k)' \/ Carried(k)'
  <2>1. page[k] = src[k]
    BY <1>7, <1>8 DEF Carried
  <2>2. CASE k = i
    BY <1>1, <1>5, <2>1, <2>2 DEF Settled, Parked, srcVars
  <2>3. CASE k # i
    <3>1. k \in RowId
      BY DEF Admitted
    <3>2. page'[k] = page[k]
      BY <1>3, <2>3, <3>1
    <3>3. QED
      BY <1>1, <1>8, <3>2 DEF Carried, srcVars
  <2>4. QED
    BY <2>2, <2>3
<1>9. QED
  BY <1>1, <1>3, <1>5, <1>6, <1>8, Writing

(***************************************************************************)
(* After the rows.                                                         *)
(***************************************************************************)

(* A step that moves on with an empty page. *)
LEMMA MovingOn ==
    ASSUME IInv, UNCHANGED <<srcVars, target, mark, next, page>>,
           \A k \in RowId : ~Real(page[k]),
           pc \in {"isolate", "written", "drained"},
           pc' \in {"read", "written", "drained", "mark"},
           \A k \in RowId : Ahead(k) => Ahead(k)'
    PROVE  CopyInv' /\ PassInv' /\ NothingLost' /\ MidPass'
<1>1. CopyInv' /\ NothingLost'
  BY SinkCopies, SinkKeepsTarget DEF IInv
<1>2. PassInv'
  BY SinkSource DEF IInv, PassInv, target
<1>3. ASSUME NEW k \in RowId, k \in Admitted'
      PROVE  (Settled(k) \/ FoundFrom(k, next) \/ Ahead(k))'
  <2>1. k \in Admitted /\ ~Real(page[k])
    BY <1>3, SinkSource DEF IInv
  <2>2. Settled(k) \/ FoundFrom(k, next) \/ Ahead(k)
    BY <2>1 DEF IInv, MidPass, Carried
  <2>3. QED
    BY <2>2, SettledStays DEF FoundFrom
<1>4. QED
  BY <1>1, <1>2, <1>3 DEF MidPass, Admitted

LEMMA IsolatedInv ==
    ASSUME IInv, Isolated
    PROVE  CopyInv' /\ PassInv' /\ NothingLost' /\ MidPass'
<1>1. /\ UNCHANGED <<srcVars, target, mark, next, page, stage, after, full>>
      /\ pc = "isolate" /\ pc' = "written" /\ \A k \in RowId : ~Real(page[k])
  BY DEF Isolated, scan, InPage
<1>2. \A k \in RowId : Ahead(k) => Ahead(k)'
  BY <1>1 DEF Ahead, srcVars
<1>3. QED
  BY <1>1, <1>2, MovingOn

LEMMA NextPageInv ==
    ASSUME IInv, NextPage
    PROVE  CopyInv' /\ PassInv' /\ NothingLost' /\ MidPass'
<1>1. /\ UNCHANGED <<srcVars, target, mark, next, page, stage, after, full>>
      /\ pc = "written" /\ pc' = IF full THEN "read" ELSE "drained"
  BY DEF NextPage, scan
<1>2. \A k \in RowId : ~Real(page[k])
  BY <1>1 DEF IInv, PassInv
<1>3. \A k \in RowId : Ahead(k) => Ahead(k)'
  BY <1>1 DEF Ahead, srcVars
<1>4. QED
  BY <1>1, <1>2, <1>3, MovingOn

LEMMA NextSelectorInv ==
    ASSUME IInv, NextSelector
    PROVE  CopyInv' /\ PassInv' /\ NothingLost' /\ MidPass'
<1>1. /\ UNCHANGED <<srcVars, target, mark, next, page>> /\ pc = "drained" /\ pc' = "read"
  BY DEF NextSelector
<1>2. \A k \in RowId : ~Real(page[k])
  BY <1>1 DEF IInv, PassInv
<1>3. \A k \in RowId : ~Ahead(k)
  BY <1>1 DEF Ahead
<1>4. QED
  BY <1>1, <1>2, <1>3, MovingOn

LEMMA DrainedInv ==
    ASSUME IInv, Drained
    PROVE  CopyInv' /\ PassInv' /\ NothingLost' /\ MidPass'
<1>1. /\ UNCHANGED <<srcVars, target, mark, next, page>> /\ pc = "drained" /\ pc' = "mark"
  BY DEF Drained, scan
<1>2. \A k \in RowId : ~Real(page[k])
  BY <1>1 DEF IInv, PassInv
<1>3. \A k \in RowId : ~Ahead(k)
  BY <1>1 DEF Ahead
<1>4. QED
  BY <1>1, <1>2, <1>3, MovingOn

(* The watermark is recorded when nothing is left but what the next pass   *)
(* finds from it.                                                          *)
LEMMA SetWatermarkInv ==
    ASSUME IInv, SetWatermark
    PROVE  CopyInv' /\ PassInv' /\ NothingLost' /\ MidPass'
<1>1. /\ UNCHANGED <<srcVars, tgt, filed>> /\ pc = "mark" /\ wm' = next
      /\ pc' = "idle" /\ next' = 0 /\ stage' = "advance" /\ page' = NoPage
  BY DEF SetWatermark, EndPass
<1>2. CopyInv'
  BY <1>1 DEF IInv, CopyInv, CopyOf, NoPage, NoRow, Real, srcVars
<1>3. PassInv'
  <2>1. \A k \in RowId : ~Real(page'[k])
    BY <1>1 DEF NoPage, NoRow, Real
  <2>2. 0 <= Horizon /\ next <= Horizon
    BY BoundAssumption DEF IInv, TypeOK, PassInv, Horizon
  <2>3. QED
    BY <1>1, <2>1, <2>2, SinkSource DEF IInv, PassInv
<1>4. ASSUME NEW k \in RowId, k \in Admitted'
      PROVE  (Replicated(k) \/ Parked(k) \/ Found(k))'
  <2>1. k \in Admitted /\ ~Real(page[k])
    BY <1>1, <1>4, SinkSource DEF IInv, PassInv
  <2>2. Settled(k) \/ FoundFrom(k, next)
    BY <1>1, <2>1 DEF IInv, MidPass, Carried, Ahead
  <2>3. QED
    BY <1>1, <2>2 DEF Settled, FoundFrom, Replicated, Parked, Found, HeldOpen, srcVars
<1>5. QED
  BY <1>1, <1>2, <1>3, <1>4 DEF MidPass, NothingLost, Admitted

LEMMA AbortInv ==
    ASSUME IInv, Abort
    PROVE  CopyInv' /\ PassInv' /\ NothingLost' /\ MidPass'
<1>1. /\ UNCHANGED <<srcVars, target>>
      /\ pc' = "idle" /\ next' = 0 /\ stage' = "advance" /\ page' = NoPage
  BY DEF Abort, EndPass
<1>2. CopyInv' /\ NothingLost'
  BY <1>1, SinkCopies, SinkKeepsTarget DEF IInv
<1>3. PassInv'
  <2>1. \A k \in RowId : ~Real(page'[k])
    BY <1>1 DEF NoPage, NoRow, Real
  <2>2. 0 <= Horizon
    BY BoundAssumption DEF IInv, TypeOK, Horizon
  <2>3. QED
    BY <1>1, <2>1, <2>2, SinkSource DEF IInv, PassInv, target
<1>4. QED
  BY <1>1, <1>2, <1>3 DEF MidPass

(***************************************************************************)
(* The theorem.                                                            *)
(***************************************************************************)
LEMMA InitInv == Init => IInv
<1> SUFFICES ASSUME Init PROVE IInv
  OBVIOUS
<1>1. TypeOK
  BY InitType
<1>2. /\ src = [k \in RowId |-> IF k <= Legacy THEN LegacyRow(k) ELSE NoRow]
      /\ top = Legacy /\ now = 1 /\ tgt = NoPage /\ page = NoPage /\ wm = 0 /\ next = 0
      /\ pc = "idle" /\ stage = "advance"
      /\ filed = [k \in RowId |-> [r \in 1..MaxRev |-> 0]]
  BY DEF Init, SrcInit, PassInit
<1>3. \A k \in RowId : tgt[k] = NoRow /\ page[k] = NoRow
  BY <1>2 DEF NoPage
<1>4. SourceInv
  <2>1. ASSUME NEW k \in RowId
        PROVE  /\ k > top => src[k] = NoRow
               /\ src[k].rev <= MaxRev
               /\ Real(src[k]) => src[k].cur <= Horizon
               /\ Real(src[k]) /\ CursorColumn = "id" => src[k].cur = k
               /\ ~Refusals => ~src[k].refused
               /\ Filtering = "none" /\ Real(src[k]) => src[k].shown
    BY <1>2, BoundAssumption DEF LegacyRow, NoRow, Real, Horizon, RowId
  <2>2. QED
    BY <2>1 DEF SourceInv
<1>5. CopyInv
  <2>1. \A k \in RowId : src[k].rev \in Nat /\ (src[k].rev = 0 => src[k] = NoRow)
    BY <1>1, <1>2 DEF TypeOK, Version, LegacyRow, NoRow
  <2>2. QED
    BY <1>3, <2>1 DEF CopyInv, CopyOf, NoRow, Real
<1>6. PassInv
  <2>1. 0 <= Horizon
    BY <1>2, BoundAssumption DEF Horizon
  <2>2. \A k \in RowId, r \in 1..MaxRev : filed[k][r] = 0
    BY <1>2
  <2>3. QED
    BY <1>2, <1>3, <2>1, <2>2 DEF PassInv, NoRow, Real
<1>7. NothingLost
  BY <1>2 DEF NothingLost, Found, Advances
<1>8. MidPass
  BY <1>2 DEF MidPass
<1>9. QED
  BY <1>1, <1>4, <1>5, <1>6, <1>7, <1>8 DEF IInv

LEMMA StepInv == Followable /\ IInv /\ [Next]_vars => IInv'
<1> SUFFICES ASSUME Followable, IInv, [Next]_vars PROVE IInv'
  OBVIOUS
<1>1. TypeOK'
  BY TypeStep DEF IInv
<1>2. CASE DaemonStep
  <2>1. Daemon /\ UNCHANGED <<target, pass>>
    BY <1>2 DEF DaemonStep
  <2>2. DaemonMoves
    BY <2>1, DaemonFacts DEF IInv
  <2>3. QED
    BY <1>1, <2>1, <2>2, DaemonSource, DaemonCopies, DaemonPass, DaemonNothingLost, DaemonMidPass DEF IInv
<1>3. ASSUME Progress \/ Fault
      PROVE  SourceInv' /\ CopyInv' /\ PassInv' /\ NothingLost' /\ MidPass'
  <2>1. UNCHANGED srcVars
    BY <1>3 DEF Progress, Fault, BeginPass, ReadMax, Select, ReadPage, WriteBatch, BatchRefused,
                WriteRow, IsolateRow, Quarantine, Isolated, NextPage, NextSelector, Drained,
                SetWatermark, Abort, BatchFault, RowFault
  <2>2. SourceInv'
    BY <2>1, SinkSource DEF IInv
  <2>3. CASE BeginPass \/ ReadMax \/ Select \/ ReadPage
    BY <2>2, <2>3, BeginInv, ReadMaxInv, SelectInv, ReadPageInv
  <2>4. CASE WriteBatch \/ BatchRefused \/ BatchFault
    BY <2>2, <2>4, WriteBatchInv, BatchFailsInv
  <2>5. ASSUME NEW k \in RowId, IsolateRow(k) \/ Quarantine(k) \/ RowFault(k)
        PROVE  CopyInv' /\ PassInv' /\ NothingLost' /\ MidPass'
    BY <2>5, IsolateRowInv, FilingInv
  <2>6. CASE Isolated \/ NextPage \/ NextSelector \/ Drained
    BY <2>2, <2>6, IsolatedInv, NextPageInv, NextSelectorInv, DrainedInv
  <2>7. CASE SetWatermark \/ Abort
    BY <2>2, <2>7, SetWatermarkInv, AbortInv
  <2>8. QED
    BY <1>3, <2>2, <2>3, <2>4, <2>5, <2>6, <2>7 DEF Progress, Fault, WriteRow
<1>4. CASE UNCHANGED vars
  BY <1>4 DEF vars, srcVars, target, pass, scan, IInv, TypeOK, SourceInv, Horizon, CopyInv, CopyOf,
              PassInv, NothingLost, MidPass, Admitted, Live, Replicated, Parked, Found, HeldOpen,
              Settled, FoundFrom, Ahead, Carried
<1>5. QED
  BY <1>1, <1>2, <1>3, <1>4 DEF Next, IInv

(* For every table the catalog follows by id, by updated_at or whole, with *)
(* the clocks, filters and refusals of Followable: at every instant of     *)
(* every pass, whatever fails, a row the filters admit is replicated,      *)
(* quarantined, or within reach of the next pass (NothingLost).            *)
THEOREM NothingIsLost == ASSUME Followable PROVE Spec => []NothingLost
<1>1. Init => IInv
  BY InitInv
<1>2. IInv /\ [Next]_vars => IInv'
  BY StepInv
<1>3. IInv => NothingLost
  BY DEF IInv
<1>4. QED
  BY <1>1, <1>2, <1>3, PTL DEF Spec
=============================================================================
