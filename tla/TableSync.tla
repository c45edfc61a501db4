----------------------------- MODULE TableSync -----------------------------
(***************************************************************************)
(* The incremental pass over one table (pipeline.Runner.syncTable, with    *)
(* the reads of source/sqlite and the writes of target it makes), run over *)
(* and over by the follow loop beside a daemon that keeps writing.         *)
(*                                                                         *)
(* A pass is not atomic.  Every statement it sends to SQLite or PostgreSQL *)
(* is a step of its own, the daemon may write between any two of them, and *)
(* the pass may die before any of them: a crash, a cancelled context and   *)
(* an error from either database all leave the same state behind, because  *)
(* nothing but the target survives a pass.                                 *)
(***************************************************************************)
EXTENDS ApiaryTable

CONSTANTS
    Overlap,     \* sync.overlap, in ticks of the daemon's clock
    BatchSize,   \* sync.batch_size
    OpenLimit,   \* rescanOpenLimit
    ChunkSize,   \* rescanChunk
    RowFaults,   \* may the target fail the write of a row that is good?
    MaxFaults    \* bound: failures of the sink or of the target

ASSUME PassAssumption ==
    /\ Overlap \in Nat /\ MaxFaults \in Nat /\ RowFaults \in BOOLEAN
    /\ BatchSize \in Nat \ {0}
    /\ OpenLimit \in Nat \ {0}
    /\ ChunkSize \in Nat \ {0}

VARIABLES
    \* The target: what survives the sink.
    tgt,    \* the replicated table
    filed,  \* filed[k][r]: quarantine rows holding version r of row k, up to FiledCap
    wm,     \* apiary_sync_state.cursor_value; 0 is NULL, or no row at all
    \* One pass: Go locals, gone when the pass ends.
    pc,
    mark,   \* the watermark the pass started from
    next,   \* the watermark it will record
    stage,  \* which kind of selector is being drained
    chunk,  \* the keys of the rescan selector being drained
    todo,   \* open keys no selector has covered yet
    after,  \* afterRowID
    page,   \* rows read and not yet written
    full,   \* did the last page have BatchSize rows?
    faults  \* failures so far

target == <<tgt, filed, wm>>
scan   == <<mark, next, stage, chunk, todo>>
pass   == <<pc, scan, after, page, full>>
vars   == <<srcVars, target, pass, faults>>

(* Two rows for one version are as many as a property tells apart. *)
FiledCap == 2

(* Where a pass is: "written" follows a page, "drained" a selector. *)
Steps == {"idle", "max", "select", "read", "write", "isolate", "written", "drained", "mark"}

NoPage == [k \in RowId |-> NoRow]

TypeOK ==
    /\ src \in [RowId -> Version] /\ gone \subseteq RowId
    /\ top \in 0..MaxRow /\ now \in Nat
    /\ tgt \in [RowId -> Version]
    /\ filed \in [RowId -> [1..MaxRev -> 0..FiledCap]]
    /\ wm \in Nat /\ mark \in Nat /\ next \in Nat
    /\ pc \in Steps
    /\ stage \in {"advance", "rescan"}
    /\ chunk \subseteq RowId /\ todo \subseteq RowId
    /\ after \in 0..MaxRow
    /\ page \in [RowId -> Version]
    /\ full \in BOOLEAN
    /\ faults \in 0..MaxFaults

PassInit ==
    /\ pc = "idle" /\ mark = 0 /\ next = 0
    /\ stage = "advance" /\ chunk = {} /\ todo = {}
    /\ after = 0 /\ page = NoPage /\ full = FALSE

Init ==
    /\ SrcInit
    /\ tgt = NoPage
    /\ filed = [k \in RowId |-> [r \in 1..MaxRev |-> 0]]
    /\ wm = 0
    /\ PassInit
    /\ faults = 0

(***************************************************************************)
(* What "changed" means (selectors, advance, back).                        *)
(***************************************************************************)

(* MaxCursorValue: the highest cursor among the rows the filters admit, as *)
(* a set of one.  MAX ignores NULL, and is NULL itself, 0, over no row.    *)
Stamped == {src[k].cur : k \in Admitted} \ {0}

MaxCursorValue == {m \in Stamped \cup {0} : \A c \in Stamped : c <= m}

(* Mutants: the step back by the overlap left out; the comparison strict.  *)
WindowWithoutOverlap(v, w) == v.cur > 0 /\ v.cur >= w
WindowExclusive(v, w)      == v.cur > 0 /\ v.cur + (IF Timestamped THEN Overlap ELSE 0) > w

(* Advance, without and with `inclusive` and the step back by the overlap, *)
(* which back() takes on a timestamp cursor only.  NULL satisfies neither. *)
Past(v, w)   == v.cur > w
Window(v, w) == v.cur > 0 /\ v.cur + (IF Timestamped THEN Overlap ELSE 0) >= w

(* The selector of the table's class, for a pass that starts from mark w. *)
Advances(v, w) ==
    \/ w = 0
    \/ Class = "snapshot"
    \/ Class = "mutable" /\ Window(v, w)
    \/ Class \in {"append_only", "open_row"} /\ Past(v, w)

(* What the target holds as not settled: the candidates of OpenKeys. *)
HeldOpen == {k \in RowId : Real(tgt[k]) /\ ~tgt[k].settled}

(* LIMIT without an ORDER BY: any n of the candidates. *)
AnyUpTo(S, n) == {K \in SUBSET S : (K = S /\ Cardinality(K) <= n) \/ Cardinality(K) = n}

(* Mutant: asking the source what is unsettled now. *)
OpenInSource == AnyUpTo({k \in Admitted : ~src[k].settled}, OpenLimit)

OpenKeys == IF Class = "open_row" THEN AnyUpTo(HeldOpen, OpenLimit) ELSE {{}}

(***************************************************************************)
(* The steps of a pass.                                                    *)
(***************************************************************************)

(* Sync reads every watermark before the first table. *)
BeginPass ==
    /\ pc = "idle"
    /\ mark' = wm
    /\ pc' = "max"
    /\ UNCHANGED <<srcVars, target, next, stage, chunk, todo, after, page, full, faults>>

ReadMax ==
    /\ pc = "max"
    /\ next' \in IF CursorColumn = "none" THEN {mark} ELSE MaxCursorValue
    /\ pc' = "select"
    /\ UNCHANGED <<srcVars, target, mark, stage, chunk, todo, after, page, full, faults>>

Select ==
    /\ pc = "select"
    /\ todo' \in OpenKeys
    /\ stage' = "advance"
    /\ after' = 0
    /\ pc' = "read"
    /\ UNCHANGED <<srcVars, target, mark, next, chunk, page, full, faults>>

(* The rows the current selector would return beyond afterRowID. *)
Selected ==
    {k \in Admitted :
        /\ k > after
        /\ stage = "advance" => Advances(src[k], mark)
        /\ stage = "rescan"  => k \in chunk}

(* ORDER BY rowid LIMIT BatchSize. *)
FirstOf(S, P) ==
    /\ \A i \in P, j \in S \ P : i < j
    /\ (P = S /\ Cardinality(P) <= BatchSize) \/ Cardinality(P) = BatchSize

(* Mutant: one past the last row. *)
RowIDPastLast(P) == {k + 1 : k \in {i \in P : \A j \in P : j <= i}}

(* Page.LastRowID of the page P, as a set of one. *)
LastRowID(P) == {i \in P : \A j \in P : j <= i}

(* One statement, so one snapshot.  afterRowID moves to the page's last    *)
(* rowid once the page is written, and nothing reads it before.            *)
ReadPage ==
    /\ pc = "read"
    /\ \E P \in SUBSET Selected :
        /\ FirstOf(Selected, P)
        /\ page' = [k \in RowId |-> IF k \in P THEN src[k] ELSE NoRow]
        /\ full' = (Cardinality(P) = BatchSize)
        /\ \/ P = {} /\ pc' = "drained" /\ after' = after
           \/ P # {} /\ pc' = "write" /\ after' \in LastRowID(P)
    /\ UNCHANGED <<srcVars, target, scan, faults>>

InPage == {k \in RowId : Real(page[k])}

(* Mutants: truncate and load; ON CONFLICT DO NOTHING. *)
OnlyThePage == [k \in InPage |-> page[k]]
FirstWins   == [k \in RowId |-> IF k \in InPage /\ ~Real(tgt[k]) THEN page[k] ELSE tgt[k]]

Landed == [k \in RowId |-> IF k \in InPage THEN page[k] ELSE tgt[k]]

(* WriteBatch, inside WriteBatchIsolating: the whole page in one           *)
(* transaction, overwriting whatever the target had.                       *)
WriteBatch ==
    /\ pc = "write"
    /\ \A k \in InPage : ~page[k].refused
    /\ tgt' = Landed
    /\ page' = NoPage
    /\ pc' = "written"
    /\ UNCHANGED <<srcVars, filed, wm, scan, after, full, faults>>

(* One row the target refuses fails the transaction. *)
BatchRefused ==
    /\ pc = "write"
    /\ \E k \in InPage : page[k].refused
    /\ pc' = "isolate"
    /\ UNCHANGED <<srcVars, target, scan, after, page, full, faults>>

(* So does a target that hiccups, and an error on COMMIT does not say      *)
(* whether the transaction took effect.                                    *)
BatchFault ==
    /\ pc = "write"
    /\ faults < MaxFaults
    /\ faults' = faults + 1
    /\ \/ tgt' = tgt
       \/ (\A k \in InPage : ~page[k].refused) /\ tgt' = Landed
    /\ pc' = "isolate"
    /\ UNCHANGED <<srcVars, filed, wm, scan, after, page, full>>

(* The next row of the page, in the order it was read. *)
Foremost(k) == k \in InPage /\ \A j \in InPage : k <= j

IsolateRow(k) ==
    /\ pc = "isolate"
    /\ Foremost(k)
    /\ ~page[k].refused
    /\ tgt' = [tgt EXCEPT ![k] = page[k]]
    /\ page' = [page EXCEPT ![k] = NoRow]
    /\ UNCHANGED <<srcVars, filed, wm, pc, scan, after, full, faults>>

Filed(k, r) == [filed EXCEPT ![k][r] = IF @ < FiledCap THEN @ + 1 ELSE @]

(* A row the target refuses is filed in the quarantine.  One that the      *)
(* quarantine cannot hold either, such as text with a zero byte, ends the  *)
(* pass instead, and every pass after it: that is Abort.                   *)
Quarantine(k) ==
    /\ pc = "isolate"
    /\ Foremost(k)
    /\ page[k].refused
    /\ filed' = Filed(k, page[k].rev)
    /\ page' = [page EXCEPT ![k] = NoRow]
    /\ UNCHANGED <<srcVars, tgt, wm, pc, scan, after, full, faults>>

(* So is a good row whose write fails while the target is failing, if it   *)
(* has recovered by the time the quarantine is written.                    *)
RowFault(k) ==
    /\ RowFaults
    /\ faults < MaxFaults
    /\ faults' = faults + 1
    /\ pc = "isolate"
    /\ Foremost(k)
    /\ ~page[k].refused
    /\ tgt' \in {tgt, [tgt EXCEPT ![k] = page[k]]}
    /\ filed' = Filed(k, page[k].rev)
    /\ page' = [page EXCEPT ![k] = NoRow]
    /\ UNCHANGED <<srcVars, wm, pc, scan, after, full>>

Isolated ==
    /\ pc = "isolate"
    /\ InPage = {}
    /\ pc' = "written"
    /\ UNCHANGED <<srcVars, target, scan, after, page, full, faults>>

(* Mutant: one page per selector. *)
OnePage ==
    /\ pc = "written"
    /\ pc' = "drained"
    /\ UNCHANGED <<srcVars, target, scan, after, page, full, faults>>

(* A full page: read on with the same selector.  A short one is the last. *)
NextPage ==
    /\ pc = "written"
    /\ pc' = IF full THEN "read" ELSE "drained"
    /\ UNCHANGED <<srcVars, target, scan, after, page, full, faults>>

(* The next chunk of the keys to rescan. *)
NextSelector ==
    /\ pc = "drained"
    /\ todo # {}
    /\ chunk' \in AnyUpTo(todo, ChunkSize)
    /\ todo' = todo \ chunk'
    /\ stage' = "rescan"
    /\ after' = 0
    /\ pc' = "read"
    /\ UNCHANGED <<srcVars, target, mark, next, page, full, faults>>

Drained ==
    /\ pc = "drained"
    /\ todo = {}
    /\ pc' = "mark"
    /\ UNCHANGED <<srcVars, target, scan, after, page, full, faults>>

(* The locals of a pass that is over. *)
EndPass ==
    /\ pc' = "idle" /\ mark' = 0 /\ next' = 0
    /\ stage' = "advance" /\ chunk' = {} /\ todo' = {}
    /\ after' = 0 /\ page' = NoPage /\ full' = FALSE

(* Mutant: the maximum read after the rows. *)
SetLateWatermark ==
    /\ pc = "mark"
    /\ wm' \in MaxCursorValue
    /\ EndPass
    /\ UNCHANGED <<srcVars, tgt, filed, faults>>

SetWatermark ==
    /\ pc = "mark"
    /\ wm' = next
    /\ EndPass
    /\ UNCHANGED <<srcVars, tgt, filed, faults>>

(* Mutant: the watermark recorded by a deferred call. *)
AbortAndMark ==
    /\ pc # "idle"
    /\ faults < MaxFaults
    /\ faults' = faults + 1
    /\ wm' = next
    /\ EndPass
    /\ UNCHANGED <<srcVars, tgt, filed>>

(* Any statement fails, the context ends, or the process dies. *)
Abort ==
    /\ pc # "idle"
    /\ faults < MaxFaults
    /\ faults' = faults + 1
    /\ EndPass
    /\ UNCHANGED <<srcVars, target>>

WriteRow == \E k \in RowId : IsolateRow(k) \/ Quarantine(k)

Progress ==
    \/ BeginPass \/ ReadMax \/ Select \/ ReadPage
    \/ WriteBatch \/ BatchRefused \/ WriteRow \/ Isolated
    \/ NextPage \/ NextSelector \/ Drained \/ SetWatermark

DaemonStep == Daemon /\ UNCHANGED <<target, pass, faults>>

Fault == Abort \/ BatchFault \/ \E k \in RowId : RowFault(k)

Next == Progress \/ Fault \/ DaemonStep

Spec == Init /\ [][Next]_vars

(* The loop runs pass after pass and a pass runs to its end or fails: the  *)
(* sink never stops taking steps.  Nothing is assumed of the daemon.       *)
FairSpec == Spec /\ WF_vars(Progress)

(***************************************************************************)
(* Properties.                                                             *)
(***************************************************************************)
Replicated(k) == tgt[k] = src[k]

Parked(k) == filed[k][src[k].rev] > 0

(* What the next pass reads, whenever it starts and whatever became of the *)
(* one in flight: it starts from the watermark and the target alone.       *)
Found(k) == Advances(src[k], wm) \/ (Class = "open_row" /\ k \in HeldOpen)

(* At every instant, mid-pass and after a pass that died anywhere, a row   *)
(* the filters admit is in the target in its current version, or filed in  *)
(* the quarantine in that version, or within reach of the next pass.  The  *)
(* watermark is recorded once per pass, by SetWatermark, from a maximum    *)
(* read before the rows: this is what that order is for.                   *)
(* It is not so of an open_row table in which a row may be filed before it *)
(* has settled, refused (Refusals) or good but written while the target    *)
(* was failing (RowFaults): the target does not hold it, so no rescan asks *)
(* for its completion, and once the watermark has passed nothing does.     *)
NothingLost == \A k \in Admitted : Replicated(k) \/ Parked(k) \/ Found(k)

InSync == \A k \in Admitted : Replicated(k) \/ Parked(k)

(* Once the daemon stops writing and the failures stop, the target holds   *)
(* every admitted row in its current version, or the quarantine does.  It  *)
(* has the exception of NothingLost: what is lost never arrives.           *)
Converges == <>[]InSync
=============================================================================
