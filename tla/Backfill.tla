------------------------------ MODULE Backfill ------------------------------
(***************************************************************************)
(* `pgsink backfill` on one table (Runner.backfillTable), run any number   *)
(* of times, beside a `pgsink sync` that may be following the same table.  *)
(* They are two processes with locals of their own over one source and one *)
(* target, and nothing in either looks for the other.  A backfill reads,   *)
(* isolates and writes exactly as a pass does, with no selector beyond the *)
(* filters; it differs in when it records the watermark: after every       *)
(* batch, with the maximum it read before the first.                       *)
(***************************************************************************)
EXTENDS TableSync

CONSTANT MaxRefilters  \* bound: restarts with other filters

ASSUME RefilterAssumption == MaxRefilters \in Nat

VARIABLES
    \* The backfill's locals.
    bpc,     \* where it is, in the Steps of a pass
    bnext,   \* mark
    bafter,  \* afterRowID
    bpage,   \* rows read and not yet written
    bfull,   \* did the last page have BatchSize rows?
    \* What a reader wants to know of the table.
    torn,    \* has its mark passed rows no complete backfill has read since?
    edits    \* restarts with other filters so far

backfill == <<bpc, bnext, bafter, bpage, bfull>>
bvars    == <<vars, backfill, torn, edits>>

(* A backfill is a pass with no mark to start from and one selector. *)
Scan == INSTANCE TableSync WITH
    pc <- bpc, mark <- 0, next <- bnext, stage <- "advance", chunk <- {}, todo <- {},
    after <- bafter, page <- bpage, full <- bfull

BackfillTypeOK ==
    /\ TypeOK
    /\ bpc \in {"idle", "max", "select", "read", "write", "isolate", "written", "drained"}
    /\ bnext \in Nat /\ bafter \in 0..MaxRow
    /\ bpage \in [RowId -> Version] /\ bfull \in BOOLEAN
    /\ torn \in BOOLEAN /\ edits \in 0..MaxRefilters

EndScan == bpc' = "idle" /\ bnext' = 0 /\ bafter' = 0 /\ bpage' = NoPage /\ bfull' = FALSE

BackfillInit ==
    /\ Init
    /\ bpc = "idle" /\ bnext = 0 /\ bafter = 0 /\ bpage = NoPage /\ bfull = FALSE
    /\ torn = FALSE /\ edits = 0

(***************************************************************************)
(* The command.                                                            *)
(***************************************************************************)
BeginBackfill ==
    /\ bpc = "idle"
    /\ bpc' = "max"
    /\ UNCHANGED <<srcVars, target, faults, bnext, bafter, bpage, bfull>>

(* Mutant: resuming after the mark an earlier run recorded. *)
ResumeScan ==
    /\ bpc = "select"
    /\ bpc' = "read"
    /\ bafter' = IF wm <= MaxRow THEN wm ELSE bafter
    /\ UNCHANGED <<srcVars, target, faults, bnext, bpage, bfull>>

(* No selectors: straight to the first page. *)
BeginScan ==
    /\ bpc = "select"
    /\ bpc' = "read"
    /\ UNCHANGED <<srcVars, target, faults, bnext, bafter, bpage, bfull>>

(* The steps a backfill shares with a pass. *)
ScanStep ==
    \/ Scan!ReadMax \/ Scan!ReadPage \/ Scan!WriteBatch \/ Scan!BatchRefused
    \/ Scan!WriteRow \/ Scan!Isolated
    \/ Scan!BatchFault \/ \E k \in RowId : Scan!RowFault(k)

(* Mutant: the maximum read after the batch. *)
MarkBatchLate ==
    /\ bpc = "written"
    /\ wm' \in MaxCursorValue
    /\ torn' = (torn \/ bfull)
    /\ bpc' = IF bfull THEN "read" ELSE "drained"
    /\ UNCHANGED <<srcVars, tgt, filed, faults, bnext, bafter, bpage, bfull>>

(* The mark is recorded as soon as one batch is in.  A short batch is the  *)
(* last one.                                                               *)
MarkBatch ==
    /\ bpc = "written"
    /\ wm' = bnext
    /\ torn' = (torn \/ bfull)
    /\ bpc' = IF bfull THEN "read" ELSE "drained"
    /\ UNCHANGED <<srcVars, tgt, filed, faults, bnext, bafter, bpage, bfull>>

EndBackfill ==
    /\ bpc = "drained"
    /\ torn' = FALSE
    /\ EndScan
    /\ UNCHANGED <<srcVars, target, faults>>

(* Any statement fails, the context ends, or the process dies. *)
AbortBackfill ==
    /\ bpc # "idle"
    /\ faults < MaxFaults
    /\ faults' = faults + 1
    /\ EndScan
    /\ UNCHANGED <<srcVars, target, torn>>

BackfillStep ==
    /\ \/ (BeginBackfill \/ BeginScan \/ ScanStep) /\ UNCHANGED torn
       \/ MarkBatch \/ EndBackfill \/ AbortBackfill
    /\ UNCHANGED <<pass, edits>>

SyncStep == (Progress \/ Fault) /\ UNCHANGED <<backfill, torn, edits>>

(* The operator stops both commands and gives them other filters: rows the *)
(* old ones rejected are admitted, rows they admitted no longer are.       *)
Refilter ==
    /\ pc = "idle" /\ bpc = "idle"
    /\ edits < MaxRefilters
    /\ edits' = edits + 1
    /\ \E newly \in SUBSET {k \in RowId : Live(k)} :
           src' = [k \in RowId |-> IF Real(src[k]) THEN [src[k] EXCEPT !.shown = k \in newly] ELSE src[k]]
    /\ torn' = TRUE
    /\ UNCHANGED <<gone, top, now, target, pass, faults, backfill>>

BackfillNext ==
    \/ SyncStep \/ BackfillStep \/ Refilter
    \/ DaemonStep /\ UNCHANGED <<backfill, torn, edits>>

BackfillSpec == BackfillInit /\ [][BackfillNext]_bvars

(***************************************************************************)
(* Properties.                                                             *)
(***************************************************************************)

(* Only a backfill cut short, or a change of filters, can lose rows.       *)
(* While a backfill runs, and after one that died part way, the recorded   *)
(* mark is past rows no pass will look for; running backfill again to its  *)
(* end brings every one of them back, whatever passes of sync run beside   *)
(* it and in whatever order the two record their marks.  So it is of rows  *)
(* that never change; RerunIsSafe is about the others.                     *)
LostOnlyWhenTorn == torn \/ NothingLost

(* When a backfill has read its last page, a row not in the target in its  *)
(* current version was written after the backfill started, beyond the mark *)
(* it recorded.                                                            *)
BackfillCovers ==
    bpc = "drained" =>
        \A k \in Admitted : Replicated(k) \/ Parked(k) \/ Advances(src[k], bnext)
                            \/ (Class = "open_row" /\ k \in HeldOpen)

(* backfill.go, at the SetWatermark of a batch: "an interrupted backfill   *)
(* resumes from data that is actually in the target rather than from data  *)
(* that was merely read".                                                  *)
InterruptionLosesNothing == bpc = "idle" => NothingLost

(* docs/commands.md:42, of backfill: "Re-running it is safe"; and write.go *)
(* at upsertSQL: every delivery path may deliver the same row again, "and  *)
(* must land on the same result".  Beside a sync, a backfill may land a    *)
(* page read before a row was updated, over the update, and the pass may   *)
(* then record a watermark past it.                                        *)
RerunIsSafe == pc = "idle" /\ bpc = "idle" /\ ~torn => NothingLost
=============================================================================
