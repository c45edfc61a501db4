-------------------------- MODULE TableSyncClaims --------------------------
(***************************************************************************)
(* Statements the repository makes of the pass that some configuration or  *)
(* some table of the catalog refutes.  Each is checked by a run of its own *)
(* that is expected to fail.                                               *)
(***************************************************************************)
EXTENDS TableSync

(* docs/commands.md:86-89, of a filter on the state column of an open_row  *)
(* table: a row is "invisible until it settles, and then arrives           *)
(* complete".  A row settled after one with a higher id did is below the   *)
(* watermark by then and was never held by the target (advance, OpenKeys). *)
SettledArrives ==
    \A k \in RowId :
        [](Live(k) /\ src[k].settled => <>(Replicated(k) \/ Parked(k) \/ k \in gone))

(* catalog/tables.yaml:199-202, of step_runs: "a row that has not started  *)
(* has both timestamps NULL, so the non-terminal rescan is the only thing  *)
(* that finds it".  The rescan asks the target, which never held the row.  *)
RescanFindsUnstarted ==
    \A k \in Admitted : src[k].cur = 0 => Replicated(k) \/ Parked(k) \/ Found(k)

(* config/config.go:40-42: sync.overlap re-reads "a window behind the      *)
(* watermark on timestamp cursors, absorbing same-second writes".  The     *)
(* selector of an append_only or open_row table takes no step back, and a  *)
(* row stamped in the same instant as the maximum read before it is lost.  *)
SameStampAbsorbed ==
    Timestamped /\ Overlap > 0 =>
        \A k \in Admitted : src[k].cur = wm => Replicated(k) \/ Parked(k) \/ Found(k)
=============================================================================
