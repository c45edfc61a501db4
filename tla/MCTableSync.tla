---------------------------- MODULE MCTableSync ----------------------------
(***************************************************************************)
(* TableSync as TLC runs it: with a history of what the source held when   *)
(* the pass began, and with the refinement mapping to Replica.             *)
(***************************************************************************)
EXTENDS TableSync

VARIABLE due   \* due[k]: the version of row k the pass in flight has to bring, or 0

(* Has version d of row k arrived in t or f, or a later one? *)
Arrived(t, f, k, d) == t[k].rev >= d \/ \E r \in d..MaxRev : f[k][r] > 0

MCInit == Init /\ due = [k \in RowId |-> 0]

(* Due when the pass begins: what the filters admit and has not arrived.   *)
(* No longer due: what has arrived, what the source has dropped or the     *)
(* filters have rejected since, and everything once the pass is over.      *)
Remember ==
    due' = IF BeginPass
             THEN [k \in RowId |-> IF k \in Admitted /\ ~Arrived(tgt, filed, k, src[k].rev) THEN src[k].rev ELSE 0]
             ELSE [k \in RowId |-> IF pc' # "idle" /\ k \in Admitted' /\ ~Arrived(tgt', filed', k, due[k])
                                     THEN due[k] ELSE 0]

MCNext == Next /\ Remember

MCSpec == MCInit /\ [][MCNext]_<<vars, due>> /\ WF_vars(Progress)

(* A pass that completes leaves the target at least as fresh as the source *)
(* was when the pass began: each row the filters admitted then has arrived *)
(* in that version or a later one, unless the source has dropped it or the *)
(* filters rejected it in between (syncTable, about to record).  Of an     *)
(* open_row table this needs the rows that are not settled to reach it     *)
(* (NothingLost).                                                          *)
FreshAsOfStart == pc = "mark" => \A k \in RowId : due[k] = 0

Promise == INSTANCE Replica WITH
    Key    <- RowId,
    issued <- [k \in RowId |-> src[k].rev],
    wanted <- Admitted,
    copy   <- [k \in RowId |-> tgt[k].rev],
    parked <- [k \in RowId |-> {r \in 1..MaxRev : filed[k][r] > 0}],
    owed   <- {k \in Admitted : Found(k)}

(* The pass implements the archive: no step moves the target's copy of a   *)
(* row back, and none, not even the one that records the watermark, lets   *)
(* go of a row that has not arrived (with the exception of NothingLost).   *)
ImplementsReplica == Promise!Spec
=============================================================================
