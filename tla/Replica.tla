------------------------------ MODULE Replica ------------------------------
(***************************************************************************)
(* What the sink promises of one table, whatever its class and whatever    *)
(* fails: an at-least-once archive.  Every version of a row the filters    *)
(* admit is delivered, filed in the quarantine, or superseded by a newer   *)
(* one; the copy of a row only ever moves to newer versions; and the sink  *)
(* always still owes itself whatever has not arrived.                      *)
(***************************************************************************)
EXTENDS Naturals

CONSTANT Key

VARIABLES
    issued,   \* issued[k]: versions the source has written of row k
    wanted,   \* rows that exist and that the filters admit
    copy,     \* copy[k]: the version the target holds, 0 for none
    parked,   \* parked[k]: the versions the quarantine holds
    owed      \* rows the sink will come back to

vars == <<issued, wanted, copy, parked, owed>>

Outstanding == {k \in wanted : copy[k] # issued[k] /\ issued[k] \notin parked[k]}

Init ==
    /\ issued \in [Key -> Nat]
    /\ wanted \subseteq Key
    /\ copy = [k \in Key |-> 0]
    /\ parked = [k \in Key |-> {}]
    /\ owed = wanted

(* The source writes row k, and the filters admit what it wrote, or not. *)
Issue(k) ==
    /\ issued' = [issued EXCEPT ![k] = @ + 1]
    /\ wanted' \in {wanted \cup {k}, wanted \ {k}}
    /\ UNCHANGED <<copy, parked>>

(* The source deletes row k; the target keeps its copy. *)
Drop(k) ==
    /\ wanted' = wanted \ {k}
    /\ UNCHANGED <<issued, copy, parked>>

(* The sink moves versions, any number of them at once. *)
Transfer ==
    /\ \A k \in Key : copy'[k] = copy[k] \/ copy'[k] \in (copy[k] + 1)..issued[k]
    /\ \A k \in Key : parked[k] \subseteq parked'[k] /\ parked'[k] \subseteq parked[k] \cup 1..issued[k]
    /\ UNCHANGED <<issued, wanted>>

(* Every step may change the sink's mind about what to come back to, and   *)
(* none lets go of a row that is outstanding.                              *)
KeepsTrack == Outstanding' \subseteq owed' /\ owed' \subseteq wanted'

Next == KeepsTrack /\ (Transfer \/ \E k \in Key : Issue(k) \/ Drop(k))

Spec == Init /\ [][Next]_vars
=============================================================================
