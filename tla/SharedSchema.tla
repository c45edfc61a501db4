---------------------------- MODULE SharedSchema ----------------------------
(***************************************************************************)
(* What the commands that share a target promise each other of its schema. *)
(* Each has a plan, the columns and the types it wants of each table.  A   *)
(* migration carries its plan out in one instant: from then on the target  *)
(* suits the plan, and it has gained nothing but columns of the plan that  *)
(* it lacked.  A command relies on a target only when it suits its plan.   *)
(***************************************************************************)
CONSTANTS
    Session,     \* the commands
    Table,
    Column,
    Handmade,    \* what the target may be at first
    Named,       \* Named[c]: the name the target gives to column c of a plan
    Kind(_),     \* Kind(x): the type a column of type x of the target passes for
    None         \* the type of a column that is not there

VARIABLES
    have,        \* have[t]: the columns of the target's table, and their types
    plan,        \* plan[s][t]: those that s wants of it, whatever they are
    relying      \* the commands that have found or made the target fit, and go on

vars == <<have, plan, relying>>

Asked(want) == {c \in Column : want[c] # None}

Suits(table, want) ==
    \A c \in Asked(want) : table[Named[c]] # None /\ Kind(table[Named[c]]) = want[c]

(* Every column that is new is one of the plan, under its name in the      *)
(* target and in the type asked for, and none was there before.            *)
Gains(new, old, want) ==
    \A c \in Column : new[c] # old[c] =>
        old[c] = None /\ \E d \in Asked(want) : Named[d] = c /\ new[c] = want[d]

Init ==
    /\ have \in Handmade
    /\ relying = {}

(* A command makes up its mind, about anything, or ends: it relies on nothing. *)
Rethink(s) ==
    /\ relying' = relying \ {s}
    /\ \A r \in Session \ {s} : plan'[r] = plan[r]

Begin(s) == UNCHANGED have /\ Rethink(s)

Rely(s) ==
    /\ UNCHANGED <<have, plan>>
    /\ relying' = relying \cup {s}
    /\ \A t \in Table : Suits(have[t], plan[s][t])

(* Its command may go on, or die before it has heard of its success. *)
Migrate(s) ==
    /\ s \notin relying
    /\ \/ relying' = relying \cup {s} /\ UNCHANGED plan
       \/ Rethink(s)
    /\ \A t \in Table : Suits(have'[t], plan[s][t]) /\ Gains(have'[t], have[t], plan[s][t])

Next == \E s \in Session : Begin(s) \/ Rely(s) \/ Migrate(s)

Spec == Init /\ [][Next]_vars

(* Whoever relies on the target may: it suits each of their plans, however *)
(* many have migrated it in between (Trusted is what the promise is for).  *)
Trusted == \A s \in relying, t \in Table : Suits(have[t], plan[s][t])
=============================================================================
