----------------------------- MODULE Migration ------------------------------
(***************************************************************************)
(* The commands that need the target to fit the plan: `pgsink migrate`,    *)
(* which makes it fit, and `sync` and `backfill`, which look once, when    *)
(* they start, and write for as long as they run; and `pgsink doctor`,     *)
(* which says beforehand whether the source and the plan fit each other.   *)
(* They are processes of their own, with a configuration each, beside an   *)
(* Apiary that is upgraded and over one target.                            *)
(***************************************************************************)
EXTENDS Plan, FiniteSets

CONSTANTS
    Process,   \* runs of pgsink that may overlap
    Jobs,      \* what a process may be started for: a command, a file and its --tables
    Releases,  \* Releases[v]: the tables of Apiary's database at its v-th release
    Latest,    \* the last of them
    Handmade,  \* what the target's tables may be before pgsink first meets it
    Folded,    \* Folded[c]: the name PostgreSQL gives to c, written without quotes
    Nobody

(* "write" is sync, or backfill; "migrate, write" is backfill --migrate; *)
(* "doctor" is doctor with a --config.                                     *)
Commands == {"doctor", "migrate", "dry-run", "write", "migrate, write"}

ASSUME MigrationAssumption ==
    /\ Latest \in Nat \ {0}
    /\ \A j \in Jobs : j.cmd \in Commands /\ j.only \subseteq Tables
    /\ Releases \in [1..Latest -> [Tables -> LiveTables]]
    /\ \A v \in 1..Latest, t \in Tables : Releases[v][t][InstanceColumn] = Absent
    /\ \A j \in Jobs, t \in Tables :
           \A c \in DOMAIN Extras(j.file, t) : Extras(j.file, t)[c].type \in PGType
    /\ Folded \in [Column -> Column]
    /\ \A c \in Column : Folded[Folded[c]] = Folded[c]
    /\ Handmade \subseteq [Tables -> TargetTables]
    /\ \A h \in Handmade, t \in Tables : \A c \in Has(h[t]) : Folded[c] = c
    /\ Nobody \notin Process

Base == 3  \* EnsureSchema: the schema, its state table, its quarantine table

VARIABLES
    release,  \* of the Apiary that owns the source
    \* The target.
    base,     \* how many statements of EnsureSchema it has seen
    have,     \* have[t]: the columns of t and their types; none: no such table
    lock,     \* lock[t]: the process whose transaction has altered t
    \* Each process, in its locals.
    at,       \* where it is
    job,      \* what it was started for
    saw,      \* the source as it reflected it
    chosen,   \* the tables of its plan, restricted by --tables
    todo,     \* tables still to visit where it is
    add,      \* add[t]: the columns its statements add to t
    blocked   \* has the diff found a column of another type?

target == <<base, have, lock>>
locals == <<at, job, saw, chosen, todo, add, blocked>>
vars   == <<release, target, locals>>

Unread == [t \in Tables |-> NoTable]
Idle == [cmd |-> "migrate", file |-> [defaults |-> NoBlock, tables |-> <<>>], only |-> {}]
Nothing == [t \in Tables |-> {}]

Want(p, t) == Desired(job[p].file, t, saw[p][t])

(* The tables of p that its Apiary has: the others are skipped. *)
Here(p) == {t \in chosen[p] : Has(saw[p][t]) # {}}

(* Can the target's table take what p writes into t? *)
Takes(table, want) ==
    \A c \in Has(want) : table[Folded[c]] # Absent /\ Normalized(table[Folded[c]]) = want[c]

Places == {"off", "reflect", "approved", "ensure", "compare", "apply", "done", "write"}

MigrationTypeOK ==
    /\ release \in 1..Latest
    /\ base \in 0..Base
    /\ have \in [Tables -> TargetTables]
    /\ lock \in [Tables -> Process \cup {Nobody}]
    /\ at \in [Process -> Places]
    /\ job \in [Process -> Jobs \cup {Idle}]
    /\ saw \in [Process -> [Tables -> LiveTables]]
    /\ chosen \in [Process -> SUBSET Tables]
    /\ todo \in [Process -> SUBSET Tables]
    /\ add \in [Process -> [Tables -> SUBSET Column]]
    /\ blocked \in [Process -> BOOLEAN]
    /\ \A t \in Tables : lock[t] # Nobody => at[lock[t]] = "apply" /\ t \notin todo[lock[t]]

Init ==
    /\ release = 1
    /\ base = 0
    /\ have \in Handmade
    /\ lock = [t \in Tables |-> Nobody]
    /\ at = [p \in Process |-> "off"]
    /\ job = [p \in Process |-> Idle]
    /\ saw = [p \in Process |-> Unread]
    /\ chosen = [p \in Process |-> {}]
    /\ todo = [p \in Process |-> {}]
    /\ add = [p \in Process |-> Nothing]
    /\ blocked = [p \in Process |-> FALSE]

(* Apiary is upgraded; it may be while a command reflects or runs. *)
Upgrade ==
    /\ release < Latest
    /\ release' = release + 1
    /\ UNCHANGED <<target, locals>>

(* Mutant: the tables --tables names come first to last, in its own order. *)
AsNamed(p, t) ==
    t \in todo[p] /\ \A u \in todo[p] : IF job[p].only = {} THEN t <= u ELSE t >= u

(* Tables are visited in the order of their names. *)
IsNext(p, t) == t \in todo[p] /\ \A u \in todo[p] : t <= u

-----------------------------------------------------------------------------
(* The end of a command, good or bad: its transaction is rolled back and   *)
(* its locals are gone.  What it committed stays.                          *)
KeptLocks(p) == lock  \* mutant: no rollback
Released(p) == [t \in Tables |-> IF lock[t] = p THEN Nobody ELSE lock[t]]

Leave(p) ==
    /\ at' = [at EXCEPT ![p] = "off"]
    /\ job' = [job EXCEPT ![p] = Idle]
    /\ saw' = [saw EXCEPT ![p] = Unread]
    /\ chosen' = [chosen EXCEPT ![p] = {}]
    /\ todo' = [todo EXCEPT ![p] = {}]
    /\ add' = [add EXCEPT ![p] = Nothing]
    /\ blocked' = [blocked EXCEPT ![p] = FALSE]
    /\ lock' = Released(p)

Goto(p, where, tables) ==
    /\ at' = [at EXCEPT ![p] = where]
    /\ todo' = [todo EXCEPT ![p] = tables]

(* openSession: a file that resolves is taken; another ends the command,   *)
(* but doctor, which reads the file last, and reports what it finds.       *)
(* chosen holds the whole plan until the source has been reflected.        *)
Open(p) ==
    /\ at[p] = "off"
    /\ \E j \in Jobs :
           /\ Resolves(j.file) \/ j.cmd = "doctor"
           /\ job' = [job EXCEPT ![p] = j]
           /\ chosen' = [chosen EXCEPT ![p] = Planned(j.file)]
    /\ Goto(p, "reflect", Tables)
    /\ UNCHANGED <<release, target, saw, add, blocked>>

(* One table of the source: a statement of its own, so an upgrade may come *)
(* between two of them.                                                    *)
Reflect(p) ==
    /\ at[p] = "reflect"
    /\ \E t \in todo[p] :
           /\ IsNext(p, t)
           /\ saw' = [saw EXCEPT ![p][t] = Releases[release][t]]
           /\ Goto(p, "reflect", todo[p] \ {t})
    /\ UNCHANGED <<release, target, job, chosen, add, blocked>>

(* Check the whole plan, then restrict it to --tables, which may name only *)
(* tables of the plan.                                                     *)
PlanFits(p) == \A t \in Planned(job[p].file) : FitsTable(job[p].file, t, saw[p][t])

Fits(p) == PlanFits(p) /\ job[p].only \subseteq chosen[p]

Restrict(p) ==
    /\ at[p] = "reflect" /\ todo[p] = {} /\ job[p].cmd # "doctor"
    /\ Fits(p)
    /\ chosen' = [chosen EXCEPT ![p] = IF job[p].only = {} THEN @ ELSE job[p].only]
    /\ Goto(p, "ensure", {})
    /\ UNCHANGED <<release, target, job, saw, add, blocked>>

Misfit(p) ==
    /\ at[p] = "reflect" /\ todo[p] = {} /\ job[p].cmd # "doctor"
    /\ ~Fits(p)
    /\ Leave(p)
    /\ UNCHANGED <<release, base, have>>

(* doctor: the catalog against the source, and then the file against both. *)
Sound(p) ==
    /\ \A t \in Tables : Matches(t, saw[p])
    /\ Resolves(job[p].file)
    /\ PlanFits(p)

Approve(p) ==
    /\ at[p] = "reflect" /\ todo[p] = {} /\ job[p].cmd = "doctor"
    /\ Sound(p)
    /\ Goto(p, "approved", {})
    /\ UNCHANGED <<release, target, job, saw, chosen, add, blocked>>

Disapprove(p) ==
    /\ at[p] = "reflect" /\ todo[p] = {} /\ job[p].cmd = "doctor"
    /\ ~Sound(p)
    /\ Leave(p)
    /\ UNCHANGED <<release, base, have>>

(* EnsureSchema: each statement creates what is not there, and is idle     *)
(* when it is.                                                             *)
EnsureSchema(p) ==
    /\ at[p] = "ensure"
    /\ IF base < Base
         THEN base' = base + 1 /\ UNCHANGED <<at, todo>>
         ELSE Goto(p, "compare", chosen[p]) /\ UNCHANGED base
    /\ UNCHANGED <<release, have, lock, job, saw, chosen, add, blocked>>

(* plannedChanges, for one table: reflect the target, and diff. *)
Compare(p) ==
    /\ at[p] = "compare"
    /\ \E t \in todo[p] :
           /\ IsNext(p, t)
           /\ t \in Here(p) => IsDesirable(job[p].file, t, saw[p][t])
           /\ IF t \in Here(p)
                THEN /\ add' = [add EXCEPT ![p][t] = Missing(Want(p, t), have[t])]
                     /\ blocked' = [blocked EXCEPT ![p] = @ \/ Conflicts(Want(p, t), have[t]) # {}]
                ELSE UNCHANGED <<add, blocked>>
           /\ Goto(p, "compare", todo[p] \ {t})
    /\ UNCHANGED <<release, target, job, saw, chosen>>

Undesirable(p) ==
    /\ at[p] = "compare"
    /\ \E t \in todo[p] \cap Here(p) : IsNext(p, t) /\ ~IsDesirable(job[p].file, t, saw[p][t])
    /\ Leave(p)
    /\ UNCHANGED <<release, base, have>>

(* What is done about the changes.  Nothing to change: migrate is done,    *)
(* and a writer writes.  Otherwise only a command that migrates goes on,   *)
(* and only when no change is blocked.                                     *)
Altered(p) == {t \in Tables : add[p][t] # {}}

UpToDate(p) ==
    /\ at[p] = "compare" /\ todo[p] = {}
    /\ Altered(p) = {} /\ ~blocked[p]
    /\ Goto(p, IF job[p].cmd \in {"migrate", "dry-run"} THEN "done" ELSE "write", {})
    /\ UNCHANGED <<release, target, job, saw, chosen, add, blocked>>

Apply(p) ==
    /\ at[p] = "compare" /\ todo[p] = {}
    /\ Altered(p) # {} /\ ~blocked[p]
    /\ job[p].cmd \in {"migrate", "migrate, write"}
    /\ Goto(p, "apply", Altered(p))
    /\ UNCHANGED <<release, target, job, saw, chosen, add, blocked>>

Decline(p) ==
    /\ at[p] = "compare" /\ todo[p] = {}
    /\ blocked[p] \/ (Altered(p) # {} /\ job[p].cmd \in {"dry-run", "write"})
    /\ Leave(p)
    /\ UNCHANGED <<release, base, have>>

-----------------------------------------------------------------------------
(* A statement adds columns under their folded names: none may be there,   *)
(* and no two may fold to one name.  (A table that another process created *)
(* meanwhile has the instance column, which CREATE TABLE would add.)       *)
Addable(table, cols) ==
    /\ \A c \in cols : table[Folded[c]] = Absent
    /\ \A c, d \in cols : Folded[c] = Folded[d] => c = d

(* Mutant: the table is made over to what is wanted. *)
MadeOver(table, cols, want) ==
    [c \in Column |-> IF c \in Has(want) /\ Folded[c] = c THEN want[c] ELSE Absent]

WithColumns(table, cols, want) ==
    [c \in Column |-> IF \E d \in cols : Folded[d] = c
                        THEN want[CHOOSE d \in cols : Folded[d] = c]
                        ELSE table[c]]

(* Mutant: each statement on its own, with no transaction around them. *)
ExecAlone(p) ==
    /\ at[p] = "apply"
    /\ \E t \in todo[p] :
           /\ IsNext(p, t)
           /\ lock[t] = Nobody
           /\ Addable(have[t], add[p][t])
           /\ have' = [have EXCEPT ![t] = WithColumns(@, add[p][t], Want(p, t))]
           /\ Goto(p, "apply", todo[p] \ {t})
    /\ UNCHANGED <<release, base, lock, job, saw, chosen, add, blocked>>

(* Mutant: ADD COLUMN IF NOT EXISTS, so that it fails on nothing. *)
ExecIfNotExists(p) ==
    /\ at[p] = "apply"
    /\ \E t \in todo[p] :
           /\ IsNext(p, t)
           /\ lock[t] = Nobody
           /\ lock' = [lock EXCEPT ![t] = p]
           /\ add' = [add EXCEPT ![p][t] = {c \in @ : have[t][Folded[c]] = Absent}]
           /\ Goto(p, "apply", todo[p] \ {t})
    /\ UNCHANGED <<release, base, have, job, saw, chosen, blocked>>

(* The statements for one table: the first takes its lock, and waits while *)
(* another transaction holds it.                                           *)
Exec(p) ==
    /\ at[p] = "apply"
    /\ \E t \in todo[p] :
           /\ IsNext(p, t)
           /\ lock[t] = Nobody
           /\ Addable(have[t], add[p][t])
           /\ lock' = [lock EXCEPT ![t] = p]
           /\ Goto(p, "apply", todo[p] \ {t})
    /\ UNCHANGED <<release, base, have, job, saw, chosen, add, blocked>>

ExecFails(p) ==
    /\ at[p] = "apply"
    /\ \E t \in todo[p] : IsNext(p, t) /\ lock[t] = Nobody /\ ~Addable(have[t], add[p][t])
    /\ Leave(p)
    /\ UNCHANGED <<release, base, have>>

(* COMMIT: every table at once. *)
Committed(p) ==
    [t \in Tables |-> IF lock[t] = p THEN WithColumns(have[t], add[p][t], Want(p, t)) ELSE have[t]]

Commit(p) ==
    /\ at[p] = "apply" /\ todo[p] = {}
    /\ have' = Committed(p)
    /\ lock' = Released(p)
    /\ Goto(p, IF job[p].cmd = "migrate" THEN "done" ELSE "write", {})
    /\ UNCHANGED <<release, base, job, saw, chosen, add, blocked>>

(* COMMIT took effect, and the answer was lost. *)
CommitLost(p) ==
    /\ at[p] = "apply" /\ todo[p] = {}
    /\ have' = Committed(p)
    /\ Leave(p)
    /\ UNCHANGED <<release, base>>

(* A statement fails, the process dies, or it is done and ends. *)
Exit(p) ==
    /\ at[p] # "off"
    /\ Leave(p)
    /\ UNCHANGED <<release, base, have>>

-----------------------------------------------------------------------------
Command(p) ==
    \/ Reflect(p) \/ Restrict(p) \/ Misfit(p)
    \/ Approve(p) \/ Disapprove(p)
    \/ EnsureSchema(p)
    \/ Compare(p) \/ Undesirable(p)
    \/ UpToDate(p) \/ Apply(p) \/ Decline(p)
    \/ Exec(p) \/ ExecFails(p) \/ Commit(p)

Next ==
    \/ Upgrade
    \/ \E p \in Process : Open(p) \/ Command(p) \/ CommitLost(p) \/ Exit(p)

Spec == Init /\ [][Next]_vars

-----------------------------------------------------------------------------
(* A writer looks at the target once and writes for as long as it runs; a  *)
(* migrate that reports success is believed.  Whatever other processes,    *)
(* with other configurations, do in the meantime, and however Apiary is    *)
(* upgraded, the tables are there and take the columns it wants, in the    *)
(* types it wants, with the key the upsert conflicts on (openSession,      *)
(* plannedChanges, Apply).                                                 *)
SinkFits ==
    \A p \in Process : at[p] \in {"done", "write"} =>
        /\ base = Base
        /\ \A t \in Here(p) :
               /\ Takes(have[t], Want(p, t))
               /\ Key[t] \cup {InstanceColumn} \subseteq Has(Want(p, t))

(* What doctor approves can be followed.  A sync of the same file over the *)
(* same source, once it writes, finds the columns its passes name: in the  *)
(* source the key, the cursor and what the filters read; in the target, of *)
(* an open_row table, the state column the rescan is bounded by.  sync     *)
(* itself never looks for drift (Drift, checkConfig, selectors, OpenKeys). *)
(* A file that leaves the state column out is approved all the same, and   *)
(* excepted here: Keeps is not asked of it (Resolve).                      *)
Followable(p, t) ==
    /\ Key[t] \cup Cursor[t] \cup Filtered(job[p].file, t) \subseteq Has(saw[p][t])
    /\ Class[t] = "open_row" /\ Keeps(job[p].file, t, State[t]) =>
           \A c \in State[t] : have[t][Folded[c]] # Absent

ApprovedIsFollowable ==
    \A p, q \in Process :
        at[p] = "approved" /\ at[q] = "write" /\ job[q].file = job[p].file /\ saw[q] = saw[p]
            => \A t \in Here(q) : Followable(q, t)

(* Additive only: no step takes a column away from a table of the target,  *)
(* or changes the type of one (docs/commands.md:26, Diff).                 *)
AdditiveOnly ==
    [][\A t \in Tables : \A c \in Has(have[t]) : have'[t][c] = have[t][c]]_vars

(* A failed migrate leaves the target as it was: a step that alters its    *)
(* tables carries out the whole plan of a command that migrates (Apply).   *)
CarriesOutAPlan ==
    \E p \in Process :
        /\ job[p].cmd \in {"migrate", "migrate, write"}
        /\ \A t \in Here(p) : Takes(have'[t], Want(p, t))

WholePlans == [][have' # have => CarriesOutAPlan]_vars

(* A migration computes its statements from a target it has looked at      *)
(* before, and executes them one by one in a transaction.  It comes to the *)
(* same as if it looked and altered in one instant, the one it commits in, *)
(* also when its answer is lost, and for every command that writes the     *)
(* target goes on being what it found (plannedChanges, Diff, Apply).       *)
Decided(p, t) ==
    IF at[p] \in {"compare", "apply", "done", "write"} /\ t \in Here(p) THEN Want(p, t) ELSE NoTable

Shared == INSTANCE SharedSchema WITH
    Session <- Process,
    Table   <- Tables,
    Named   <- Folded,
    Kind    <- Normalized,
    None    <- Absent,
    plan    <- [p \in Process |-> [t \in Tables |-> Decided(p, t)]],
    relying <- {p \in Process : at[p] \in {"done", "write"}}

MigratesInOneStep == Shared!Spec

(* Two processes never wait for each other's locks: tables are altered in  *)
(* the order of their names, whatever --tables says (Resolve, restrict).   *)
WaitsFor(p, q) == at[p] = "apply" /\ \E t \in todo[p] : IsNext(p, t) /\ lock[t] = q

NoDeadlock == \A p, q \in Process : ~(WaitsFor(p, q) /\ WaitsFor(q, p))

(* A command that made the target fit, run again, finds nothing to change  *)
(* (TestMigrateCreatesThenIsANoOp).  It does not hold: the DDL spells a    *)
(* name as the file does, PostgreSQL folds it, and the diff looks for the  *)
(* name as the file spells it (validIdent, Reflect, Diff).                 *)
SecondRunIsANoOp ==
    \A p \in Process : at[p] \in {"done", "write"} =>
        \A t \in Here(p) : Missing(Want(p, t), have[t]) = {}
=============================================================================
