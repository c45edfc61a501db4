-------------------------- MODULE MigrationProofs ---------------------------
(***************************************************************************)
(* For any number of processes and tables, any jobs, releases and folding  *)
(* of names: the types of Migration, that a target once found or made fit  *)
(* stays fit, that nothing is taken from it, and that no two processes     *)
(* wait for each other.                                                    *)
(***************************************************************************)
EXTENDS Migration, TLAPS

Keyed(p, t) == Key[t] \cup {InstanceColumn} \subseteq Has(Want(p, t))

(* What Compare knows of a table from then on: the columns it will not add *)
(* are there, under the very name, and of the type wanted.                 *)
Compared(p, t) ==
    /\ Keyed(p, t)
    /\ blocked[p] \/ \A c \in Has(Want(p, t)) \ add[p][t] :
                         have[t][c] # Absent /\ Normalized(have[t][c]) = Want(p, t)[c]

(* The target's names are folded. *)
FoldedInv == \A t \in Tables : \A c \in Column : have[t][c] # Absent => Folded[c] = c

SessionInv(p) ==
    /\ at[p] # "off" => job[p] \in Jobs
    /\ at[p] \in {"compare", "apply", "done", "write"} => base = Base
    /\ at[p] = "apply" => job[p].cmd \in {"migrate", "migrate, write"}

CompareInv(p) ==
    at[p] = "compare" => \A t \in Here(p) : t \notin todo[p] => Compared(p, t)

ApplyInv(p) ==
    at[p] = "apply" =>
        /\ ~blocked[p]
        /\ \A t \in Here(p) : Compared(p, t)
        /\ \A t \in Tables : add[p][t] # {} /\ t \notin todo[p] => lock[t] = p

FitInv(p) ==
    at[p] \in {"done", "write"} =>
        \A t \in Here(p) : Keyed(p, t) /\ Takes(have[t], Want(p, t))

(* What a lock protects, and the order in which locks are taken. *)
LockInv(p) ==
    \A t \in Tables : lock[t] = p =>
        /\ Addable(have[t], add[p][t])
        /\ \A u \in todo[p] : t < u

ProcessInv(p) == SessionInv(p) /\ CompareInv(p) /\ ApplyInv(p) /\ FitInv(p) /\ LockInv(p)

IInv == MigrationTypeOK /\ FoldedInv /\ \A p \in Process : ProcessInv(p)

-----------------------------------------------------------------------------
(* No generated type is the mark of an absent column, and the diff takes   *)
(* each for itself.                                                        *)
LEMMA GeneratedTypes ==
    /\ Absent \notin PGType /\ Absent \notin Affinity
    /\ \A a \in Affinity, b \in BOOLEAN : MapColumn(a, b) \in PGType
    /\ "text" \in PGType
    /\ \A x \in PGType : Normalized(x) = x
<1>1. \A a \in Affinity, b \in BOOLEAN : MapColumn(a, b) \in PGType
  BY DEF Affinity, MapColumn, PGType
<1>2. \A x \in PGType : Normalized(x) = x
  BY DEF Normalized, PGType
<1> QED BY <1>1, <1>2 DEF PGType, Affinity, Absent

(* A desired schema has generated types, and the key when it is desirable. *)
LEMMA DesiredShape ==
    ASSUME NEW j \in Jobs, NEW t \in Tables, NEW live \in LiveTables
    PROVE  /\ Desired(j.file, t, live) \in [Column -> PGType \cup {Absent}]
           /\ IsDesirable(j.file, t, live) =>
                  Key[t] \cup {InstanceColumn} \subseteq Has(Desired(j.file, t, live))
<1> DEFINE f == j.file
           columns == Columns(f, t, live)
           extras == Extras(f, t)
<1>1. columns \subseteq Has(live)
  BY DEF Columns
<1>2. \A c \in DOMAIN extras : extras[c].type \in PGType
  BY MigrationAssumption
<1>3. \A c \in columns : c \in Column /\ MapColumn(live[c], c \in JSONOf(f, t)) \in PGType
  <2> TAKE c \in columns
  <2>1. c \in Column /\ live[c] \in Affinity
    BY <1>1 DEF Has, LiveTables
  <2>2. (c \in JSONOf(f, t)) \in BOOLEAN
    OBVIOUS
  <2> QED BY <2>1, <2>2, GeneratedTypes
<1> HIDE DEF f, columns, extras
<1>4. Desired(f, t, live) =
        [c \in Column |->
           IF c = InstanceColumn THEN "text"
           ELSE IF c \in columns THEN MapColumn(live[c], c \in JSONOf(f, t))
           ELSE IF c \in DOMAIN extras THEN extras[c].type
           ELSE Absent]
  BY DEF Desired, columns, extras
<1>5. Desired(f, t, live) \in [Column -> PGType \cup {Absent}]
  BY <1>2, <1>3, <1>4, GeneratedTypes
<1>6. ASSUME IsDesirable(f, t, live)
      PROVE  Key[t] \cup {InstanceColumn} \subseteq Has(Desired(f, t, live))
  <2>1. Key[t] \subseteq columns \cup DOMAIN extras \cup {InstanceColumn}
    BY <1>6 DEF IsDesirable, columns, extras
  <2>2. Key[t] \subseteq Column /\ InstanceColumn \in Column
    BY CatalogAssumption
  <2>3. \A c \in Column : c \in columns \cup DOMAIN extras \cup {InstanceColumn}
                              => Desired(f, t, live)[c] \in PGType
    BY <1>2, <1>3, <1>4, GeneratedTypes
  <2> QED BY <2>1, <2>2, <2>3, GeneratedTypes DEF Has
<1> QED BY <1>5, <1>6 DEF f

-----------------------------------------------------------------------------
(* What a step does to the target as everybody sees it. *)
Grown ==
    /\ base = Base => base' = Base
    /\ \A t \in Tables : \A c \in Column : have[t][c] # Absent => have'[t][c] = have[t][c]

(* What a step leaves to a process that does not take it. *)
Spared(q) ==
    /\ at'[q] = at[q] /\ job'[q] = job[q] /\ saw'[q] = saw[q] /\ chosen'[q] = chosen[q]
    /\ todo'[q] = todo[q] /\ add'[q] = add[q] /\ blocked'[q] = blocked[q]
    /\ \A t \in Tables : /\ lock'[t] = q <=> lock[t] = q
                         /\ lock[t] = q => have'[t] = have[t]

StepOf(p) ==
    /\ MigrationTypeOK' /\ FoldedInv' /\ Grown
    /\ \A q \in Process \ {p} : Spared(q)
    /\ ProcessInv(p)'

(* A target that grows goes on fitting what has been compared with it. *)
LEMMA SparedKeepsInv ==
    ASSUME NEW q \in Process, MigrationTypeOK, ProcessInv(q), Grown, Spared(q)
    PROVE  ProcessInv(q)'
<1>1. /\ Here(q)' = Here(q)
      /\ \A t \in Tables : Want(q, t)' = Want(q, t)
      /\ \A t \in Tables : Keyed(q, t)' <=> Keyed(q, t)
  BY DEF Here, Want, Keyed, Spared
<1>2. \A t \in Here(q) : t \in Tables
  BY DEF Here, MigrationTypeOK
<1>3. ASSUME NEW t \in Tables, Compared(q, t)
      PROVE  Compared(q, t)'
  <2>1. Want(q, t)' = Want(q, t) /\ (Keyed(q, t)' <=> Keyed(q, t)) /\ blocked'[q] = blocked[q]
        /\ add'[q] = add[q]
    BY <1>1 DEF Spared
  <2>2. \A c \in Has(Want(q, t)) : have[t][c] # Absent => have'[t][c] = have[t][c]
    BY DEF Grown, Has
  <2> QED BY <1>3, <2>1, <2>2 DEF Compared
<1>4. ASSUME NEW t \in Tables, Takes(have[t], Want(q, t))
      PROVE  Takes(have'[t], Want(q, t))
  <2>1. \A c \in Has(Want(q, t)) : c \in Column /\ Folded[c] \in Column
    BY MigrationAssumption DEF Has
  <2> QED BY <1>4, <2>1 DEF Takes, Grown
<1>5. SessionInv(q)'
  BY DEF ProcessInv, SessionInv, Spared, Grown
<1>6. CompareInv(q)'
  BY <1>1, <1>2, <1>3 DEF ProcessInv, CompareInv, Spared
<1>7. ApplyInv(q)'
  BY <1>1, <1>2, <1>3 DEF ProcessInv, ApplyInv, Spared
<1>8. FitInv(q)'
  BY <1>1, <1>2, <1>4 DEF ProcessInv, FitInv, Spared
<1>9. LockInv(q)'
  BY DEF ProcessInv, LockInv, Spared
<1> QED BY <1>5, <1>6, <1>7, <1>8, <1>9 DEF ProcessInv

LEMMA OneStepOfOne ==
    ASSUME IInv, NEW p \in Process, StepOf(p)
    PROVE  IInv'
<1>1. ASSUME NEW q \in Process \ {p}
      PROVE  ProcessInv(q)'
  BY <1>1, SparedKeepsInv DEF IInv, StepOf
<1> QED BY <1>1 DEF IInv, StepOf

-----------------------------------------------------------------------------
(* COMMIT only adds, and what it leaves fits the plan it carries out. *)
LEMMA CommitFits ==
    ASSUME IInv, NEW p \in Process, at[p] = "apply", todo[p] = {},
           have' = Committed(p), base' = base
    PROVE  /\ have' \in [Tables -> TargetTables] /\ FoldedInv' /\ Grown
           /\ \A t \in Tables : lock[t] # p => have'[t] = have[t]
           /\ \A t \in Here(p) : Keyed(p, t) /\ Takes(have'[t], Want(p, t))
<1>1. /\ MigrationTypeOK /\ FoldedInv /\ job[p] \in Jobs /\ ApplyInv(p) /\ LockInv(p)
  BY DEF IInv, ProcessInv, SessionInv
<1>2. \A t \in Tables : /\ have[t] \in TargetTables
                        /\ add[p][t] \subseteq Column
                        /\ Want(p, t) \in [Column -> PGType \cup {Absent}]
  BY <1>1, DesiredShape DEF MigrationTypeOK, Want
<1>3. \A c \in Column : Folded[c] \in Column /\ Folded[Folded[c]] = Folded[c]
  BY MigrationAssumption
<1>4. ASSUME NEW t \in Tables, lock[t] = p
      PROVE  /\ have'[t] \in TargetTables
             /\ \A d \in add[p][t] : have'[t][Folded[d]] = Want(p, t)[d]
             /\ \A c \in Column : (\A d \in add[p][t] : Folded[d] # c) => have'[t][c] = have[t][c]
             /\ \A c \in Column : have[t][c] # Absent => \A d \in add[p][t] : Folded[d] # c
  <2> DEFINE W == Want(p, t)
             A == add[p][t]
             Name(c) == CHOOSE d \in A : Folded[d] = c
  <2>1. have'[t] = [c \in Column |-> IF \E d \in A : Folded[d] = c THEN W[Name(c)] ELSE have[t][c]]
    BY <1>4 DEF Committed, WithColumns
  <2>2. Addable(have[t], A)
    BY <1>1, <1>4 DEF LockInv
  <2>3. A \subseteq Column /\ W \in [Column -> PGType \cup {Absent}] /\ have[t] \in TargetTables
    BY <1>2
  <2> HIDE DEF W, A
  <2>4. \A c \in Column : (\E d \in A : Folded[d] = c) => Name(c) \in A /\ Folded[Name(c)] = c
    OBVIOUS
  <2> HIDE DEF Name
  <2>5. have'[t] \in TargetTables
    <3>1. \A c \in Column : (\E d \in A : Folded[d] = c) => W[Name(c)] \in PGType \cup {Absent}
      BY <2>3, <2>4
    <3>2. \A c \in Column : have[t][c] \in PGType \cup Foreign \cup {Absent}
      BY <2>3 DEF TargetTables
    <3> QED BY <2>1, <3>1, <3>2 DEF TargetTables
  <2>6. \A d \in A : have'[t][Folded[d]] = W[d]
    <3> TAKE d \in A
    <3>1. d \in Column /\ Folded[d] \in Column
      BY <2>3, <1>3
    <3>2. Name(Folded[d]) \in A /\ Folded[Name(Folded[d])] = Folded[d]
      BY <3>1, <2>4
    <3>3. Name(Folded[d]) = d
      BY <3>2, <2>2 DEF Addable
    <3> QED BY <2>1, <3>1, <3>3
  <2>7. \A c \in Column : (\A d \in A : Folded[d] # c) => have'[t][c] = have[t][c]
    BY <2>1
  <2>8. \A c \in Column : have[t][c] # Absent => \A d \in A : Folded[d] # c
    BY <2>2 DEF Addable
  <2> QED BY <2>5, <2>6, <2>7, <2>8 DEF A, W
<1>5. ASSUME NEW t \in Tables, lock[t] # p
      PROVE  have'[t] = have[t]
  BY <1>5 DEF Committed
<1>6. have' \in [Tables -> TargetTables]
  <2>1. \A t \in Tables : have'[t] \in TargetTables
    BY <1>2, <1>4, <1>5
  <2> QED BY <2>1 DEF Committed
<1>7. FoldedInv'
  <2> SUFFICES ASSUME NEW t \in Tables, NEW c \in Column, have'[t][c] # Absent
               PROVE  Folded[c] = c
    BY DEF FoldedInv
  <2>1. CASE lock[t] = p /\ \E d \in add[p][t] : Folded[d] = c
    BY <2>1, <1>2, <1>3
  <2>2. CASE lock[t] = p /\ \A d \in add[p][t] : Folded[d] # c
    BY <2>2, <1>4, <1>1 DEF FoldedInv
  <2>3. CASE lock[t] # p
    BY <2>3, <1>5, <1>1 DEF FoldedInv
  <2> QED BY <2>1, <2>2, <2>3
<1>8. Grown
  <2> SUFFICES ASSUME NEW t \in Tables, NEW c \in Column, have[t][c] # Absent
               PROVE  have'[t][c] = have[t][c]
    BY DEF Grown
  <2> QED BY <1>4, <1>5
<1>9. ASSUME NEW t \in Here(p)
      PROVE  Keyed(p, t) /\ Takes(have'[t], Want(p, t))
  <2>1. t \in Tables
    BY <1>1 DEF Here, MigrationTypeOK
  <2>2. Compared(p, t) /\ ~blocked[p] /\ (add[p][t] # {} => lock[t] = p)
    BY <1>1, <2>1 DEF ApplyInv
  <2>3. ASSUME NEW c \in Has(Want(p, t))
        PROVE  have'[t][Folded[c]] # Absent /\ Normalized(have'[t][Folded[c]]) = Want(p, t)[c]
    <3>1. c \in Column /\ Want(p, t)[c] \in PGType
      BY <1>2, <2>1 DEF Has
    <3>2. CASE c \in add[p][t]
      <4>1. have'[t][Folded[c]] = Want(p, t)[c]
        BY <3>2, <2>1, <2>2, <1>4
      <4> QED BY <4>1, <3>1, GeneratedTypes
    <3>3. CASE c \notin add[p][t]
      <4>1. have[t][c] # Absent /\ Normalized(have[t][c]) = Want(p, t)[c]
        BY <2>2, <3>3 DEF Compared
      <4>2. Folded[c] = c
        BY <4>1, <3>1, <2>1, <1>1 DEF FoldedInv
      <4>3. have'[t][c] = have[t][c]
        BY <1>8, <4>1, <3>1, <2>1 DEF Grown
      <4> QED BY <4>1, <4>2, <4>3
    <3> QED BY <3>2, <3>3
  <2> QED BY <2>2, <2>3 DEF Compared, Takes
<1> QED BY <1>5, <1>6, <1>7, <1>8, <1>9

(* The end of a command leaves the others what they had. *)
LEMMA LeaveStep ==
    ASSUME IInv, NEW p \in Process, Leave(p), release' = release, base' = base,
           \/ have' = have
           \/ have' = Committed(p) /\ at[p] = "apply" /\ todo[p] = {}
    PROVE  StepOf(p)
<1>1. MigrationTypeOK /\ FoldedInv
  BY DEF IInv
<1>2. /\ have' \in [Tables -> TargetTables] /\ FoldedInv' /\ Grown
      /\ \A t \in Tables : lock[t] # p => have'[t] = have[t]
  <2>1. CASE have' = have
    BY <2>1, <1>1 DEF FoldedInv, Grown, MigrationTypeOK
  <2>2. CASE have' = Committed(p) /\ at[p] = "apply" /\ todo[p] = {}
    BY <2>2, CommitFits
  <2> QED BY <2>1, <2>2
<1>3. \A t \in Tables : lock'[t] = IF lock[t] = p THEN Nobody ELSE lock[t]
  BY DEF Leave, Released
<1>4. Nobody \notin Process
  BY MigrationAssumption
<1>5. \A q \in Process \ {p} : Spared(q)
  BY <1>1, <1>2, <1>3, <1>4 DEF Leave, Spared, MigrationTypeOK
<1>6. MigrationTypeOK'
  <2>1. /\ at' \in [Process -> Places]
        /\ todo' \in [Process -> SUBSET Tables] /\ chosen' \in [Process -> SUBSET Tables]
        /\ blocked' \in [Process -> BOOLEAN] /\ job' \in [Process -> Jobs \cup {Idle}]
    BY <1>1 DEF MigrationTypeOK, Leave, Places
  <2>2. saw' \in [Process -> [Tables -> LiveTables]]
    <3>1. Unread \in [Tables -> LiveTables]
      BY DEF Unread, NoTable, LiveTables
    <3> QED BY <3>1, <1>1 DEF MigrationTypeOK, Leave
  <2>3. add' \in [Process -> [Tables -> SUBSET Column]]
    <3>1. Nothing \in [Tables -> SUBSET Column]
      BY DEF Nothing
    <3> QED BY <3>1, <1>1 DEF MigrationTypeOK, Leave
  <2>4. lock' \in [Tables -> Process \cup {Nobody}]
    BY <1>1 DEF MigrationTypeOK, Leave, Released
  <2>5. ASSUME NEW t \in Tables, lock'[t] # Nobody
        PROVE  at'[lock'[t]] = "apply" /\ t \notin todo'[lock'[t]]
    <3>1. lock[t] # p /\ lock'[t] = lock[t] /\ lock[t] \in Process
      BY <2>5, <1>1, <1>3 DEF MigrationTypeOK
    <3>2. Spared(lock[t])
      BY <3>1, <1>5
    <3> QED BY <2>5, <3>1, <3>2, <1>1 DEF Spared, MigrationTypeOK
  <2>6. release' \in 1..Latest /\ base' \in 0..Base
    BY <1>1 DEF MigrationTypeOK
  <2> QED BY <1>2, <2>1, <2>2, <2>3, <2>4, <2>5, <2>6 DEF MigrationTypeOK
<1>7. ProcessInv(p)'
  <2>1. at'[p] = "off"
    BY <1>1 DEF Leave, MigrationTypeOK
  <2>2. \A t \in Tables : lock'[t] # p
    BY <1>3, <1>4
  <2> QED BY <2>1, <2>2 DEF ProcessInv, SessionInv, CompareInv, ApplyInv, FitInv, LockInv
<1> QED BY <1>2, <1>5, <1>6, <1>7 DEF StepOf

-----------------------------------------------------------------------------
(* The steps that touch neither the target's tables nor their locks. *)
LEMMA QuietStep ==
    ASSUME IInv, NEW p \in Process, have' = have, lock' = lock,
           base = Base => base' = Base,
           \A q \in Process \ {p} :
               /\ at'[q] = at[q] /\ job'[q] = job[q] /\ saw'[q] = saw[q]
               /\ chosen'[q] = chosen[q] /\ todo'[q] = todo[q]
               /\ add'[q] = add[q] /\ blocked'[q] = blocked[q]
    PROVE  FoldedInv' /\ Grown /\ \A q \in Process \ {p} : Spared(q)
BY DEF IInv, FoldedInv, Grown, Spared

(* A process that holds no lock has nothing to say of them. *)
LEMMA NoLocks ==
    ASSUME MigrationTypeOK, NEW p \in Process, at[p] # "apply"
    PROVE  \A t \in Tables : lock[t] # p
BY MigrationAssumption DEF MigrationTypeOK

LEMMA OpenStep ==
    ASSUME IInv, NEW p \in Process, Open(p)
    PROVE  StepOf(p)
<1>1. MigrationTypeOK /\ \A t \in Tables : lock[t] # p
  BY NoLocks DEF IInv, Open
<1>2. FoldedInv' /\ Grown /\ \A q \in Process \ {p} : Spared(q)
  BY <1>1, QuietStep DEF Open, Goto, target, MigrationTypeOK
<1>3. MigrationTypeOK'
  BY <1>1 DEF Open, Goto, target, MigrationTypeOK, Planned, Places
<1>4. ProcessInv(p)'
  <2>1. at'[p] = "reflect" /\ job'[p] \in Jobs
    BY <1>1 DEF Open, Goto, MigrationTypeOK
  <2> QED BY <2>1, <1>1 DEF ProcessInv, SessionInv, CompareInv, ApplyInv, FitInv, LockInv, Open, target
<1> QED BY <1>2, <1>3, <1>4 DEF StepOf

LEMMA ReflectStep ==
    ASSUME IInv, NEW p \in Process, Reflect(p)
    PROVE  StepOf(p)
<1>1. MigrationTypeOK /\ (\A t \in Tables : lock[t] # p) /\ job[p] \in Jobs
  BY NoLocks DEF IInv, Reflect, ProcessInv, SessionInv
<1>2. FoldedInv' /\ Grown /\ \A q \in Process \ {p} : Spared(q)
  BY <1>1, QuietStep DEF Reflect, Goto, target, MigrationTypeOK
<1>3. MigrationTypeOK'
  <2>1. PICK t \in todo[p] : /\ saw' = [saw EXCEPT ![p][t] = Releases[release][t]]
                            /\ Goto(p, "reflect", todo[p] \ {t})
    BY DEF Reflect
  <2>2. t \in Tables /\ Releases[release][t] \in LiveTables
    BY <1>1, MigrationAssumption DEF MigrationTypeOK
  <2>3. saw' \in [Process -> [Tables -> LiveTables]]
    BY <1>1, <2>1, <2>2 DEF MigrationTypeOK
  <2>4. /\ at' \in [Process -> Places]
        /\ todo' \in [Process -> SUBSET Tables]
    BY <1>1, <2>1 DEF Goto, MigrationTypeOK, Places
  <2>5. \A u \in Tables : lock[u] # Nobody => lock[u] \in Process \ {p}
    BY <1>1 DEF MigrationTypeOK
  <2>6. \A u \in Tables : lock'[u] # Nobody => at'[lock'[u]] = "apply" /\ u \notin todo'[lock'[u]]
    BY <1>1, <2>5, <1>2 DEF MigrationTypeOK, Spared, Reflect, target
  <2> QED BY <1>1, <2>3, <2>4, <2>6 DEF Reflect, target, MigrationTypeOK
<1>4. ProcessInv(p)'
  <2>1. at'[p] = "reflect" /\ job'[p] = job[p]
    BY <1>1 DEF Reflect, Goto, MigrationTypeOK
  <2> QED BY <2>1, <1>1 DEF ProcessInv, SessionInv, CompareInv, ApplyInv, FitInv, LockInv, Reflect, target
<1> QED BY <1>2, <1>3, <1>4 DEF StepOf

LEMMA RestrictStep ==
    ASSUME IInv, NEW p \in Process, Restrict(p)
    PROVE  StepOf(p)
<1>1. MigrationTypeOK /\ (\A t \in Tables : lock[t] # p) /\ job[p] \in Jobs
  BY NoLocks DEF IInv, Restrict, ProcessInv, SessionInv
<1>2. FoldedInv' /\ Grown /\ \A q \in Process \ {p} : Spared(q)
  BY <1>1, QuietStep DEF Restrict, Goto, target, MigrationTypeOK
<1>3. MigrationTypeOK'
  <2>1. chosen' \in [Process -> SUBSET Tables]
    BY <1>1, MigrationAssumption DEF Restrict, MigrationTypeOK
  <2> QED BY <1>1, <2>1 DEF Restrict, Goto, target, MigrationTypeOK, Places
<1>4. ProcessInv(p)'
  <2>1. at'[p] = "ensure" /\ job'[p] = job[p]
    BY <1>1 DEF Restrict, Goto, MigrationTypeOK
  <2> QED BY <2>1, <1>1 DEF ProcessInv, SessionInv, CompareInv, ApplyInv, FitInv, LockInv, Restrict, target
<1> QED BY <1>2, <1>3, <1>4 DEF StepOf

LEMMA ApproveStep ==
    ASSUME IInv, NEW p \in Process, Approve(p)
    PROVE  StepOf(p)
<1>1. MigrationTypeOK /\ (\A t \in Tables : lock[t] # p) /\ job[p] \in Jobs
  BY NoLocks DEF IInv, Approve, ProcessInv, SessionInv
<1>2. FoldedInv' /\ Grown /\ \A q \in Process \ {p} : Spared(q)
  BY <1>1, QuietStep DEF Approve, Goto, target, MigrationTypeOK
<1>3. MigrationTypeOK'
  BY <1>1 DEF Approve, Goto, target, MigrationTypeOK, Places
<1>4. ProcessInv(p)'
  <2>1. at'[p] = "approved" /\ job'[p] = job[p]
    BY <1>1 DEF Approve, Goto, MigrationTypeOK
  <2> QED BY <2>1, <1>1 DEF ProcessInv, SessionInv, CompareInv, ApplyInv, FitInv, LockInv, Approve, target
<1> QED BY <1>2, <1>3, <1>4 DEF StepOf

LEMMA EnsureStep ==
    ASSUME IInv, NEW p \in Process, EnsureSchema(p)
    PROVE  StepOf(p)
<1>1. MigrationTypeOK /\ (\A t \in Tables : lock[t] # p) /\ job[p] \in Jobs
  BY NoLocks DEF IInv, EnsureSchema, ProcessInv, SessionInv
<1>2. base' \in 0..Base /\ (base = Base => base' = Base)
  BY <1>1 DEF EnsureSchema, MigrationTypeOK, Base
<1>3. FoldedInv' /\ Grown /\ \A q \in Process \ {p} : Spared(q)
  BY <1>1, <1>2, QuietStep DEF EnsureSchema, Goto, MigrationTypeOK
<1>4. MigrationTypeOK'
  <2>1. CASE base < Base
    <3>1. at' = at /\ todo' = todo
      BY <2>1 DEF EnsureSchema
    <3> QED BY <3>1, <1>1, <1>2 DEF EnsureSchema, MigrationTypeOK
  <2>2. CASE ~(base < Base)
    <3>1. Goto(p, "compare", chosen[p]) /\ base' = base
      BY <2>2 DEF EnsureSchema
    <3> QED BY <3>1, <1>1, <1>2 DEF EnsureSchema, Goto, MigrationTypeOK, Places
  <2> QED BY <2>1, <2>2
<1>5. ProcessInv(p)'
  <2>1. CASE base < Base
    <3>1. at'[p] = "ensure" /\ job'[p] = job[p] /\ lock' = lock
      BY <2>1 DEF EnsureSchema
    <3> QED BY <3>1, <1>1 DEF ProcessInv, SessionInv, CompareInv, ApplyInv, FitInv, LockInv
  <2>2. CASE ~(base < Base)
    <3>1. /\ at'[p] = "compare" /\ job'[p] = job[p] /\ lock' = lock
          /\ todo'[p] = chosen[p] /\ chosen'[p] = chosen[p] /\ saw'[p] = saw[p]
      BY <2>2, <1>1 DEF EnsureSchema, Goto, MigrationTypeOK
    <3>2. base' = Base
      BY <2>2, <1>1 DEF EnsureSchema, MigrationTypeOK, Base
    <3>3. CompareInv(p)'
      BY <3>1 DEF CompareInv, Here
    <3> QED BY <3>1, <3>2, <3>3, <1>1 DEF ProcessInv, SessionInv, ApplyInv, FitInv, LockInv
  <2> QED BY <2>1, <2>2
<1> QED BY <1>3, <1>4, <1>5 DEF StepOf

(* One more table compared: what is neither missing nor in conflict fits. *)
LEMMA CompareStep ==
    ASSUME IInv, NEW p \in Process, Compare(p)
    PROVE  StepOf(p)
<1>1. MigrationTypeOK /\ (\A t \in Tables : lock[t] # p) /\ ProcessInv(p)
  BY NoLocks DEF IInv, Compare
<1>2. FoldedInv' /\ Grown /\ \A q \in Process \ {p} : Spared(q)
  <2>1. CASE UNCHANGED <<add, blocked>>
    BY <2>1, <1>1, QuietStep DEF Compare, Goto, target, MigrationTypeOK
  <2>2. ASSUME NEW t \in Tables, NEW cols,
               add' = [add EXCEPT ![p][t] = cols],
               blocked' = [blocked EXCEPT ![p] = @ \/ Conflicts(Want(p, t), have[t]) # {}]
        PROVE  FoldedInv' /\ Grown /\ \A q \in Process \ {p} : Spared(q)
    BY <2>2, <1>1, QuietStep DEF Compare, Goto, target, MigrationTypeOK
  <2> QED BY <2>1, <2>2, <1>1 DEF Compare, MigrationTypeOK
<1>3. PICK t \in todo[p] :
        /\ t \in Here(p) => IsDesirable(job[p].file, t, saw[p][t])
        /\ IF t \in Here(p)
             THEN /\ add' = [add EXCEPT ![p][t] = Missing(Want(p, t), have[t])]
                  /\ blocked' = [blocked EXCEPT ![p] = @ \/ Conflicts(Want(p, t), have[t]) # {}]
             ELSE UNCHANGED <<add, blocked>>
        /\ Goto(p, "compare", todo[p] \ {t})
  BY DEF Compare
<1>4. t \in Tables /\ job[p] \in Jobs /\ base = Base /\ saw[p][t] \in LiveTables
  BY <1>1 DEF MigrationTypeOK, ProcessInv, SessionInv, Compare
<1>5. /\ at'[p] = "compare" /\ todo'[p] = todo[p] \ {t} /\ job' = job /\ saw' = saw
      /\ chosen' = chosen /\ have' = have /\ lock' = lock /\ base' = base
  BY <1>1, <1>3 DEF Compare, Goto, target, MigrationTypeOK
<1>6. /\ add' \in [Process -> [Tables -> SUBSET Column]]
      /\ \A u \in Tables \ {t} : add'[p][u] = add[p][u]
      /\ t \in Here(p) => add'[p][t] = Missing(Want(p, t), have[t])
  <2>1. CASE t \in Here(p)
    <3> DEFINE cols == Missing(Want(p, t), have[t])
    <3>1. cols \in SUBSET Column
      BY DEF Missing, Has
    <3>2. add' = [add EXCEPT ![p][t] = cols]
      BY <2>1, <1>3
    <3>3. add \in [Process -> [Tables -> SUBSET Column]]
      BY <1>1 DEF MigrationTypeOK
    <3> HIDE DEF cols
    <3>4. add'[p] = [add[p] EXCEPT ![t] = cols] /\ add[p] \in [Tables -> SUBSET Column]
      BY <3>2, <3>3
    <3>5. add' \in [Process -> [Tables -> SUBSET Column]]
      BY <3>1, <3>2, <3>3, <1>4
    <3>6. \A u \in Tables \ {t} : add'[p][u] = add[p][u]
      BY <3>4
    <3>7. add'[p][t] = cols
      BY <3>4, <1>4
    <3> QED BY <3>5, <3>6, <3>7 DEF cols
  <2>2. CASE t \notin Here(p)
    BY <2>2, <1>1, <1>3 DEF MigrationTypeOK
  <2> QED BY <2>1, <2>2
<1>7. /\ blocked' \in [Process -> BOOLEAN]
      /\ blocked[p] => blocked'[p]
      /\ t \in Here(p) => (blocked'[p] <=> blocked[p] \/ Conflicts(Want(p, t), have[t]) # {})
  <2>1. CASE t \in Here(p)
    <3> DEFINE verdict == blocked[p] \/ Conflicts(Want(p, t), have[t]) # {}
    <3>1. blocked' = [blocked EXCEPT ![p] = verdict]
      BY <2>1, <1>3
    <3>2. blocked \in [Process -> BOOLEAN] /\ verdict \in BOOLEAN
      BY <1>1 DEF MigrationTypeOK
    <3> HIDE DEF verdict
    <3>3. blocked' \in [Process -> BOOLEAN] /\ blocked'[p] = verdict
      BY <3>1, <3>2
    <3> QED BY <3>3 DEF verdict
  <2>2. CASE t \notin Here(p)
    <3>1. blocked' = blocked
      BY <2>2, <1>3
    <3> QED BY <3>1, <2>2, <1>1 DEF MigrationTypeOK
  <2> QED BY <2>1, <2>2
<1>8. MigrationTypeOK'
  <2>1. /\ at' \in [Process -> Places]
        /\ todo' \in [Process -> SUBSET Tables]
    BY <1>1, <1>3 DEF Goto, MigrationTypeOK, Places
  <2>2. \A u \in Tables : lock[u] # Nobody => lock[u] \in Process \ {p}
    BY <1>1 DEF MigrationTypeOK
  <2>3. \A u \in Tables : lock'[u] # Nobody => at'[lock'[u]] = "apply" /\ u \notin todo'[lock'[u]]
    BY <1>1, <1>2, <1>5, <2>2 DEF MigrationTypeOK, Spared
  <2> QED BY <1>1, <1>5, <1>6, <1>7, <2>1, <2>3 DEF Compare, target, MigrationTypeOK
<1>9. ASSUME NEW u \in Here(p), u \notin todo'[p]
      PROVE  Compared(p, u)'
  <2>1. Want(p, u)' = Want(p, u) /\ (Keyed(p, u)' <=> Keyed(p, u)) /\ u \in Tables
    BY <1>1, <1>5 DEF Want, Keyed, Here, MigrationTypeOK
  <2>2. CASE u = t
    <3>1. Keyed(p, t)
      BY <1>3, <1>4, <1>9, <2>2, DesiredShape DEF Keyed, Want
    <3>2. /\ add'[p][t] = Missing(Want(p, t), have[t])
          /\ blocked'[p] <=> blocked[p] \/ Conflicts(Want(p, t), have[t]) # {}
      BY <1>6, <1>7, <1>9, <2>2
    <3>3. \A c \in Has(Want(p, t)) \ add'[p][t] : have[t][c] # Absent
      BY <3>2 DEF Missing
    <3>4. \A c \in Has(Want(p, t)) : have[t][c] # Absent /\ Normalized(have[t][c]) # Want(p, t)[c]
              => c \in Conflicts(Want(p, t), have[t])
      BY DEF Conflicts, Has
    <3>5. blocked'[p] \/ \A c \in Has(Want(p, t)) \ add'[p][t] :
                              have[t][c] # Absent /\ Normalized(have[t][c]) = Want(p, t)[c]
      BY <3>2, <3>3, <3>4
    <3> QED BY <2>1, <2>2, <3>1, <3>5, <1>5 DEF Compared
  <2>3. CASE u # t
    <3>1. Compared(p, u)
      BY <1>1, <1>5, <1>9, <2>3 DEF ProcessInv, CompareInv, Compare
    <3>2. add'[p][u] = add[p][u] /\ (blocked[p] => blocked'[p])
      BY <1>6, <1>7, <2>1, <2>3
    <3> QED BY <2>1, <3>1, <3>2, <1>5 DEF Compared
  <2> QED BY <2>2, <2>3
<1>10. ProcessInv(p)'
  <2>1. CompareInv(p)'
    BY <1>5, <1>9 DEF CompareInv, Here
  <2> QED BY <2>1, <1>1, <1>4, <1>5 DEF ProcessInv, SessionInv, ApplyInv, FitInv, LockInv
<1> QED BY <1>2, <1>8, <1>10 DEF StepOf

(* Nothing to add and nothing in conflict: it fits as it is. *)
LEMMA UpToDateStep ==
    ASSUME IInv, NEW p \in Process, UpToDate(p)
    PROVE  StepOf(p)
<1>1. /\ MigrationTypeOK /\ (\A t \in Tables : lock[t] # p) /\ ProcessInv(p) /\ FoldedInv
      /\ job[p] \in Jobs /\ base = Base
  BY NoLocks DEF IInv, UpToDate, ProcessInv, SessionInv
<1>2. FoldedInv' /\ Grown /\ \A q \in Process \ {p} : Spared(q)
  BY <1>1, QuietStep DEF UpToDate, Goto, target, MigrationTypeOK
<1>3. MigrationTypeOK'
  BY <1>1 DEF UpToDate, Goto, target, MigrationTypeOK, Places
<1>4. /\ at'[p] \in {"done", "write"} /\ job' = job /\ saw' = saw /\ chosen' = chosen
      /\ have' = have /\ lock' = lock /\ base' = base
  BY <1>1 DEF UpToDate, Goto, target, MigrationTypeOK
<1>5. ASSUME NEW t \in Here(p)
      PROVE  Keyed(p, t) /\ Takes(have[t], Want(p, t))
  <2>1. t \in Tables
    BY <1>1 DEF Here, MigrationTypeOK
  <2>2. Compared(p, t) /\ ~blocked[p] /\ add[p][t] = {}
    BY <2>1, <1>1 DEF UpToDate, Altered, ProcessInv, CompareInv
  <2>3. ASSUME NEW c \in Has(Want(p, t))
        PROVE  have[t][Folded[c]] # Absent /\ Normalized(have[t][Folded[c]]) = Want(p, t)[c]
    <3>1. have[t][c] # Absent /\ Normalized(have[t][c]) = Want(p, t)[c] /\ c \in Column
      BY <2>2 DEF Compared, Has
    <3> QED BY <3>1, <2>1, <1>1 DEF FoldedInv
  <2> QED BY <2>2, <2>3 DEF Compared, Takes
<1>6. FitInv(p)'
  <2>1. Here(p)' = Here(p)
    BY <1>4 DEF Here
  <2>2. \A t \in Here(p) : Want(p, t)' = Want(p, t) /\ (Keyed(p, t)' <=> Keyed(p, t))
    BY <1>4 DEF Want, Keyed
  <2> QED BY <2>1, <2>2, <1>4, <1>5 DEF FitInv, Takes
<1>7. ProcessInv(p)'
  BY <1>1, <1>4, <1>6 DEF ProcessInv, SessionInv, CompareInv, ApplyInv, LockInv
<1> QED BY <1>2, <1>3, <1>7 DEF StepOf

LEMMA ApplyStep ==
    ASSUME IInv, NEW p \in Process, Apply(p)
    PROVE  StepOf(p)
<1>1. /\ MigrationTypeOK /\ (\A t \in Tables : lock[t] # p) /\ ProcessInv(p)
      /\ job[p] \in Jobs /\ base = Base
  BY NoLocks DEF IInv, Apply, ProcessInv, SessionInv
<1>2. FoldedInv' /\ Grown /\ \A q \in Process \ {p} : Spared(q)
  BY <1>1, QuietStep DEF Apply, Goto, target, MigrationTypeOK
<1>3. MigrationTypeOK'
  <2>1. Altered(p) \subseteq Tables
    BY DEF Altered
  <2> QED BY <1>1, <2>1 DEF Apply, Goto, target, MigrationTypeOK, Places
<1>4. /\ at'[p] = "apply" /\ todo'[p] = Altered(p) /\ job' = job /\ saw' = saw /\ chosen' = chosen
      /\ add' = add /\ blocked' = blocked /\ have' = have /\ lock' = lock /\ base' = base
  BY <1>1 DEF Apply, Goto, target, MigrationTypeOK
<1>5. ApplyInv(p)'
  <2>1. Here(p)' = Here(p) /\ \A t \in Here(p) : Compared(p, t)' <=> Compared(p, t)
    BY <1>4 DEF Here, Compared, Keyed, Want
  <2>2. \A t \in Here(p) : Compared(p, t)
    BY <1>1 DEF Apply, ProcessInv, CompareInv
  <2>3. \A t \in Tables : add[p][t] # {} => t \in todo'[p]
    BY <1>4 DEF Altered
  <2> QED BY <2>1, <2>2, <2>3, <1>4 DEF ApplyInv, Apply
<1>6. ProcessInv(p)'
  BY <1>1, <1>4, <1>5 DEF ProcessInv, SessionInv, CompareInv, FitInv, LockInv, Apply
<1> QED BY <1>2, <1>3, <1>6 DEF StepOf

(* A lock is taken after those of the tables that come before. *)
LEMMA ExecStep ==
    ASSUME IInv, NEW p \in Process, Exec(p)
    PROVE  StepOf(p)
<1>1. /\ MigrationTypeOK /\ FoldedInv /\ ProcessInv(p) /\ job[p] \in Jobs /\ base = Base
      /\ at[p] = "apply"
  BY DEF IInv, Exec, ProcessInv, SessionInv
<1>2. PICK t \in todo[p] : /\ IsNext(p, t) /\ lock[t] = Nobody /\ Addable(have[t], add[p][t])
                          /\ lock' = [lock EXCEPT ![t] = p]
                          /\ Goto(p, "apply", todo[p] \ {t})
  BY DEF Exec
<1>3. t \in Tables /\ Nobody \notin Process
  BY <1>1, MigrationAssumption DEF MigrationTypeOK
<1>4. /\ at' = at /\ todo'[p] = todo[p] \ {t}
      /\ \A q \in Process \ {p} : todo'[q] = todo[q]
      /\ UNCHANGED <<release, base, have, job, saw, chosen, add, blocked>>
  BY <1>1, <1>2 DEF Exec, Goto, MigrationTypeOK
<1>5. lock'[t] = p /\ \A u \in Tables \ {t} : lock'[u] = lock[u]
  BY <1>1, <1>2, <1>3 DEF MigrationTypeOK
<1>6. FoldedInv' /\ Grown /\ \A q \in Process \ {p} : Spared(q)
  BY <1>1, <1>2, <1>3, <1>4, <1>5 DEF FoldedInv, Grown, Spared
<1>7. MigrationTypeOK'
  <2>1. lock' \in [Tables -> Process \cup {Nobody}] /\ todo' \in [Process -> SUBSET Tables]
    BY <1>1, <1>2 DEF Goto, MigrationTypeOK
  <2>2. ASSUME NEW u \in Tables, lock'[u] # Nobody
        PROVE  at'[lock'[u]] = "apply" /\ u \notin todo'[lock'[u]]
    <3>1. CASE u = t
      BY <3>1, <1>1, <1>4, <1>5
    <3>2. CASE u # t
      <4>1. lock[u] \in Process /\ at[lock[u]] = "apply" /\ u \notin todo[lock[u]]
        BY <3>2, <2>2, <1>1, <1>5 DEF MigrationTypeOK
      <4> QED BY <4>1, <3>2, <1>4, <1>5
    <3> QED BY <3>1, <3>2
  <2> QED BY <1>1, <1>4, <2>1, <2>2 DEF MigrationTypeOK
<1>8. ApplyInv(p)'
  <2>1. Here(p)' = Here(p) /\ \A u \in Here(p) : Compared(p, u)' <=> Compared(p, u)
    BY <1>4 DEF Here, Compared, Keyed, Want
  <2>2. \A u \in Tables : add[p][u] # {} /\ u \notin todo'[p] => lock'[u] = p
    BY <1>1, <1>4, <1>5 DEF ProcessInv, ApplyInv
  <2> QED BY <2>1, <2>2, <1>1, <1>4 DEF ProcessInv, ApplyInv
<1>9. LockInv(p)'
  <2> SUFFICES ASSUME NEW u \in Tables, lock'[u] = p
               PROVE  Addable(have[u], add[p][u]) /\ \A v \in todo[p] \ {t} : u < v
    BY <1>4 DEF LockInv
  <2>1. CASE u = t
    <3>1. \A v \in todo[p] \ {t} : t < v
      <4>1. \A v \in todo[p] : v \in Nat /\ t \in Nat /\ t <= v
        BY <1>1, <1>2, <1>3, CatalogAssumption DEF MigrationTypeOK, Tables, IsNext
      <4> QED BY <4>1
    <3> QED BY <2>1, <3>1, <1>2
  <2>2. CASE u # t
    BY <2>2, <1>1, <1>5 DEF ProcessInv, LockInv
  <2> QED BY <2>1, <2>2
<1>10. ProcessInv(p)'
  BY <1>1, <1>4, <1>8, <1>9 DEF ProcessInv, SessionInv, CompareInv, FitInv
<1> QED BY <1>6, <1>7, <1>10 DEF StepOf

LEMMA CommitStep ==
    ASSUME IInv, NEW p \in Process, Commit(p)
    PROVE  StepOf(p)
<1>1. /\ MigrationTypeOK /\ ProcessInv(p) /\ job[p] \in Jobs /\ base = Base
      /\ at[p] = "apply" /\ todo[p] = {} /\ have' = Committed(p) /\ base' = base
  BY DEF IInv, Commit, ProcessInv, SessionInv
<1>2. /\ have' \in [Tables -> TargetTables] /\ FoldedInv' /\ Grown
      /\ \A t \in Tables : lock[t] # p => have'[t] = have[t]
      /\ \A t \in Here(p) : Keyed(p, t) /\ Takes(have'[t], Want(p, t))
  BY <1>1, CommitFits
<1>3. /\ \A t \in Tables : lock'[t] = IF lock[t] = p THEN Nobody ELSE lock[t]
      /\ Nobody \notin Process
  BY MigrationAssumption DEF Commit, Released
<1>4. /\ at'[p] \in {"done", "write"} /\ todo'[p] = {}
      /\ \A q \in Process \ {p} : at'[q] = at[q] /\ todo'[q] = todo[q]
      /\ UNCHANGED <<release, base, job, saw, chosen, add, blocked>>
  BY <1>1 DEF Commit, Goto, MigrationTypeOK
<1>5. \A q \in Process \ {p} : Spared(q)
  BY <1>2, <1>3, <1>4 DEF Spared
<1>6. MigrationTypeOK'
  <2>1. /\ at' \in [Process -> Places]
        /\ todo' \in [Process -> SUBSET Tables]
        /\ lock' \in [Tables -> Process \cup {Nobody}]
    BY <1>1 DEF Commit, Goto, Released, MigrationTypeOK, Places
  <2>2. ASSUME NEW t \in Tables, lock'[t] # Nobody
        PROVE  at'[lock'[t]] = "apply" /\ t \notin todo'[lock'[t]]
    <3>1. lock[t] # p /\ lock'[t] = lock[t] /\ lock[t] \in Process
      BY <2>2, <1>1, <1>3 DEF MigrationTypeOK
    <3> QED BY <3>1, <2>2, <1>1, <1>4 DEF MigrationTypeOK
  <2> QED BY <1>1, <1>2, <1>4, <2>1, <2>2 DEF MigrationTypeOK
<1>7. FitInv(p)'
  BY <1>2, <1>4 DEF FitInv, Here, Keyed, Want
<1>8. ProcessInv(p)'
  BY <1>1, <1>3, <1>4, <1>7 DEF ProcessInv, SessionInv, CompareInv, ApplyInv, LockInv
<1> QED BY <1>2, <1>5, <1>6, <1>8 DEF StepOf

LEMMA EveryStep ==
    ASSUME IInv, NEW p \in Process, Open(p) \/ Command(p) \/ CommitLost(p) \/ Exit(p)
    PROVE  StepOf(p)
<1>1. CASE Open(p)
  BY <1>1, OpenStep
<1>2. CASE Reflect(p)
  BY <1>2, ReflectStep
<1>3. CASE Restrict(p)
  BY <1>3, RestrictStep
<1>4. CASE EnsureSchema(p)
  BY <1>4, EnsureStep
<1>5. CASE Compare(p)
  BY <1>5, CompareStep
<1>6. CASE UpToDate(p)
  BY <1>6, UpToDateStep
<1>7. CASE Apply(p)
  BY <1>7, ApplyStep
<1>8. CASE Exec(p)
  BY <1>8, ExecStep
<1>9. CASE Commit(p)
  BY <1>9, CommitStep
<1>10. CASE Misfit(p) \/ Disapprove(p) \/ Undesirable(p) \/ Decline(p) \/ ExecFails(p) \/ Exit(p)
  BY <1>10, LeaveStep DEF Misfit, Disapprove, Undesirable, Decline, ExecFails, Exit
<1>11. CASE CommitLost(p)
  BY <1>11, LeaveStep DEF CommitLost
<1>12. CASE Approve(p)
  BY <1>12, ApproveStep
<1> QED BY <1>1, <1>2, <1>3, <1>4, <1>5, <1>6, <1>7, <1>8, <1>9, <1>10, <1>11, <1>12 DEF Command

-----------------------------------------------------------------------------
LEMMA InitInv == Init => IInv
<1> SUFFICES ASSUME Init PROVE IInv
  OBVIOUS
<1>1. MigrationTypeOK
  <2>1. Unread \in [Tables -> LiveTables] /\ Nothing \in [Tables -> SUBSET Column]
    BY DEF Unread, NoTable, LiveTables, Nothing
  <2>2. 1 \in 1..Latest /\ 0 \in 0..Base
    BY MigrationAssumption DEF Base
  <2> QED BY <2>1, <2>2, MigrationAssumption DEF Init, MigrationTypeOK, Places
<1>2. FoldedInv
  BY MigrationAssumption DEF Init, FoldedInv, Has
<1>3. \A p \in Process : ProcessInv(p)
  BY MigrationAssumption DEF Init, ProcessInv, SessionInv, CompareInv, ApplyInv, FitInv, LockInv
<1> QED BY <1>1, <1>2, <1>3 DEF IInv

LEMMA NextInv == IInv /\ [Next]_vars => IInv'
<1> SUFFICES ASSUME IInv, [Next]_vars PROVE IInv'
  OBVIOUS
<1>1. CASE Upgrade \/ UNCHANGED vars
  <2>1. /\ release' \in 1..Latest
        /\ UNCHANGED <<base, have, lock, at, job, saw, chosen, todo, add, blocked>>
    BY <1>1, MigrationAssumption DEF Upgrade, vars, target, locals, IInv, MigrationTypeOK
  <2>2. MigrationTypeOK' /\ FoldedInv'
    BY <2>1 DEF IInv, MigrationTypeOK, FoldedInv
  <2>3. ASSUME NEW p \in Process
        PROVE  ProcessInv(p)'
    <3>1. Grown /\ Spared(p)
      BY <2>1 DEF Grown, Spared
    <3> QED BY <3>1, SparedKeepsInv DEF IInv
  <2> QED BY <2>2, <2>3 DEF IInv
<1>2. ASSUME NEW p \in Process, Open(p) \/ Command(p) \/ CommitLost(p) \/ Exit(p)
      PROVE  IInv'
  BY <1>2, EveryStep, OneStepOfOne
<1> QED BY <1>1, <1>2 DEF Next

LEMMA InvHolds == Spec => []IInv
BY InitInv, NextInv, PTL DEF Spec

(* The types of the commands and of the target, and that a lock is held    *)
(* by a process that is applying, and is past the table it has locked.     *)
THEOREM MigrationTypes == Spec => []MigrationTypeOK
<1>1. IInv => MigrationTypeOK
  BY DEF IInv
<1> QED BY <1>1, InvHolds, PTL

(* A target found or made fit for a plan goes on fitting it, whatever other *)
(* commands do to it and however Apiary is upgraded.                        *)
THEOREM TargetStaysFit == Spec => []SinkFits
<1>1. IInv => SinkFits
  BY DEF IInv, ProcessInv, SessionInv, FitInv, SinkFits, Keyed
<1> QED BY <1>1, InvHolds, PTL

(* Two processes never wait for each other: each holds only tables that    *)
(* come before the one it waits for.                                       *)
THEOREM LocksAreOrdered == Spec => []NoDeadlock
<1>1. IInv => NoDeadlock
  <2> SUFFICES ASSUME IInv, NEW p \in Process, NEW q \in Process, WaitsFor(p, q), WaitsFor(q, p)
               PROVE  FALSE
    BY DEF NoDeadlock
  <2>1. PICK t \in todo[p] : lock[t] = q
    BY DEF WaitsFor
  <2>2. PICK u \in todo[q] : lock[u] = p
    BY DEF WaitsFor
  <2>3. t \in Tables /\ u \in Tables /\ t \in Nat /\ u \in Nat
    BY CatalogAssumption DEF IInv, MigrationTypeOK, Tables
  <2>4. t < u
    BY <2>1, <2>2, <2>3 DEF IInv, ProcessInv, LockInv
  <2>5. u < t
    BY <2>1, <2>2, <2>3 DEF IInv, ProcessInv, LockInv
  <2> QED BY <2>3, <2>4, <2>5
<1> QED BY <1>1, InvHolds, PTL

(* No step takes a column of the target away, or changes its type. *)
THEOREM NothingIsTaken == Spec => AdditiveOnly
<1>1. IInv /\ [Next]_vars => [\A t \in Tables : \A c \in Has(have[t]) : have'[t][c] = have[t][c]]_vars
  <2> SUFFICES ASSUME IInv, Next, NEW t \in Tables, NEW c \in Has(have[t])
               PROVE  have'[t][c] = have[t][c]
    BY DEF vars
  <2>1. CASE Upgrade
    BY <2>1 DEF Upgrade, target
  <2>2. ASSUME NEW p \in Process, Open(p) \/ Command(p) \/ CommitLost(p) \/ Exit(p)
        PROVE  have'[t][c] = have[t][c]
    BY <2>2, EveryStep DEF StepOf, Grown, Has
  <2> QED BY <2>1, <2>2 DEF Next
<1> QED BY <1>1, InvHolds, PTL DEF Spec, AdditiveOnly

(* A step that alters the target's tables carries out the whole plan of a  *)
(* command that migrates, whether or not the command learns of it.         *)
THEOREM PlansAreWhole == Spec => WholePlans
<1>1. IInv /\ [Next]_vars => [have' # have => CarriesOutAPlan]_vars
  <2> SUFFICES ASSUME IInv, Next, have' # have
               PROVE  CarriesOutAPlan
    BY DEF vars
  <2>1. PICK p \in Process : Commit(p) \/ CommitLost(p)
    BY DEF Next, Command, Upgrade, Open, Reflect, Restrict, Misfit, Approve, Disapprove,
           EnsureSchema, Compare, Undesirable, UpToDate, Apply, Decline, Exec, ExecFails, Exit, target
  <2>2. at[p] = "apply" /\ todo[p] = {} /\ have' = Committed(p) /\ base' = base
    BY <2>1 DEF Commit, CommitLost
  <2>3. job[p].cmd \in {"migrate", "migrate, write"}
    BY <2>2 DEF IInv, ProcessInv, SessionInv
  <2> QED BY <2>2, <2>3, CommitFits DEF CarriesOutAPlan
<1> QED BY <1>1, InvHolds, PTL DEF Spec, WholePlans

-----------------------------------------------------------------------------
(* What doctor has looked at, and what a command is restricted to. *)
DoctorInv(p) ==
    /\ at[p] = "approved" => Sound(p)
    /\ chosen[p] \subseteq Planned(job[p].file)

LEMMA DoctorInit == Init => \A p \in Process : DoctorInv(p)
BY DEF Init, DoctorInv

LEMMA DoctorStep ==
    ASSUME IInv, NEW p \in Process, DoctorInv(p),
           Open(p) \/ Command(p) \/ CommitLost(p) \/ Exit(p)
    PROVE  DoctorInv(p)'
<1>1. MigrationTypeOK
  BY DEF IInv
<1>2. CASE Open(p)
  BY <1>1, <1>2 DEF Open, Goto, MigrationTypeOK, DoctorInv
<1>3. CASE Reflect(p)
  <2>1. at'[p] = "reflect" /\ job' = job /\ chosen' = chosen
    BY <1>1, <1>3 DEF Reflect, Goto, MigrationTypeOK
  <2> QED BY <2>1 DEF DoctorInv
<1>4. CASE Restrict(p)
  <2>1. at'[p] = "ensure" /\ job' = job
    BY <1>1, <1>4 DEF Restrict, Goto, MigrationTypeOK
  <2>2. chosen'[p] = IF job[p].only = {} THEN chosen[p] ELSE job[p].only
    BY <1>1, <1>4 DEF Restrict, MigrationTypeOK
  <2>3. job[p].only \subseteq chosen[p]
    BY <1>4 DEF Restrict, Fits
  <2> QED BY <2>1, <2>2, <2>3 DEF DoctorInv
<1>5. CASE Approve(p)
  <2>1. job' = job /\ saw' = saw /\ chosen' = chosen
    BY <1>5 DEF Approve
  <2>2. Sound(p)' <=> Sound(p)
    BY <2>1 DEF Sound, PlanFits
  <2> QED BY <1>5, <2>1, <2>2 DEF Approve, DoctorInv
<1>6. CASE Leave(p)
  BY <1>1, <1>6 DEF Leave, MigrationTypeOK, DoctorInv
<1>7. CASE EnsureSchema(p) \/ Compare(p) \/ UpToDate(p) \/ Apply(p) \/ Exec(p) \/ Commit(p)
  <2>1. at'[p] # "approved"
    BY <1>1, <1>7 DEF EnsureSchema, Compare, UpToDate, Apply, Exec, Commit, Goto, MigrationTypeOK
  <2>2. job' = job /\ chosen' = chosen
    BY <1>7 DEF EnsureSchema, Compare, UpToDate, Apply, Exec, Commit
  <2> QED BY <2>1, <2>2 DEF DoctorInv
<1> QED BY <1>2, <1>3, <1>4, <1>5, <1>6, <1>7
     DEF Command, Misfit, Disapprove, Undesirable, Decline, ExecFails, CommitLost, Exit

LEMMA DoctorHolds == Spec => [](\A p \in Process : DoctorInv(p))
<1>1. IInv /\ (\A p \in Process : DoctorInv(p)) /\ [Next]_vars
          => (\A p \in Process : DoctorInv(p))'
  <2> SUFFICES ASSUME IInv, \A p \in Process : DoctorInv(p), [Next]_vars, NEW q \in Process
               PROVE  DoctorInv(q)'
    OBVIOUS
  <2>1. CASE at'[q] = at[q] /\ job'[q] = job[q] /\ saw'[q] = saw[q] /\ chosen'[q] = chosen[q]
    <3>1. Sound(q)' <=> Sound(q)
      BY <2>1 DEF Sound, PlanFits
    <3> QED BY <2>1, <3>1 DEF DoctorInv
  <2>2. CASE Upgrade \/ UNCHANGED vars
    BY <2>1, <2>2 DEF Upgrade, vars, locals
  <2>3. ASSUME NEW p \in Process, Open(p) \/ Command(p) \/ CommitLost(p) \/ Exit(p)
        PROVE  DoctorInv(q)'
    <3>1. CASE q = p
      BY <2>3, <3>1, DoctorStep
    <3>2. CASE q # p
      BY <2>1, <2>3, <3>2, EveryStep DEF StepOf, Spared
    <3> QED BY <3>1, <3>2
  <2> QED BY <2>2, <2>3 DEF Next
<1> QED BY <1>1, InvHolds, DoctorInit, PTL DEF Spec

(* A file that doctor approves over some source can be followed there by   *)
(* every sync of that file: the source has the columns its passes name,    *)
(* and the target the state column of its rescan.                          *)
THEOREM DoctorIsEnough == Spec => []ApprovedIsFollowable
<1>1. IInv /\ (\A p \in Process : DoctorInv(p)) => ApprovedIsFollowable
  <2> SUFFICES ASSUME IInv, \A p \in Process : DoctorInv(p),
                      NEW p \in Process, NEW q \in Process,
                      at[p] = "approved", at[q] = "write",
                      job[q].file = job[p].file, saw[q] = saw[p], NEW t \in Here(q)
               PROVE  Followable(q, t)
    BY DEF ApprovedIsFollowable
  <2> DEFINE f == job[q].file
             live == saw[q][t]
  <2>1. t \in Tables /\ t \in Planned(f) /\ Has(live) # {}
    BY DEF Here, DoctorInv, Planned
  <2>2. Matches(t, saw[q]) /\ FitsTable(f, t, live)
    BY <2>1 DEF DoctorInv, Sound, PlanFits
  <2>3. Key[t] \cup Cursor[t] \cup Filtered(f, t) \subseteq Has(live)
    BY <2>1, <2>2 DEF Matches, FitsTable
  <2>4. ASSUME Class[t] = "open_row", Keeps(f, t, State[t]), NEW c \in State[t]
        PROVE  have[t][Folded[c]] # Absent
    <3>1. c \in Columns(f, t, live)
      BY <2>1, <2>2, <2>4 DEF Matches, Keeps, Columns
    <3>2. c \in Has(Want(q, t))
      <4>1. live \in LiveTables /\ c \in Has(live)
        BY <2>1, <3>1 DEF IInv, MigrationTypeOK, Columns
      <4>2. MapColumn(live[c], c \in JSONOf(f, t)) \in PGType
        <5>1. live[c] \in Affinity
          BY <4>1 DEF LiveTables, Has
        <5>2. (c \in JSONOf(f, t)) \in BOOLEAN
          OBVIOUS
        <5> QED BY <5>1, <5>2, GeneratedTypes
      <4>3. Want(q, t)[c] \in PGType
        BY <3>1, <4>1, <4>2, GeneratedTypes DEF Want, Desired, Has
      <4> QED BY <4>1, <4>3, GeneratedTypes DEF Has
    <3>3. Takes(have[t], Want(q, t))
      BY DEF IInv, ProcessInv, FitInv
    <3> QED BY <3>2, <3>3 DEF Takes
  <2> QED BY <2>3, <2>4 DEF Followable
<1> QED BY <1>1, InvHolds, DoctorHolds, PTL

-----------------------------------------------------------------------------
(***************************************************************************)
(* The refinement of SharedSchema: a migration that looks, waits for locks *)
(* and alters table after table is one step, that of its commit.           *)
(***************************************************************************)

(* What a command is about to add is of its plan. *)
AddInv(p) == \A t \in Tables : add[p][t] \subseteq Has(Decided(p, t))

LEMMA AddInit == Init => \A p \in Process : AddInv(p)
BY DEF Init, AddInv, Nothing

(* A command that does not step, and has not decided otherwise. *)
LEMMA DecidedStays ==
    ASSUME NEW p \in Process,
           at'[p] = at[p] \/ {at[p], at'[p]} \subseteq {"compare", "apply", "done", "write"},
           job'[p] = job[p], saw'[p] = saw[p], chosen'[p] = chosen[p]
    PROVE  \A t \in Tables : Decided(p, t)' = Decided(p, t)
<1>1. Here(p)' = Here(p) /\ \A t \in Tables : Want(p, t)' = Want(p, t)
  BY DEF Here, Want
<1> QED BY <1>1 DEF Decided

LEMMA AddStep ==
    ASSUME IInv, NEW p \in Process, AddInv(p),
           Open(p) \/ Command(p) \/ CommitLost(p) \/ Exit(p)
    PROVE  AddInv(p)'
<1>1. MigrationTypeOK
  BY DEF IInv
<1>2. CASE Leave(p)
  BY <1>1, <1>2 DEF Leave, MigrationTypeOK, AddInv, Nothing
<1>3. ASSUME add' = add, at[p] \in {"off", "reflect", "ensure"}
      PROVE  AddInv(p)'
  <2>1. \A t \in Tables : add[p][t] = {}
    BY <1>3 DEF AddInv, Decided, Has, NoTable
  <2> QED BY <2>1, <1>3 DEF AddInv
<1>4. ASSUME add' = add, \A t \in Tables : Decided(p, t)' = Decided(p, t)
      PROVE  AddInv(p)'
  BY <1>4 DEF AddInv
<1>5. CASE Open(p) \/ Reflect(p) \/ Restrict(p) \/ Approve(p) \/ EnsureSchema(p)
  BY <1>3, <1>5 DEF Open, Reflect, Restrict, Approve, EnsureSchema
<1>6. CASE UpToDate(p) \/ Apply(p) \/ Exec(p) \/ Commit(p)
  <2>1. /\ add' = add /\ job' = job /\ saw' = saw /\ chosen' = chosen
        /\ {at[p], at'[p]} \subseteq {"compare", "apply", "done", "write"}
    BY <1>1, <1>6 DEF UpToDate, Apply, Exec, Commit, Goto, MigrationTypeOK
  <2> QED BY <2>1, <1>4, DecidedStays
<1>7. CASE Compare(p)
  <2>1. /\ job' = job /\ saw' = saw /\ chosen' = chosen
        /\ at[p] = "compare" /\ at'[p] = "compare"
    BY <1>1, <1>7 DEF Compare, Goto, MigrationTypeOK
  <2>2. \A t \in Tables : Decided(p, t)' = Decided(p, t)
    BY <2>1, DecidedStays
  <2>3. PICK t \in todo[p] : IF t \in Here(p)
                               THEN add' = [add EXCEPT ![p][t] = Missing(Want(p, t), have[t])]
                               ELSE add' = add
    BY <1>7 DEF Compare
  <2>4. CASE t \in Here(p)
    <3>1. Missing(Want(p, t), have[t]) \subseteq Has(Decided(p, t))
      BY <2>1, <2>4 DEF Missing, Decided
    <3>2. \A u \in Tables : add'[p][u] \subseteq add[p][u] \cup (IF u = t THEN Missing(Want(p, t), have[t]) ELSE {})
      BY <1>1, <2>3, <2>4 DEF MigrationTypeOK
    <3> QED BY <2>2, <3>1, <3>2 DEF AddInv
  <2>5. CASE t \notin Here(p)
    BY <2>2, <2>3, <2>5, <1>4
  <2> QED BY <2>4, <2>5
<1> QED BY <1>2, <1>5, <1>6, <1>7
     DEF Command, Misfit, Disapprove, Undesirable, Decline, ExecFails, CommitLost, Exit

LEMMA AddHolds == Spec => [](\A p \in Process : AddInv(p))
<1>1. IInv /\ (\A p \in Process : AddInv(p)) /\ [Next]_vars => (\A p \in Process : AddInv(p))'
  <2> SUFFICES ASSUME IInv, \A p \in Process : AddInv(p), [Next]_vars, NEW q \in Process
               PROVE  AddInv(q)'
    OBVIOUS
  <2>1. ASSUME /\ at'[q] = at[q] /\ job'[q] = job[q] /\ saw'[q] = saw[q]
               /\ chosen'[q] = chosen[q] /\ add'[q] = add[q]
        PROVE  AddInv(q)'
    BY <2>1, DecidedStays DEF AddInv
  <2>2. CASE Upgrade \/ UNCHANGED vars
    BY <2>1, <2>2 DEF Upgrade, vars, locals
  <2>3. ASSUME NEW p \in Process, Open(p) \/ Command(p) \/ CommitLost(p) \/ Exit(p)
        PROVE  AddInv(q)'
    <3>1. CASE q = p
      BY <2>3, <3>1, AddStep
    <3>2. CASE q # p
      BY <2>1, <2>3, <3>2, EveryStep DEF StepOf, Spared
    <3> QED BY <3>1, <3>2
  <2> QED BY <2>2, <2>3 DEF Next
<1> QED BY <1>1, InvHolds, AddInit, PTL DEF Spec

(* The commit leaves what the plan asks for, and adds nothing else. *)
LEMMA CommitCarriesOut ==
    ASSUME IInv, NEW p \in Process, AddInv(p), at[p] = "apply", todo[p] = {},
           have' = Committed(p), base' = base, NEW t \in Tables
    PROVE  /\ Shared!Suits(have'[t], Decided(p, t))
           /\ Shared!Gains(have'[t], have[t], Decided(p, t))
<1>1. t \in Here(p) => Decided(p, t) = Want(p, t) /\ Takes(have'[t], Want(p, t))
  BY CommitFits DEF Decided
<1>2. t \notin Here(p) => Has(Decided(p, t)) = {}
  BY DEF Decided, Has, NoTable
<1>3. Shared!Asked(Decided(p, t)) = Has(Decided(p, t))
  BY DEF Shared!Asked, Has
<1>4. Shared!Suits(have'[t], Decided(p, t))
  BY <1>1, <1>2, <1>3 DEF Shared!Suits, Takes
<1>5. ASSUME NEW c \in Column, have'[t][c] # have[t][c]
      PROVE  /\ have[t][c] = Absent
             /\ \E d \in Has(Decided(p, t)) : Folded[d] = c /\ have'[t][c] = Decided(p, t)[d]
  <2> DEFINE Name == CHOOSE d \in add[p][t] : Folded[d] = c
  <2>1. lock[t] = p
    BY <1>5 DEF Committed
  <2>2. have'[t] = WithColumns(have[t], add[p][t], Want(p, t))
    BY <2>1 DEF Committed
  <2>3. \E d \in add[p][t] : Folded[d] = c
    BY <1>5, <2>2 DEF WithColumns
  <2>4. have'[t][c] = Want(p, t)[Name]
    BY <2>2, <2>3 DEF WithColumns
  <2>5. Name \in add[p][t] /\ Folded[Name] = c
    BY <2>3
  <2> HIDE DEF Name
  <2>6. Name \in Has(Decided(p, t)) /\ t \in Here(p)
    BY <2>5, <1>2 DEF AddInv
  <2>7. have[t][Folded[Name]] = Absent
    BY <2>1, <2>5 DEF IInv, ProcessInv, LockInv, Addable
  <2> QED BY <1>1, <2>4, <2>5, <2>6, <2>7
<1> QED BY <1>3, <1>4, <1>5 DEF Shared!Gains

(* Looking, waiting, altering and committing, table after table, beside    *)
(* any number of others that do the same and writers that count on what    *)
(* they found, comes to one step of SharedSchema.                          *)
THEOREM MigrationIsOneStep == Spec => MigratesInOneStep
<1> DEFINE relying == {p \in Process : at[p] \in {"done", "write"}}
           plan == [p \in Process |-> [t \in Tables |-> Decided(p, t)]]
<1>1. Init => Shared!Init
  BY DEF Init, Shared!Init
<1>2. IInv /\ (\A p \in Process : AddInv(p)) /\ [Next]_vars => [Shared!Next]_Shared!vars
  <2> SUFFICES ASSUME IInv, \A p \in Process : AddInv(p), [Next]_vars
               PROVE  [Shared!Next]_Shared!vars
    OBVIOUS
  <2>1. CASE Upgrade \/ UNCHANGED vars
    <3>1. UNCHANGED <<have, at, job, saw, chosen>>
      BY <2>1 DEF Upgrade, vars, target, locals
    <3>2. \A p \in Process : \A t \in Tables : Decided(p, t)' = Decided(p, t)
      BY <3>1, DecidedStays
    <3> QED BY <3>1, <3>2 DEF Shared!vars
  <2>2. ASSUME NEW p \in Process, Open(p) \/ Command(p) \/ CommitLost(p) \/ Exit(p)
        PROVE  Shared!Next
    <3>1. MigrationTypeOK /\ StepOf(p)
      BY <2>2, EveryStep DEF IInv
    <3>2. \A q \in Process \ {p} : plan'[q] = plan[q] /\ (q \in relying' <=> q \in relying)
      <4> SUFFICES ASSUME NEW q \in Process \ {p}
                   PROVE  plan'[q] = plan[q] /\ (q \in relying' <=> q \in relying)
        OBVIOUS
      <4>1. \A t \in Tables : Decided(q, t)' = Decided(q, t)
        BY <3>1, DecidedStays DEF StepOf, Spared
      <4>2. at'[q] = at[q]
        BY <3>1 DEF StepOf, Spared
      <4> QED BY <4>1, <4>2
    <3>3. at'[p] \notin {"done", "write"} => Shared!Rethink(p)
      BY <3>2 DEF Shared!Rethink
    <3>4. at'[p] \in {"done", "write"} => relying' = relying \cup {p}
      BY <3>2
    <3>5. CASE Commit(p) \/ CommitLost(p)
      <4>1. at[p] = "apply" /\ todo[p] = {} /\ have' = Committed(p) /\ base' = base
        BY <3>5 DEF Commit, CommitLost
      <4>2. \A t \in Tables : /\ Shared!Suits(have'[t], plan[p][t])
                              /\ Shared!Gains(have'[t], have[t], plan[p][t])
        BY <4>1, CommitCarriesOut
      <4>3. p \notin relying
        BY <4>1
      <4>4. (relying' = relying \cup {p} /\ plan' = plan) \/ Shared!Rethink(p)
        <5>1. CASE CommitLost(p)
          BY <5>1, <3>1, <3>3 DEF CommitLost, Leave, MigrationTypeOK
        <5>2. CASE Commit(p)
          <6>1. /\ at'[p] \in {"done", "write"}
                /\ job' = job /\ saw' = saw /\ chosen' = chosen
            BY <5>2, <3>1 DEF Commit, Goto, MigrationTypeOK
          <6>2. \A t \in Tables : Decided(p, t)' = Decided(p, t)
            BY <6>1, <4>1, DecidedStays
          <6> QED BY <6>1, <6>2, <3>2, <3>4
        <5> QED BY <5>1, <5>2, <3>5
      <4>5. Shared!Migrate(p)
        BY <4>2, <4>3, <4>4 DEF Shared!Migrate
      <4> QED BY <4>5 DEF Shared!Next
    <3>6. CASE UpToDate(p)
      <4>1. /\ at[p] = "compare" /\ at'[p] \in {"done", "write"}
            /\ job' = job /\ saw' = saw /\ chosen' = chosen /\ have' = have
        BY <3>6, <3>1 DEF UpToDate, Goto, target, MigrationTypeOK
      <4>2. \A t \in Tables : Decided(p, t)' = Decided(p, t)
        BY <4>1, DecidedStays
      <4>3. ASSUME NEW t \in Tables
            PROVE  Shared!Suits(have[t], plan[p][t])
        <5>1. t \in Here(p)' => Takes(have[t], Want(p, t)')
          BY <4>1, <3>1 DEF StepOf, ProcessInv, FitInv, Takes
        <5>2. Here(p)' = Here(p) /\ Want(p, t)' = Want(p, t)
          BY <4>1 DEF Here, Want
        <5>3. t \in Here(p) => Takes(have[t], Decided(p, t))
          BY <4>1, <5>1, <5>2 DEF Decided
        <5>4. t \notin Here(p) => Has(Decided(p, t)) = {}
          BY DEF Decided, Has, NoTable
        <5> QED BY <5>3, <5>4 DEF Shared!Suits, Shared!Asked, Takes, Has
      <4>4. Shared!Rely(p)
        BY <4>1, <4>2, <4>3, <3>2, <3>4 DEF Shared!Rely
      <4> QED BY <4>4 DEF Shared!Next
    <3>7. CASE at'[p] \notin {"done", "write"} /\ have' = have
      BY <3>3, <3>7 DEF Shared!Begin, Shared!Next
    <3>8. CASE Open(p) \/ Reflect(p) \/ Restrict(p) \/ Approve(p) \/ EnsureSchema(p)
               \/ Compare(p) \/ Apply(p) \/ Exec(p)
      <4>1. have' = have /\ at'[p] \notin {"done", "write"}
        BY <3>1, <3>8 DEF Open, Reflect, Restrict, Approve, EnsureSchema, Compare, Apply, Exec,
                          Goto, target, MigrationTypeOK
      <4> QED BY <4>1, <3>7
    <3>9. CASE Leave(p) /\ have' = have
      <4>1. at'[p] = "off"
        BY <3>1, <3>9 DEF Leave, MigrationTypeOK
      <4> QED BY <4>1, <3>7, <3>9
    <3> QED BY <2>2, <3>5, <3>6, <3>8, <3>9
         DEF Command, Misfit, Disapprove, Undesirable, Decline, ExecFails, Exit
  <2> QED BY <2>1, <2>2 DEF Next
<1> QED BY <1>1, <1>2, InvHolds, AddHolds, PTL DEF Spec, MigratesInOneStep, Shared!Spec

(* What another command gains takes nothing from a plan that is suited. *)
LEMMA SuitsStays ==
    ASSUME NEW old, NEW new, NEW want, NEW other,
           Shared!Suits(old, want), Shared!Gains(new, old, other)
    PROVE  Shared!Suits(new, want)
<1>1. \A c \in Shared!Asked(want) : Folded[c] \in Column
  BY MigrationAssumption DEF Shared!Asked
<1>2. \A c \in Shared!Asked(want) : new[Folded[c]] = old[Folded[c]]
  BY <1>1 DEF Shared!Suits, Shared!Gains
<1> QED BY <1>2 DEF Shared!Suits

(* And SharedSchema is worth implementing: under it, whoever relies on the *)
(* target goes on finding all of its plan there.                           *)
THEOREM OneStepIsEnough == MigratesInOneStep => []Shared!Trusted
<1> DEFINE relying == {p \in Process : at[p] \in {"done", "write"}}
           plan == [p \in Process |-> [t \in Tables |-> Decided(p, t)]]
           Suited(r) == \A t \in Tables : Shared!Suits(have[t], plan[r][t])
<1>1. Shared!Trusted <=> \A r \in relying : Suited(r)
  BY DEF Shared!Trusted
<1>2. Shared!Init => Shared!Trusted
  BY DEF Shared!Init, Shared!Trusted
<1>3. Shared!Trusted /\ [Shared!Next]_Shared!vars => Shared!Trusted'
  <2> SUFFICES ASSUME Shared!Trusted, [Shared!Next]_Shared!vars, NEW r \in relying'
               PROVE  Suited(r)'
    BY DEF Shared!Trusted
  <2>1. r \in Process /\ \A s \in relying : Suited(s)
    BY <1>1
  <2>2. CASE UNCHANGED Shared!vars
    BY <2>1, <2>2 DEF Shared!vars
  <2>3. ASSUME NEW s \in Process, Shared!Begin(s)
        PROVE  Suited(r)'
    BY <2>1, <2>3 DEF Shared!Begin, Shared!Rethink
  <2>4. ASSUME NEW s \in Process, Shared!Rely(s)
        PROVE  Suited(r)'
    BY <2>1, <2>4 DEF Shared!Rely
  <2>5. ASSUME NEW s \in Process, Shared!Migrate(s)
        PROVE  Suited(r)'
    <3>1. CASE r = s
      BY <2>5, <3>1 DEF Shared!Migrate, Shared!Rethink
    <3>2. CASE r # s
      <4>1. r \in relying /\ plan'[r] = plan[r]
        BY <2>1, <2>5, <3>2 DEF Shared!Migrate, Shared!Rethink
      <4>2. \A t \in Tables : Shared!Gains(have'[t], have[t], plan[s][t])
        BY <2>5 DEF Shared!Migrate
      <4> QED BY <2>1, <4>1, <4>2, SuitsStays
    <3> QED BY <3>1, <3>2
  <2> QED BY <2>2, <2>3, <2>4, <2>5 DEF Shared!Next
<1> QED BY <1>2, <1>3, PTL DEF MigratesInOneStep, Shared!Spec
=============================================================================
