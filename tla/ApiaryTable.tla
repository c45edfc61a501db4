---------------------------- MODULE ApiaryTable ----------------------------
(***************************************************************************)
(* One table of the Apiary database, as pgsink meets it: rows written by a *)
(* daemon that pgsink neither coordinates with nor slows down.  The daemon *)
(* is outside the repository; what it may do to a table is what            *)
(* catalog/tables.yaml says of the table's class and cursor column.        *)
(***************************************************************************)
EXTENDS Naturals, FiniteSets

CONSTANTS
    Class,         \* how the catalog says the table is followed
    CursorColumn,  \* the column the table advances on, or "none"
    Filtering,     \* what the configured filters look at (Filterings)
    Refusals,      \* may the daemon write a row the target refuses?
    MaxRow,        \* bound: rows the table ever holds
    MaxRev,        \* bound: versions one row goes through
    MaxTime,       \* bound: the daemon's clock
    MaxGone,       \* bound: rows the daemon deletes
    Skew,          \* how far behind the clock a committed stamp may be
    Legacy         \* rows older than the sink; their stamps do not parse

(* A pass treats follow_parent exactly as snapshot until it has a mark,    *)
(* and it never gets one (Service): that class is not listed here.         *)
Classes == {"append_only", "mutable", "open_row", "snapshot"}

CursorColumns == {"id", "created_at", "updated_at", "finished_at", "none"}

(* "none": no filter.  "fixed": a filter over columns set at insert.       *)
(* "moving": over columns that any update may change.  "state": over the   *)
(* state column, as in `status in (success, failed)`.                      *)
Filterings == {"none", "fixed", "moving", "state"}

ASSUME ClassAssumption == Class \in Classes
ASSUME CursorAssumption ==
    /\ CursorColumn \in CursorColumns
    /\ CursorColumn = "none" <=> Class = "snapshot"
ASSUME FilteringAssumption == Filtering \in Filterings /\ Refusals \in BOOLEAN
ASSUME BoundAssumption ==
    /\ MaxRow \in Nat /\ MaxRev \in Nat /\ MaxTime \in Nat /\ MaxGone \in Nat
    /\ Skew \in Nat /\ Legacy \in 0..MaxRow
    /\ MaxRev >= 1 /\ MaxTime >= 1

VARIABLES
    src,   \* src[k]: the latest version of row k, NoRow before its insert
    gone,  \* rows the daemon has deleted
    top,   \* highest rowid handed out: AUTOINCREMENT, never reused
    now    \* the daemon's clock

srcVars == <<src, gone, top, now>>

(***************************************************************************)
(* Rows.  A row is identified by its rowid, and a version of it by `rev`:  *)
(* the rest of a version is what the pipeline can tell apart, namely its   *)
(* cursor value (0 is NULL, or a text strftime cannot parse), whether the  *)
(* state column is terminal, whether the filters admit it and whether the  *)
(* target refuses it.                                                      *)
(***************************************************************************)
RowId == 1..MaxRow

Version == [rev: Nat, cur: Nat, settled: BOOLEAN, shown: BOOLEAN, refused: BOOLEAN]

NoRow == [rev |-> 0, cur |-> 0, settled |-> TRUE, shown |-> FALSE, refused |-> FALSE]

Real(v) == v.rev > 0

Live(k) == Real(src[k]) /\ k \notin gone

(* Compile: the rows a read of the table can return at all. *)
Admitted == {k \in RowId : Live(k) /\ src[k].shown}

Timestamped == CursorColumn \in {"created_at", "updated_at", "finished_at"}

(* The stamps a row committed now may carry: taken before the commit, on a *)
(* clock that may have been stepped back by up to Skew.                    *)
Stamps == {t \in 1..now : t + Skew >= now}

(* Only open_row tables have a life cycle the sink looks at. *)
StatesAfter == IF Class = "open_row" THEN BOOLEAN ELSE {TRUE}

ShownAfter(old, settled) ==
    CASE Filtering = "none"   -> {TRUE}
      [] Filtering = "fixed"  -> IF Real(old) THEN {old.shown} ELSE BOOLEAN
      [] Filtering = "moving" -> BOOLEAN
      [] Filtering = "state"  -> {settled}

RefusedAfter == IF Refusals THEN BOOLEAN ELSE {FALSE}

(* The cursor column of row k after a write that stamps it with t. *)
CursorAfter(k, old, settled, t) ==
    CASE CursorColumn = "id"          -> k
      [] CursorColumn = "created_at"  -> IF Real(old) THEN old.cur ELSE t
      [] CursorColumn = "updated_at"  -> t
      [] CursorColumn = "finished_at" -> IF settled THEN t ELSE 0
      [] CursorColumn = "none"        -> 0

(* One committed write of row k: its first version or its next one. *)
Write(k) ==
    \E settled \in StatesAfter, refused \in RefusedAfter, t \in Stamps :
        \E shown \in ShownAfter(src[k], settled) :
            src' = [src EXCEPT ![k] =
                      [rev     |-> src[k].rev + 1,
                       cur     |-> CursorAfter(k, src[k], settled, t),
                       settled |-> settled,
                       shown   |-> shown,
                       refused |-> refused]]

LegacyRow(k) ==
    [rev |-> 1, cur |-> IF CursorColumn = "id" THEN k ELSE 0,
     settled |-> TRUE, shown |-> TRUE, refused |-> FALSE]

SrcInit ==
    /\ src = [k \in RowId |-> IF k <= Legacy THEN LegacyRow(k) ELSE NoRow]
    /\ gone = {}
    /\ top = Legacy
    /\ now = 1

(***************************************************************************)
(* The daemon's steps.  Each is one committed SQLite transaction.          *)
(***************************************************************************)
Insert ==
    /\ top < MaxRow
    /\ top' = top + 1
    /\ Write(top + 1)
    /\ UNCHANGED <<gone, now>>

(* append_only rows are never updated; an open_row row stops once settled. *)
Update(k) ==
    /\ Class # "append_only"
    /\ Live(k) /\ src[k].rev < MaxRev
    /\ Class = "open_row" => ~src[k].settled
    /\ Write(k)
    /\ UNCHANGED <<gone, top, now>>

(* Retention: the daemon drops old rows, the sink keeps its copy. *)
Prune(k) ==
    /\ Live(k)
    /\ Cardinality(gone) < MaxGone
    /\ gone' = gone \cup {k}
    /\ UNCHANGED <<src, top, now>>

Tick ==
    /\ now < MaxTime
    /\ now' = now + 1
    /\ UNCHANGED <<src, gone, top>>

Daemon == Insert \/ Tick \/ \E k \in RowId : Update(k) \/ Prune(k)
=============================================================================
