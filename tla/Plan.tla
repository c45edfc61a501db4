-------------------------------- MODULE Plan --------------------------------
(***************************************************************************)
(* What a configuration file asks for: the plan it resolves to             *)
(* (config.Resolve), whether the plan fits an Apiary database (Plan.Check) *)
(* and the target schema it needs (target.Desired), table by table.        *)
(* Pure operators: the commands that apply them are in Migration.          *)
(***************************************************************************)
EXTENDS Naturals

CONSTANTS
    TableCount,      \* the catalog's tables, numbered in the order of their names
    Class,           \* Class[t]: how the rows of t change
    Column,          \* names a column may have, as a file or a database spells them
    InstanceColumn,  \* target.InstanceColumn
    Key,             \* Key[t]: the catalog's key columns of t
    Cursor,          \* Cursor[t]: the set that holds its cursor column, or {}
    State,           \* State[t]: the set that holds its state column, or {}
    Parent,          \* Parent[t]: the set that holds its parent link, or {}
    TimeColumn,      \* TimeColumn[t]: the set that holds its time column, or {}
    JSONColumns      \* JSONColumns[t]: the columns the catalog knows to hold JSON

Tables == 1..TableCount

(* Declared types of SQLite, by affinity, and the types pgtype generates. *)
Affinity == {"boolean", "timestamp", "integer", "real", "blob", "numeric", "text"}
PGType == {"boolean", "timestamptz", "bigint", "double precision", "bytea", "numeric",
           "text", "jsonb"}

(* Types of a target column that somebody else created. *)
Foreign == {"varchar", "integer", "smallint", "real", "uuid", "date"}

(* A parent link: a column of t, and the column of another table it refers to. *)
Links == [table : Tables, local : Column, remote : Column]

Classes == {"append_only", "mutable", "open_row", "follow_parent", "snapshot"}

Absent == "absent"
NoTable == [c \in Column |-> Absent]

(* Catalog.Validate: what the class of a table requires of its entry. *)
Valid(t) ==
    /\ Key[t] # {}
    /\ Class[t] \in {"append_only", "mutable", "open_row"} => Cursor[t] # {}
    /\ Class[t] \in {"follow_parent", "snapshot"} => Cursor[t] = {}
    /\ Class[t] = "open_row" => State[t] # {}
    /\ Class[t] = "follow_parent" => Parent[t] # {}
    /\ \A link \in Parent[t] : link.table # t

ASSUME CatalogAssumption ==
    /\ TableCount \in Nat
    /\ InstanceColumn \in Column
    /\ Class \in [Tables -> Classes]
    /\ Key \in [Tables -> SUBSET Column]
    /\ Cursor \in [Tables -> SUBSET Column]
    /\ State \in [Tables -> SUBSET Column]
    /\ Parent \in [Tables -> SUBSET Links]
    /\ \A t \in Tables : Valid(t)
    /\ TimeColumn \in [Tables -> SUBSET Column]
    /\ JSONColumns \in [Tables -> SUBSET Column]

LiveTables == [Column -> Affinity \cup {Absent}]
TargetTables == [Column -> PGType \cup Foreign \cup {Absent}]

Has(table) == {c \in Column : table[c] # Absent}

-----------------------------------------------------------------------------
(* A file: the defaults, and a block for some of the names under `tables`. *)
(* `enabled` is a set: {} when the file does not say.  `extra` maps a name *)
(* to its type and to the source columns its template reads.               *)
NoBlock == [enabled |-> {}, include |-> {}, exclude |-> {}, extra |-> <<>>,
            filters |-> {}, json |-> {}, ignore |-> FALSE]

Block(f, t) == IF t \in DOMAIN f.tables THEN f.tables[t] ELSE NoBlock

(* Three states: the table's own setting wins, then the default, then on. *)
Enabled(f, t) ==
    LET own == Block(f, t).enabled
    IN IF own # {} THEN own = {TRUE} ELSE f.defaults.enabled # {FALSE}

(* Exclusions only add up; an extra field of the table replaces a default. *)
Excluded(f, t) == f.defaults.exclude \cup Block(f, t).exclude

Extras(f, t) ==
    LET own == Block(f, t).extra
        all == f.defaults.extra
    IN [c \in DOMAIN own \cup DOMAIN all |-> IF c \in DOMAIN own THEN own[c] ELSE all[c]]

JSONOf(f, t) == JSONColumns[t] \cup Block(f, t).json

(* The columns the filters read: the table may set the global ones aside. *)
Filtered(f, t) ==
    Block(f, t).filters \cup
        (IF Block(f, t).ignore THEN {}
         ELSE f.defaults.filters \cup (IF f.defaults.window THEN TimeColumn[t] ELSE {}))

(* A key or a cursor column may be neither excluded nor left out. *)
Keeps(f, t, needed) ==
    /\ needed \cap Excluded(f, t) = {}
    /\ Block(f, t).include # {} => needed \subseteq Block(f, t).include

Planned(f) == {t \in Tables : Enabled(f, t)}

Resolves(f) ==
    /\ DOMAIN f.tables \subseteq Tables
    /\ \A t \in Planned(f) : Keeps(f, t, Key[t]) /\ Keeps(f, t, Cursor[t])
    /\ Planned(f) # {}

(* Table.Columns: the source columns to read from a live table. *)
Columns(f, t, live) ==
    (IF Block(f, t).include # {} THEN Block(f, t).include \cap Has(live) ELSE Has(live))
        \ Excluded(f, t)

(* Plan.Check of one table; one the database does not have is no error. *)
FitsTable(f, t, live) ==
    LET extras == Extras(f, t)
    IN Has(live) # {} =>
        /\ Filtered(f, t) \cup Block(f, t).include \subseteq Has(live)
        /\ \A c \in DOMAIN extras :
               c \notin Has(live) /\ extras[c].reads \subseteq Has(live) \ Excluded(f, t)

-----------------------------------------------------------------------------
(* Drift: does the catalog match a live schema, as far as its errors go?   *)
(* A table the database does not have is skipped, with a warning.          *)
(* Mutant: the loss of a state column is a warning for every class.        *)
DriftsLittle(t, live) ==
    Has(live[t]) # {} =>
        /\ Key[t] \cup Cursor[t] \subseteq Has(live[t])
        /\ \A link \in Parent[t] :
               link.local \in Has(live[t]) /\ link.remote \in Has(live[link.table])

Matches(t, live) ==
    Has(live[t]) # {} =>
        /\ Key[t] \cup Cursor[t] \subseteq Has(live[t])
        /\ Class[t] = "open_row" => State[t] \subseteq Has(live[t])
        /\ \A link \in Parent[t] :
               link.local \in Has(live[t]) /\ link.remote \in Has(live[link.table])

-----------------------------------------------------------------------------
MapColumn(affinity, isJSON) ==
    CASE isJSON                              -> "jsonb"
      [] ~isJSON /\ affinity = "timestamp"   -> "timestamptz"
      [] ~isJSON /\ affinity = "integer"     -> "bigint"
      [] ~isJSON /\ affinity = "real"        -> "double precision"
      [] ~isJSON /\ affinity = "blob"        -> "bytea"
      [] OTHER                               -> affinity

(* normalizePGType: the type the diff takes a target column to have. *)
Normalized(type) ==
    CASE type \in PGType -> type
      [] type \in {"integer", "smallint"} -> "bigint"
      [] type = "real" -> "double precision"
      [] OTHER -> "text"

(* Does Desired return a schema?  The instance column is reserved, a name  *)
(* stands for one column, and the key is among the columns.                *)
IsDesirable(f, t, live) ==
    /\ InstanceColumn \notin DOMAIN Extras(f, t)
    /\ DOMAIN Extras(f, t) \cap Columns(f, t, live) = {}
    /\ Key[t] \subseteq Columns(f, t, live) \cup DOMAIN Extras(f, t) \cup {InstanceColumn}

Desired(f, t, live) ==
    LET columns == Columns(f, t, live)
        extras  == Extras(f, t)
    IN [c \in Column |->
           IF c = InstanceColumn THEN "text"
           ELSE IF c \in columns THEN MapColumn(live[c], c \in JSONOf(f, t))
           ELSE IF c \in DOMAIN extras THEN extras[c].type
           ELSE Absent]

(* Mutant: only what is missing counts. *)
NoConflicts(want, have) == {}

(* Diff: the columns to create, and those whose type would have to change. *)
Missing(want, have) == {c \in Has(want) : have[c] = Absent}
Conflicts(want, have) == {c \in Has(want) \cap Has(have) : Normalized(have[c]) # want[c]}
=============================================================================
