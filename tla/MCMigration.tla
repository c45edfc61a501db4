---------------------------- MODULE MCMigration ----------------------------
(***************************************************************************)
(* Migration as TLC runs it: two tables, the second of which comes with an *)
(* upgrade that also adds a column to the first, and configurations that   *)
(* agree and disagree about them.                                          *)
(***************************************************************************)
EXTENDS Migration, TLC

MCColumn == {"apiary_instance", "id", "meta", "team", "Team"}
MCFolded == [c \in MCColumn |-> IF c = "Team" THEN "team" ELSE c]

MCKey == [t \in Tables |-> {"id"}]
MCCursor == [t \in Tables |-> IF t = 1 THEN {"id"} ELSE {}]
MCClass == [t \in Tables |-> IF t = 1 THEN "open_row" ELSE "follow_parent"]
MCState == [t \in Tables |-> IF t = 1 THEN {"meta"} ELSE {}]
MCParent == [t \in Tables |-> IF t = 1 THEN {} ELSE {[table |-> 1, local |-> "id", remote |-> "id"]}]
MCTimeColumn == [t \in Tables |-> IF t = 1 THEN {"meta"} ELSE {}]
MCJSONColumns == [t \in Tables |-> {}]

With(columns) == [c \in MCColumn |-> IF c \in DOMAIN columns THEN columns[c] ELSE Absent]

MCReleases ==
    << <<With("id" :> "integer"), NoTable>>,
       <<With("id" :> "integer" @@ "meta" :> "text"), With("id" :> "integer" @@ "team" :> "text")>> >>

Defaults == [enabled |-> {}, exclude |-> {}, extra |-> <<>>, filters |-> {}, window |-> FALSE]
File(defaults, tables) == [defaults |-> defaults, tables |-> tables]

Plain      == File(Defaults, <<>>)
AsJSON     == File(Defaults, 1 :> [NoBlock EXCEPT !.json = {"meta"}])
Labelled   == File([Defaults EXCEPT !.extra = "team" :> [type |-> "text", reads |-> {"id"}]],
                   2 :> [NoBlock EXCEPT !.exclude = {"team"}, !.enabled = {FALSE}])
Capital    == File([Defaults EXCEPT !.extra = "Team" :> [type |-> "text", reads |-> {}], !.enabled = {FALSE}],
                   1 :> [NoBlock EXCEPT !.enabled = {TRUE}])
Reserved   == File([Defaults EXCEPT !.extra = "apiary_instance" :> [type |-> "text", reads |-> {}]], <<>>)
Recent     == File([Defaults EXCEPT !.window = TRUE], 2 :> [NoBlock EXCEPT !.ignore = TRUE, !.include = {"id"}])
Keyless    == File([Defaults EXCEPT !.exclude = {"id"}], <<>>)
Stateless  == File([Defaults EXCEPT !.exclude = {"meta"}], <<>>)

Job(cmd, file, only) == [cmd |-> cmd, file |-> file, only |-> only]

MCJobs ==
    { Job("doctor", Plain, {}), Job("doctor", Recent, {}), Job("doctor", Keyless, {}),
      Job("doctor", Stateless, {}), Job("write", Stateless, {}),
      Job("migrate", Plain, {}), Job("migrate", AsJSON, {1, 2}), Job("migrate", Labelled, {}),
      Job("migrate", Reserved, {}), Job("migrate", Keyless, {}), Job("dry-run", Recent, {}),
      Job("migrate, write", Capital, {}), Job("write", Plain, {}), Job("write", Recent, {2}) }

MCHandmade ==
    { <<NoTable, With("id" :> "integer")>>,
      <<With("id" :> "bigint" @@ "meta" :> "varchar"), NoTable>> }
============================================================================
