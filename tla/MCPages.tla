------------------------------ MODULE MCPages ------------------------------
(* The instance of Pages that TLC checks. *)
EXTENDS Pages

CONSTANTS t1, t2, c1, c2, x, y, z, g1, g2, w1, w2, k1, k2, a1, away, home, gs1, gs2

SentOf ==
  [p \in {"definitions", "results", "issues", "testForm", "copyMove", "connection", "testRuns",
          "profilingRuns", "crontab", "schedules", "wizard", "editGroup", "groupList", "catalog",
          "suites", "suiteTests", "notifications", "explorer", "monitors", "catalogDialogs"} |->
     IF p \in {"definitions", "results", "issues", "testRuns", "profilingRuns", "catalog"} THEN 1 ELSE 2]
ConnectionSent == [p \in {"connection"} |-> 1]
NotificationSent == [p \in {"notifications"} |-> 1]
ExplorerSent == [p \in {"explorer"} |-> 1]

\* "last" lets the second row through only.
MatchesOf == [f \in {"all", "last"} |-> IF f = "all" THEN {1, 2} ELSE {2}]

ColumnsOfTables == [t \in {t1, t2} |-> IF t = t1 THEN {c1} ELSE {c1, c2}]

\* Three tests for the same table, column and type.
KeyOf == [i \in {x, y, z} |-> "k"]
Targets == {[suite |-> "here", key |-> "k"], [suite |-> "there", key |-> "own"]}

DefaultPorts ==
  [f \in {"postgresql", "azure_mssql", "databricks", "snowflake"} |->
     CASE f = "postgresql" -> "5432" [] f = "azure_mssql" -> "1433" [] OTHER -> "443"]

\* Lists of hours that are no steps, an n-th hour, a day of the month, a week.
TypedExpressions ==
  {Cron(Only({8, 12}), AnyTime, {}), Cron(Only({9, 17}), AnyTime, {}), Cron(Every(6), AnyTime, {}),
   Cron(Only({6}), Only({15}), {}), Cron(Only({6}), AnyTime, {<<1, 5>>})}
Weekly == Cron(Only({6}), AnyTime, {<<1, 5>>})
Refused == {Cron(Every(25), AnyTime, {})}
PickedExpressions == {Weekly} \cup Refused

ExtraOf == [p \in {"wizard", "editGroup"} |-> IF p = "wizard" THEN {"x1"} ELSE {"x1", "x2"}]

Pick(c) == [field |-> "column", value |-> c]
PickLists == {<<Pick("c1")>>, <<Pick("c1"), Pick("c2")>>}
ScoreCards ==
  {[name |-> "n1", by |-> "fields",
    filters |-> <<[field |-> "f1", value |-> "v1"], [field |-> "f1", value |-> "v2"]>>],
   [name |-> "n1", by |-> "columns", filters |-> <<Pick("c1")>>]}

\* The dialog hands over columns here, no whole table group.
ASSUME PicksAssumption == ColumnsTold

TablesOfColumns == [c \in {c1, c2} |-> t1]
=============================================================================
