----------------------------- MODULE GridPages -----------------------------
(***************************************************************************)
(* The pages built around the selectable table: test definitions            *)
(* (pages/test_definitions.js), test results (pages/test_results.js) and    *)
(* hygiene issues (pages/hygiene_issues.js), each with the callbacks of its  *)
(* view on the server. One of them is open. An attribute that the user sets  *)
(* on rows (active, lock, flag, disposition) is the set server.marked.       *)
(***************************************************************************)
EXTENDS DataGrid

GridPage == {"definitions", "results", "issues"}

\* A page that was just opened, with the filter of its query parameters.
OpenedGrid(f, z) ==
  LET s == [db |-> Row, filter |-> f, sort |-> <<[field |-> "table", order |-> "asc"]>>,
            pg |-> 0, size |-> z, selected |-> None, dialog |-> None, marked |-> {}]
  IN /\ server = s
     /\ ui = Delivered([multi |-> FALSE, all |-> FALSE, chk |-> {}, restore |-> {}, hl |-> {},
                        row |-> None, filter |-> f, sort |-> s.sort, rows |-> {},
                        total |-> 0, pg |-> 0, size |-> z, marked |-> {},
                        order |-> s.sort, selected |-> None, info |-> None, open |-> FALSE], s)

DefinitionsOpened == page = "definitions" /\ \E f \in Filter, z \in Size : OpenedGrid(f, z)
ResultsOpened == page = "results" /\ \E f \in Filter, z \in Size : OpenedGrid(f, z)
IssuesOpened == page = "issues" /\ \E f \in Filter, z \in Size : OpenedGrid(f, z)

GridInit ==
  /\ DefinitionsOpened \/ ResultsOpened \/ IssuesOpened
  /\ sent = <<>> /\ picked = {}

\* A dialog covers the page.
On(p) == page = p /\ ~ui.open

-----------------------------------------------------------------------------
(* What a user does on any of the three pages. ids and marks carry what the  *)
(* browser showed when the event was emitted.                                *)

ToggleMulti ==
  /\ ui' = MultiToggled(ui)
  /\ picked' = {}
  /\ UNCHANGED <<sent, server>>

ToggleAll ==
  /\ ui.multi
  /\ ui' = AllToggled(ui)
  /\ picked' = (IF ui.all THEN {} ELSE picked \cup ui.rows)
  /\ UNCHANGED <<sent, server>>

Click(r) ==
  /\ r \in ui.rows
  /\ ui.multi \/ r \notin ui.hl
  /\ ui' = Clicked(ui, r)
  /\ IF ui.multi THEN Choose(ui, [ui EXCEPT !.hl = Highlighted(ui, r)], r)
                 ELSE UNCHANGED picked
  /\ UNCHANGED server

SortBy(field) ==
  /\ ui' = [ui EXCEPT !.sort = NextSort(@, field)]
  /\ Emit([op |-> "sort", columns |-> ui'.sort])
  /\ UNCHANGED <<server, picked>>

TurnPage ==
  \/ \E p \in PagesOffered(ui.pg, ui.size, ui.total) :
       /\ Emit([op |-> "page", pg |-> p])
       /\ UNCHANGED <<ui, picked>>
  \/ \E z \in Size \ {ui.size} :
       /\ ui' = SizeChanged(ui)
       /\ picked' = (IF ui.all THEN picked ELSE {})
       /\ Emit([op |-> "page", pg |-> 0, size |-> z])

\* Rows that an action on the selection applies to, by the pages' getters.
SelectedIds == IF ui.multi THEN ui.restore ELSE {ui.row} \ {None}
SelectedOrRow == IF ui.multi /\ ui.restore # {} THEN ui.restore ELSE {ui.row} \ {None}

MarkAll(value) == Emit([op |-> "markAll", value |-> value])
MarkIds(ids, value) == Emit([op |-> "mark", ids |-> ids, value |-> value])

-----------------------------------------------------------------------------
(* Test definitions.                                                        *)

DefinitionsToggle == On("definitions") /\ (ToggleMulti \/ ToggleAll)

DefinitionsClick(r) == On("definitions") /\ Click(r) /\ UNCHANGED sent

\* The row selected before stays selected.
DefinitionsFilter(f) ==
  /\ On("definitions") /\ f # ui.filter
  /\ ui' = [ui EXCEPT !.filter = f]
  /\ Emit([op |-> "filter", filter |-> f])
  /\ UNCHANGED <<server, picked>>

DefinitionsSort == On("definitions") /\ SortBy("table")

DefinitionsPage == On("definitions") /\ TurnPage /\ UNCHANGED server

\* Whether the buttons over the table have anything to act on.
DefinitionsSelected == IF ui.multi THEN ui.restore # {} ELSE ui.row \in ui.rows

\* Delete, or unlock: the ids, or all that the filter lets through.
DefinitionsOpenDialog ==
  /\ On("definitions") /\ (ui.all \/ DefinitionsSelected)
  /\ Emit(IF ui.all THEN [op |-> "openAll"]
                    ELSE [op |-> "open", ids |-> SelectedIds])
  /\ UNCHANGED <<ui, server, picked>>

DefinitionsConfirm ==
  /\ page = "definitions" /\ ui.open
  /\ ui' = [ui EXCEPT !.open = FALSE]
  /\ \E op \in {"delete", "unlock"} : Emit([op |-> op, ids |-> ui.info])
  /\ UNCHANGED <<server, picked>>

DefinitionsCancel ==
  /\ page = "definitions" /\ ui.open
  /\ ui' = [ui EXCEPT !.open = FALSE]
  /\ Emit([op |-> "close"])
  /\ UNCHANGED <<server, picked>>

\* In single selection a button is off when the row already has its value.
DefinitionsMark(value) ==
  /\ On("definitions") /\ (ui.all \/ DefinitionsSelected)
  /\ ui.multi \/ (ui.row \in ui.marked) # value
  /\ IF ui.all THEN MarkAll(value) ELSE MarkIds(SelectedIds, value)
  /\ UNCHANGED <<ui, server, picked>>

\* The details under the table.
DefinitionsDetail == ~ui.multi /\ ui.row \in ui.rows

-----------------------------------------------------------------------------
(* Test results.                                                            *)

ResultsToggle == On("results") /\ (ToggleMulti \/ ToggleAll)

\* In single selection the details of another row are asked for.
ResultsClick(r) ==
  /\ On("results") /\ Click(r)
  /\ IF ~ui.multi /\ r # ui.row THEN Emit([op |-> "select", row |-> r]) ELSE UNCHANGED sent

ResultsFilter(f) ==
  /\ On("results") /\ f # ui.filter
  /\ ui' = [ui EXCEPT !.filter = f, !.row = None]
  /\ Emit([op |-> "filter", filter |-> f])
  /\ UNCHANGED <<server, picked>>

ResultsSort == On("results") /\ SortBy("table")

ResultsPage == On("results") /\ TurnPage /\ UNCHANGED server

\* A disposition.
ResultsDispose(value) ==
  /\ On("results")
  /\ IF ui.multi THEN ui.all \/ ui.restore # {} ELSE ui.row \in ui.rows
  /\ IF ui.all THEN MarkAll(value) ELSE SelectedOrRow # {} /\ MarkIds(SelectedOrRow, value)
  /\ UNCHANGED <<ui, server, picked>>

\* A flag: with nothing checked it goes to the row selected before.
ResultsFlag(value) ==
  /\ On("results")
  /\ ui.all \/ ui.restore # {} \/ ui.row \in ui.rows
  /\ IF ui.all THEN MarkAll(value)
     ELSE MarkIds(IF ui.restore # {} THEN SelectedOrRow ELSE {ui.row}, value)
  /\ UNCHANGED <<ui, server, picked>>

\* The details: those of the selected row, or "Loading details..." until they
\* arrive.
ResultsDetail == ~ui.multi /\ ui.row \in ui.rows

-----------------------------------------------------------------------------
(* Hygiene issues.                                                          *)

IssuesToggle == On("issues") /\ (ToggleMulti \/ ToggleAll)

IssuesClick(r) ==
  /\ On("issues") /\ Click(r)
  /\ IF ~ui.multi /\ r # ui.row THEN Emit([op |-> "select", row |-> r]) ELSE UNCHANGED sent

IssuesFilter(f) ==
  /\ On("issues") /\ f # ui.filter
  /\ ui' = [ui EXCEPT !.filter = f, !.row = None]
  /\ Emit([op |-> "filter", filter |-> f])
  /\ UNCHANGED <<server, picked>>

IssuesSort == On("issues") /\ SortBy("table")

IssuesPage == On("issues") /\ TurnPage /\ UNCHANGED server

IssuesDispose(value) ==
  /\ On("issues")
  /\ IF ui.multi THEN ui.restore # {} ELSE ui.row \in ui.rows
  /\ IF ui.all THEN MarkAll(value) ELSE MarkIds(SelectedOrRow, value)
  /\ UNCHANGED <<ui, server, picked>>

IssuesDetail == ~ui.multi /\ ui.row \in ui.rows

-----------------------------------------------------------------------------
(* The callbacks on the server.                                             *)

Marked(s, ids, value) ==
  [s EXCEPT !.marked = IF value THEN @ \cup (ids \cap s.db) ELSE @ \ ids]

FilterSet(s, e) == [s EXCEPT !.filter = e.filter, !.pg = 0, !.selected = None]

\* The size comes with it when another was chosen.
PageSet(s, e) ==
  [s EXCEPT !.pg = e.pg, !.size = IF "size" \in DOMAIN e THEN e.size ELSE @, !.selected = None]

SortSet(s, e) == [s EXCEPT !.sort = e.columns, !.pg = 0, !.selected = None]

\* UpdateAttributeAll, DispositionAll, FlagAll.
MarkedAll(s, e) == Marked(s, Matching(s), e.value)

\* The details of a row, if the page still has it.
SelectSet(s, e) ==
  IF page = "results" /\ e.row \notin PageRows(s) THEN s ELSE [s EXCEPT !.selected = e.row]

Answered(s, e) ==
  CASE e.op = "filter"  -> FilterSet(s, e)
    [] e.op = "page"    -> PageSet(s, e)
    [] e.op = "sort"    -> SortSet(s, e)
    [] e.op = "select"  -> SelectSet(s, e)
    [] e.op = "mark"    -> Marked(s, e.ids, e.value)
    [] e.op = "markAll" -> MarkedAll(s, e)
    [] e.op = "open"    -> [s EXCEPT !.dialog = e.ids]
    [] e.op = "openAll" -> [s EXCEPT !.dialog = Matching(s)]
    [] e.op = "close"   -> [s EXCEPT !.dialog = None]
    [] e.op = "delete"  -> [s EXCEPT !.db = @ \ e.ids, !.marked = @ \ e.ids, !.dialog = None]
    [] e.op = "unlock"  -> [Marked(s, e.ids, FALSE) EXCEPT !.dialog = None]

\* A callback and the run of the script that follows it.
ServeGrid ==
  /\ page \in GridPage /\ Take
  /\ server' = Answered(server, Head(sent))
  /\ ui' = Delivered(ui, server')
  /\ picked' = picked \cap server'.db

GridUser ==
  \/ DefinitionsToggle \/ ResultsToggle \/ IssuesToggle
  \/ \E r \in Row : DefinitionsClick(r) \/ ResultsClick(r) \/ IssuesClick(r)
  \/ \E f \in Filter : DefinitionsFilter(f) \/ ResultsFilter(f) \/ IssuesFilter(f)
  \/ DefinitionsSort \/ ResultsSort \/ IssuesSort
  \/ DefinitionsPage \/ ResultsPage \/ IssuesPage
  \/ \E v \in BOOLEAN : \/ DefinitionsMark(v) \/ ResultsDispose(v) \/ ResultsFlag(v)
                        \/ IssuesDispose(v)
  \/ DefinitionsOpenDialog \/ DefinitionsConfirm \/ DefinitionsCancel

GridNext == (GridUser \/ ServeGrid) /\ UNCHANGED page

-----------------------------------------------------------------------------
(* Properties.                                                              *)

\* The three copies of the selection agree: a row of the page is ticked
\* exactly when it is in the set that outlives the page, and then it is
\* highlighted too, whatever arrived from the server in the meantime. With one
\* row to select, the row whose details are shown is the one highlighted.
CheckmarksAgree ==
  page \in GridPage =>
    /\ ui.multi => /\ ui.chk \cap ui.rows = ui.restore \cap ui.rows
                   /\ ui.restore \cap ui.rows \subseteq ui.hl
    /\ DefinitionsDetail \/ ResultsDetail \/ IssuesDetail => ui.hl = {ui.row}

\* A row the user ticked stays selected, on whatever page, under whatever
\* filter and in whatever order the table is shown afterwards.
PickedKept == page \in GridPage /\ ui.multi => picked \subseteq ui.restore

=============================================================================
