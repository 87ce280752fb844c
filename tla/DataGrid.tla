------------------------------ MODULE DataGrid ------------------------------
(***************************************************************************)
(* The table with a selection that three pages are built around: the shared *)
(* table component (components/table.js), the bookkeeping of checked rows    *)
(* that each page repeats, and the query the server answers. Test           *)
(* definitions, test results and hygiene issues are modules that extend     *)
(* this one.                                                                *)
(*                                                                          *)
(* Rows are numbers, in the order of an ascending sort. The browser knows   *)
(* the rows of the page it shows and how many rows match.                   *)
(***************************************************************************)
EXTENDS Browser, Integers, FiniteSets

CONSTANTS
  Row,       \* identifiers of the table's rows, numbers
  Filter,    \* combinations of filter values
  Matches,   \* Matches[f]: the rows a filter lets through
  Size,      \* rows per page offered
  None

ASSUME GridAssumption ==
  /\ Row \subseteq Int /\ IsFiniteSet(Row) /\ None \notin Row
  /\ DOMAIN Matches = Filter /\ \A f \in Filter : Matches[f] \subseteq Row
  /\ Size \subseteq Nat \ {0}

VARIABLES
  ui,        \* the page's state in the browser
  server,    \* the query parameters, the session and the rows in the database
  picked     \* history: rows the user checked and did not uncheck since

gridVars == <<ui, server, picked>>

-----------------------------------------------------------------------------
(* table.js.                                                                *)

\* A click on a header: descending, ascending, not sorted by it.
NextSort(columns, field) ==
  LET sorted == \E k \in DOMAIN columns : columns[k].field = field
      i == CHOOSE k \in DOMAIN columns : columns[k].field = field
  IN IF ~sorted THEN Append(columns, [field |-> field, order |-> "desc"])
     ELSE IF columns[i].order = "desc" THEN [columns EXCEPT ![i].order = "asc"]
     ELSE SelectSeq(columns, LAMBDA c : c.field # field)

\* The pages that the buttons first, previous, next and last lead to.
PagesOffered(pg, size, total) ==
  LET pageEnd == IF size * pg + size < total THEN size * pg + size ELSE total
      lastPage == (total \div size) + (IF total % size > 0 THEN 1 ELSE 0) - 1
  IN (IF pg = 0 THEN {} ELSE {0, pg - 1})
       \cup (IF pageEnd >= total THEN {} ELSE {pg + 1, lastPage})

\* A click on a row: in single selection the other rows are cleared first. A
\* row that stays as it was triggers nothing.
Highlighted(c, r) ==
  IF ~c.multi THEN {r} ELSE IF r \in c.hl THEN c.hl \ {r} ELSE c.hl \cup {r}

-----------------------------------------------------------------------------
(* The pages' bookkeeping.                                                  *)

Cleared(c) == [c EXCEPT !.chk = {}, !.all = FALSE, !.restore = {}]

\* Mutant: the table starts with no row highlighted.
BuildRowsBlank(c) == [c EXCEPT !.hl = {}]

\* tableRows: with "select all" on, the rows of the page join the selection;
\* then the table restores which rows are highlighted.
BuildRows(c) ==
  LET s == IF c.multi /\ c.all
             THEN [c EXCEPT !.chk = @ \cup c.rows, !.restore = @ \cup c.rows] ELSE c
  IN [s EXCEPT !.hl = IF s.multi THEN s.restore \cap s.rows ELSE s.rows \cap {s.row}]

\* Mutant: the rows of the other pages are forgotten.
RowsSelectedForgets(c) ==
  IF ~c.multi THEN c
  ELSE [c EXCEPT !.restore = c.hl, !.chk = (@ \ c.rows) \cup c.hl,
                 !.all = \/ c.all /\ c.hl = c.rows
                         \/ c.total > 0 /\ Cardinality(c.hl) >= c.total]

\* onRowsSelected: the rows of the page follow the highlights, the others
\* stay; "select all" goes off with a row unchecked, and on when as many rows
\* are selected as match.
RowsSelected(c) ==
  LET restored == (c.restore \ c.rows) \cup c.hl
  IN IF ~c.multi THEN c
     ELSE [c EXCEPT !.restore = restored, !.chk = (@ \ c.rows) \cup c.hl,
                    !.all = \/ c.all /\ c.hl = c.rows
                            \/ c.total > 0 /\ Cardinality(restored) >= c.total]

\* What follows from a change of the rows, the mode or "select all".
Settled(c) ==
  LET d == RowsSelected(BuildRows(c)) IN IF d.all THEN RowsSelected(BuildRows(d)) ELSE d

\* A click on a row, and what follows from it.
Clicked(c, r) ==
  LET d == [c EXCEPT !.hl = Highlighted(c, r)]
      m == RowsSelected(d)
  IN IF ~c.multi THEN [d EXCEPT !.row = r] ELSE IF m.all THEN Settled(m) ELSE m

AllToggled(c) ==
  Settled(IF c.all THEN Cleared(c)
          ELSE [c EXCEPT !.all = TRUE, !.chk = @ \cup c.rows, !.restore = @ \cup c.rows])

MultiToggled(c) ==
  Settled(IF c.multi THEN [Cleared(c) EXCEPT !.multi = FALSE] ELSE [c EXCEPT !.multi = TRUE])

\* Another number of rows per page: the table keeps its highlights until the
\* new page arrives.
SizeChanged(c) == IF c.all THEN c ELSE Cleared(c)

-----------------------------------------------------------------------------
(* The server: the page's script over the rows in the database.             *)

Matching(s) == s.db \cap Matches[s.filter]

\* The rows on page pg, in the order of the sort.
PageRows(s) ==
  LET before(q, r) == IF s.sort # <<>> /\ s.sort[1].order = "desc" THEN q > r ELSE q < r
      rank(r) == Cardinality({q \in Matching(s) : before(q, r)})
  IN {r \in Matching(s) : rank(r) \div s.size = s.pg}

\* Properties that reach the browser: only those that changed are set. The
\* table is built anew only when its rows changed, and a dialog closed by the
\* user stays closed until its data changes.
Delivered(c, s) ==
  LET d == [c EXCEPT !.rows = PageRows(s), !.pg = s.pg,
                     !.total = Cardinality(Matching(s)), !.size = s.size,
                     !.marked = s.marked, !.order = s.sort, !.selected = s.selected,
                     !.info = s.dialog, !.open = IF s.dialog = c.info THEN @ ELSE s.dialog # None]
      sameRows == /\ d.rows = c.rows /\ d.marked \cap d.rows = c.marked \cap c.rows
                  /\ d.order = c.order \/ Cardinality(d.rows) < 2
  IN IF sameRows THEN d ELSE Settled(d)

\* The history of what the user chose.
Choose(c, d, r) ==
  picked' = IF r \in d.hl THEN picked \cup {r} ELSE picked \ {r}
=============================================================================
