-------------------------- MODULE GridPages_proofs --------------------------
(***************************************************************************)
(* Proofs about the selection of the three table pages, for any rows,        *)
(* filters and page sizes, and about the toolbar of the score explorer, for   *)
(* any filters and score cards.                                             *)
(***************************************************************************)
EXTENDS GridPages, ScoreExplorer, Browser_proofs, FiniteSetTheorems, Integers

UiField == {"multi", "all", "chk", "restore", "hl", "row", "filter", "sort", "rows", "total", "pg",
            "size", "marked", "order", "selected", "info", "open"}
UiForm(c) == c = [f \in UiField |-> c[f]]

ServerField == {"db", "filter", "sort", "pg", "size", "selected", "dialog", "marked"}
ServerForm(s) == s = [f \in ServerField |-> s[f]]

GridOps == {"filter", "page", "sort", "select", "mark", "markAll", "open", "openAll", "close",
            "delete", "unlock"}

\* The copies of the selection agree, and no row of another page is highlighted.
Agree(c) ==
  /\ c.multi \in BOOLEAN /\ c.all \in BOOLEAN
  /\ c.multi => /\ c.chk \cap c.rows = c.restore \cap c.rows
                /\ c.restore \cap c.rows \subseteq c.hl
                /\ c.hl \subseteq c.rows
  /\ ~c.multi /\ c.row \in c.rows => c.hl = {c.row}

GridInv ==
  /\ UiForm(ui) /\ ServerForm(server)
  /\ server.db \subseteq Row /\ ui.rows \subseteq Row
  /\ Queue(sent) /\ \A e \in Elements(sent) : e.op \in GridOps
  /\ Agree(ui)
  /\ ui.multi => picked \subseteq ui.restore

\* Everything but the selection.
SameRest(c, d) ==
  /\ d.multi = c.multi /\ d.row = c.row /\ d.rows = c.rows

LEMMA BuildRowsFacts ==
  ASSUME NEW c, UiForm(c), c.multi \in BOOLEAN, c.all \in BOOLEAN
  PROVE  LET d == BuildRows(c)
         IN /\ UiForm(d) /\ SameRest(c, d) /\ d.all = c.all
            /\ c.multi => c.restore \subseteq d.restore /\ d.hl = d.restore \cap d.rows
            /\ ~c.multi => d.hl = d.rows \cap {d.row}
<1> DEFINE s == IF c.multi /\ c.all
                  THEN [c EXCEPT !.chk = @ \cup c.rows, !.restore = @ \cup c.rows] ELSE c
           d == [s EXCEPT !.hl = IF s.multi THEN s.restore \cap s.rows ELSE s.rows \cap {s.row}]
<1>1. UiForm(s) /\ SameRest(c, s) /\ s.all = c.all /\ (c.multi => c.restore \subseteq s.restore)
  BY DEF UiField, UiForm, SameRest
<1>2. BuildRows(c) = d
  BY DEF BuildRows
<1> HIDE DEF s
<1>3. /\ UiForm(d) /\ SameRest(s, d) /\ d.all = s.all /\ d.restore = s.restore
      /\ d.hl = IF s.multi THEN s.restore \cap s.rows ELSE s.rows \cap {s.row}
  BY <1>1 DEF UiField, UiForm, SameRest
<1> HIDE DEF d
<1> QED BY <1>1, <1>2, <1>3 DEF SameRest

\* After a change of the highlights the pages follow the table.
LEMMA RowsSelectedFacts ==
  ASSUME NEW c, UiForm(c), c.multi \in BOOLEAN, c.all \in BOOLEAN, c.multi => c.hl \subseteq c.rows,
         ~c.multi /\ c.row \in c.rows => c.hl = {c.row}
  PROVE  LET d == RowsSelected(c)
         IN /\ UiForm(d) /\ SameRest(c, d) /\ Agree(d) /\ d.hl = c.hl
            /\ c.multi => d.restore = (c.restore \ c.rows) \cup c.hl
BY DEF RowsSelected, UiField, UiForm, SameRest, Agree

LEMMA SettledFacts ==
  ASSUME NEW c, UiForm(c), c.multi \in BOOLEAN, c.all \in BOOLEAN
  PROVE  LET d == Settled(c)
         IN /\ UiForm(d) /\ SameRest(c, d) /\ Agree(d)
            /\ c.multi => c.restore \subseteq d.restore
<1>1. ASSUME NEW x, UiForm(x), x.multi \in BOOLEAN, x.all \in BOOLEAN
      PROVE  LET d == RowsSelected(BuildRows(x))
             IN /\ UiForm(d) /\ SameRest(x, d) /\ Agree(d)
                /\ x.multi => x.restore \subseteq d.restore
  <2> DEFINE b == BuildRows(x)
  <2>1. /\ UiForm(b) /\ SameRest(x, b) /\ b.all = x.all
        /\ x.multi => x.restore \subseteq b.restore /\ b.hl = b.restore \cap b.rows
        /\ ~x.multi => b.hl = b.rows \cap {b.row}
    BY <1>1, BuildRowsFacts
  <2> HIDE DEF b
  <2>2. /\ UiForm(RowsSelected(b)) /\ SameRest(b, RowsSelected(b)) /\ Agree(RowsSelected(b))
        /\ b.multi => RowsSelected(b).restore = (b.restore \ b.rows) \cup b.hl
    <3>1. /\ b.multi \in BOOLEAN /\ b.all \in BOOLEAN
          /\ b.multi => b.hl \subseteq b.rows
          /\ ~b.multi /\ b.row \in b.rows => b.hl = {b.row}
      BY <1>1, <2>1 DEF SameRest
    <3> QED BY <2>1, <3>1, RowsSelectedFacts
  <2>3. SameRest(x, RowsSelected(b)) /\ (x.multi => x.restore \subseteq RowsSelected(b).restore)
    BY <2>1, <2>2 DEF SameRest
  <2> QED BY <2>2, <2>3 DEF b
<1> DEFINE d == RowsSelected(BuildRows(c))
<1>2. UiForm(d) /\ SameRest(c, d) /\ Agree(d) /\ (c.multi => c.restore \subseteq d.restore)
  BY <1>1
<1>3. CASE d.all
  <2>1. /\ UiForm(RowsSelected(BuildRows(d))) /\ SameRest(d, RowsSelected(BuildRows(d)))
        /\ Agree(RowsSelected(BuildRows(d)))
        /\ d.multi => d.restore \subseteq RowsSelected(BuildRows(d)).restore
    <3> HIDE DEF d
    <3> QED BY <1>1, <1>2 DEF Agree
  <2>2. Settled(c) = RowsSelected(BuildRows(d))
    BY <1>3 DEF Settled
  <2> HIDE DEF d
  <2> QED BY <1>2, <2>1, <2>2 DEF SameRest
<1>4. CASE ~d.all
  <2>1. Settled(c) = d
    BY <1>4 DEF Settled
  <2> HIDE DEF d
  <2> QED BY <1>2, <2>1
<1> QED BY <1>3, <1>4

\* A click changes the selection by the row that was clicked.
LEMMA ClickedFacts ==
  ASSUME NEW c, NEW r \in c.rows, UiForm(c), Agree(c)
  PROVE  LET d == Clicked(c, r)
         IN /\ UiForm(d) /\ Agree(d) /\ d.multi = c.multi /\ d.rows = c.rows
            /\ c.multi => /\ c.restore \ {r} \subseteq d.restore
                          /\ r \in Highlighted(c, r) => r \in d.restore
<1> DEFINE h == [c EXCEPT !.hl = Highlighted(c, r)]
           m == RowsSelected(h)
<1>1. /\ UiForm(h) /\ SameRest(c, h) /\ h.all = c.all /\ h.restore = c.restore
      /\ h.hl = Highlighted(c, r)
  BY DEF UiField, UiForm, SameRest
<1>2. CASE ~c.multi
  BY <1>2 DEF Clicked, Highlighted, UiField, UiForm, Agree
<1>3. CASE c.multi
  <2>1. h.hl = (IF r \in c.hl THEN c.hl \ {r} ELSE c.hl \cup {r}) /\ h.multi /\ h.all \in BOOLEAN
    BY <1>1, <1>3 DEF Highlighted, SameRest, Agree
  <2>2. h.hl \subseteq h.rows
    BY <1>1, <1>3, <2>1 DEF Agree, SameRest
  <2> HIDE DEF h
  <2>3. UiForm(m) /\ SameRest(h, m) /\ Agree(m) /\ m.restore = (h.restore \ h.rows) \cup h.hl
    BY <1>1, <2>1, <2>2, RowsSelectedFacts
  <2>4. c.restore \ {r} \subseteq m.restore /\ (r \in Highlighted(c, r) => r \in m.restore)
    BY <1>1, <1>3, <2>1, <2>3 DEF Agree, SameRest
  <2>5. Clicked(c, r) = IF m.all THEN Settled(m) ELSE m
    BY <1>3 DEF Clicked, h
  <2> HIDE DEF m
  <2>6. CASE m.all
    <3>1. UiForm(Settled(m)) /\ SameRest(m, Settled(m)) /\ Agree(Settled(m)) /\ (m.multi => m.restore \subseteq Settled(m).restore)
      BY <2>3, SettledFacts DEF Agree
    <3> QED BY <1>1, <1>3, <2>3, <2>4, <2>5, <2>6, <3>1 DEF SameRest
  <2>7. CASE ~m.all
    BY <1>1, <2>3, <2>4, <2>5, <2>7 DEF SameRest
  <2> QED BY <2>6, <2>7
<1> QED BY <1>2, <1>3

\* "Select all" and the switch to one row or several.
LEMMA ToggledFacts ==
  ASSUME NEW c, UiForm(c), Agree(c)
  PROVE  /\ UiForm(AllToggled(c)) /\ Agree(AllToggled(c)) /\ AllToggled(c).rows = c.rows
         /\ AllToggled(c).multi = c.multi
         /\ c.multi /\ ~c.all => c.restore \cup c.rows \subseteq AllToggled(c).restore
         /\ UiForm(MultiToggled(c)) /\ Agree(MultiToggled(c)) /\ MultiToggled(c).rows = c.rows
<1> DEFINE a == IF c.all THEN Cleared(c)
                ELSE [c EXCEPT !.all = TRUE, !.chk = @ \cup c.rows, !.restore = @ \cup c.rows]
           m == IF c.multi THEN [Cleared(c) EXCEPT !.multi = FALSE] ELSE [c EXCEPT !.multi = TRUE]
<1>1. /\ UiForm(a) /\ a.multi = c.multi /\ a.all \in BOOLEAN /\ a.rows = c.rows
      /\ ~c.all => a.restore = c.restore \cup c.rows
  BY DEF UiField, UiForm, Cleared, Agree
<1>2. UiForm(Cleared(c)) /\ Cleared(c).rows = c.rows /\ Cleared(c).all = FALSE
  <2> DEFINE d == [c EXCEPT !.chk = {}, !.all = FALSE, !.restore = {}]
  <2>1. UiForm(d) /\ d.rows = c.rows /\ d.all = FALSE
    BY DEF UiForm, UiField
  <2> QED BY <2>1 DEF Cleared
<1>3. UiForm(m) /\ m.multi \in BOOLEAN /\ m.all \in BOOLEAN /\ m.rows = c.rows
  <2>1. CASE c.multi
    BY <1>2, <2>1 DEF UiForm, UiField
  <2>2. CASE ~c.multi
    BY <2>2 DEF UiField, UiForm, Agree
  <2> QED BY <2>1, <2>2
<1>4. AllToggled(c) = Settled(a) /\ MultiToggled(c) = Settled(m)
  BY DEF AllToggled, MultiToggled
<1> HIDE DEF a, m
<1>5. /\ UiForm(Settled(a)) /\ SameRest(a, Settled(a)) /\ Agree(Settled(a))
      /\ a.multi => a.restore \subseteq Settled(a).restore
  BY <1>1, SettledFacts DEF Agree
<1>6. UiForm(Settled(m)) /\ SameRest(m, Settled(m)) /\ Agree(Settled(m))
  BY <1>3, SettledFacts
<1> QED BY <1>1, <1>3, <1>4, <1>5, <1>6 DEF SameRest

\* An answer of the server takes nothing from the selection.
LEMMA DeliveredFacts ==
  ASSUME NEW c, NEW s, UiForm(c), Agree(c)
  PROVE  LET d == Delivered(c, s)
         IN /\ UiForm(d) /\ Agree(d) /\ d.multi = c.multi /\ d.rows = PageRows(s)
            /\ c.multi => c.restore \subseteq d.restore
<1> DEFINE d == [c EXCEPT !.rows = PageRows(s), !.pg = s.pg,
                   !.total = Cardinality(Matching(s)), !.size = s.size,
                   !.marked = s.marked, !.order = s.sort, !.selected = s.selected,
                   !.info = s.dialog, !.open = IF s.dialog = c.info THEN @ ELSE s.dialog # None]
<1>1. /\ UiForm(d) /\ d.multi = c.multi /\ d.all = c.all /\ d.rows = PageRows(s)
      /\ d.restore = c.restore /\ d.chk = c.chk /\ d.hl = c.hl /\ d.row = c.row
  <2>1. UiForm(d)
    BY DEF UiForm
  <2>2. /\ d.multi = c.multi /\ d.all = c.all /\ d.rows = PageRows(s)
        /\ d.restore = c.restore /\ d.chk = c.chk /\ d.hl = c.hl /\ d.row = c.row
    BY DEF UiForm, UiField
  <2> QED BY <2>1, <2>2
<1>2. Delivered(c, s) = Settled(d) \/ (Delivered(c, s) = d /\ d.rows = c.rows)
  BY Zenon DEF Delivered
<1> HIDE DEF d
<1>3. CASE Delivered(c, s) = d /\ d.rows = c.rows
  BY <1>1, <1>3 DEF Agree
<1>4. CASE Delivered(c, s) = Settled(d)
  <2>1. d.multi \in BOOLEAN /\ d.all \in BOOLEAN
    BY <1>1 DEF Agree
  <2>2. /\ UiForm(Settled(d)) /\ SameRest(d, Settled(d)) /\ Agree(Settled(d))
        /\ d.multi => d.restore \subseteq Settled(d).restore
    BY <1>1, <2>1, SettledFacts
  <2> QED BY <1>1, <1>4, <2>2 DEF SameRest
<1> QED BY <1>2, <1>3, <1>4

LEMMA GridInitInv == page \in GridPage /\ GridInit => GridInv
<1> SUFFICES ASSUME GridInit PROVE GridInv
  OBVIOUS
<1>1. PICK f \in Filter, z \in Size : OpenedGrid(f, z)
  BY DEF GridInit, DefinitionsOpened, ResultsOpened, IssuesOpened
<1> DEFINE s == [db |-> Row, filter |-> f, sort |-> <<[field |-> "table", order |-> "asc"]>>,
                 pg |-> 0, size |-> z, selected |-> None, dialog |-> None, marked |-> {}]
           c == [multi |-> FALSE, all |-> FALSE, chk |-> {}, restore |-> {}, hl |-> {},
                 row |-> None, filter |-> f, sort |-> s.sort, rows |-> {},
                 total |-> 0, pg |-> 0, size |-> z, marked |-> {},
                 order |-> s.sort, selected |-> None, info |-> None, open |-> FALSE]
<1>2. server = s /\ ui = Delivered(c, s)
  BY <1>1 DEF OpenedGrid
<1>3. UiForm(c) /\ Agree(c) /\ ~c.multi
  BY DEF UiField, UiForm, Agree
<1>4. ServerForm(s) /\ s.db = Row
  BY DEF ServerForm, ServerField
<1>5. PageRows(s) \subseteq s.db
  BY DEF PageRows, Matching
<1> HIDE DEF c, s
<1>6. UiForm(ui) /\ Agree(ui) /\ ~ui.multi /\ ui.rows = PageRows(s)
  BY <1>2, <1>3, DeliveredFacts
<1>7. sent = <<>> /\ Queue(sent) /\ Elements(sent) = {}
  BY NoEvents DEF GridInit
<1> QED BY <1>2, <1>4, <1>5, <1>6, <1>7 DEF GridInv

\* What a step of the user leaves: the selection in agreement, and at most one
\* more event.
Kept ==
  /\ UiForm(ui') /\ Agree(ui') /\ ui'.rows = ui.rows
  /\ ui'.multi => picked' \subseteq ui'.restore

Sends == UNCHANGED sent \/ \E e : e.op \in GridOps /\ Emit(e)

LEMMA UserStep == GridInv /\ Kept /\ Sends /\ UNCHANGED server => GridInv'
<1> SUFFICES ASSUME GridInv, Kept, Sends, UNCHANGED server PROVE GridInv'
  OBVIOUS
<1>1. Queue(sent') /\ \A e \in Elements(sent') : e.op \in GridOps
  <2>1. CASE UNCHANGED sent
    BY <2>1 DEF GridInv
  <2>2. ASSUME NEW e, e.op \in GridOps, Emit(e) PROVE Queue(sent') /\ \A x \in Elements(sent') : x.op \in GridOps
    BY <2>2, QueueSteps DEF GridInv, Emit
  <2> QED BY <2>1, <2>2 DEF Sends
<1> QED BY <1>1 DEF GridInv, Kept

\* The selection is left alone.
LEMMA SelectionKept ==
  ASSUME GridInv, UiForm(ui'), UNCHANGED picked, ui'.multi = ui.multi, ui'.all = ui.all,
         ui'.chk = ui.chk, ui'.restore = ui.restore, ui'.hl = ui.hl, ui'.rows = ui.rows,
         ui'.row \in {ui.row, None}
  PROVE  Kept
<1>1. None \notin ui.rows
  BY GridAssumption DEF GridInv
<1> QED BY <1>1 DEF Kept, GridInv, Agree

LEMMA ToggleStep == GridInv /\ (ToggleMulti \/ ToggleAll) => Kept /\ Sends /\ UNCHANGED server
<1> SUFFICES ASSUME GridInv, ToggleMulti \/ ToggleAll PROVE Kept /\ Sends /\ UNCHANGED server
  OBVIOUS
<1>1. /\ UiForm(AllToggled(ui)) /\ Agree(AllToggled(ui)) /\ AllToggled(ui).rows = ui.rows
      /\ AllToggled(ui).multi = ui.multi
      /\ ui.multi /\ ~ui.all => ui.restore \cup ui.rows \subseteq AllToggled(ui).restore
      /\ UiForm(MultiToggled(ui)) /\ Agree(MultiToggled(ui)) /\ MultiToggled(ui).rows = ui.rows
  BY ToggledFacts DEF GridInv
<1>2. CASE ToggleMulti
  BY <1>1, <1>2 DEF ToggleMulti, Kept, Sends
<1>3. CASE ToggleAll
  BY <1>1, <1>3 DEF ToggleAll, Kept, Sends, GridInv
<1> QED BY <1>2, <1>3

LEMMA ClickStep == ASSUME GridInv, NEW r, Click(r) PROVE Kept /\ UNCHANGED server
<1>1. r \in ui.rows /\ ui' = Clicked(ui, r) /\ UNCHANGED server
  BY DEF Click
<1>2. /\ UiForm(ui') /\ Agree(ui') /\ ui'.multi = ui.multi /\ ui'.rows = ui.rows
      /\ ui.multi => /\ ui.restore \ {r} \subseteq ui'.restore
                     /\ r \in Highlighted(ui, r) => r \in ui'.restore
  BY <1>1, ClickedFacts DEF GridInv
<1>3. CASE ui.multi
  <2>1. [ui EXCEPT !.hl = Highlighted(ui, r)].hl = Highlighted(ui, r)
    BY DEF GridInv, UiForm, UiField
  <2>2. picked' = IF r \in Highlighted(ui, r) THEN picked \cup {r} ELSE picked \ {r}
    BY <1>3, <2>1 DEF Click, Choose
  <2> QED BY <1>1, <1>2, <1>3, <2>2 DEF Kept, GridInv
<1>4. CASE ~ui.multi
  BY <1>1, <1>2, <1>4 DEF Kept
<1> QED BY <1>3, <1>4

LEMMA SortStep == ASSUME GridInv, NEW field, SortBy(field) PROVE Kept /\ Sends /\ UNCHANGED server
<1> DEFINE columns == NextSort(ui.sort, field)
<1>1. ui' = [ui EXCEPT !.sort = columns] /\ UNCHANGED <<server, picked>>
  BY DEF SortBy
<1>2. Sends
  BY DEF SortBy, Sends, GridOps
<1> HIDE DEF columns
<1>3. UiForm(ui')
  BY <1>1 DEF GridInv, UiForm
<1>4. /\ ui'.multi = ui.multi /\ ui'.all = ui.all /\ ui'.chk = ui.chk /\ ui'.restore = ui.restore
      /\ ui'.hl = ui.hl /\ ui'.rows = ui.rows /\ ui'.row = ui.row
  BY <1>1 DEF GridInv, UiForm, UiField
<1> QED BY <1>1, <1>2, <1>3, <1>4, SelectionKept

\* Filters, and what the dialogs of test definitions change in the browser.
LEMMA FieldStep ==
  ASSUME GridInv, UNCHANGED picked,
         \/ UNCHANGED ui
         \/ \E f : ui' = [ui EXCEPT !.filter = f] \/ ui' = [ui EXCEPT !.filter = f, !.row = None]
         \/ ui' = [ui EXCEPT !.open = FALSE]
  PROVE  Kept
<1>1. CASE UNCHANGED ui
  BY <1>1 DEF Kept, GridInv
<1>2. ASSUME NEW f, ui' = [ui EXCEPT !.filter = f] \/ ui' = [ui EXCEPT !.filter = f, !.row = None]
      PROVE  Kept
  <2>1. UiForm(ui')
    BY <1>2 DEF GridInv, UiForm
  <2>2. /\ ui'.multi = ui.multi /\ ui'.all = ui.all /\ ui'.chk = ui.chk /\ ui'.restore = ui.restore
        /\ ui'.hl = ui.hl /\ ui'.rows = ui.rows /\ ui'.row \in {ui.row, None}
    BY <1>2 DEF GridInv, UiForm, UiField
  <2> QED BY <2>1, <2>2, SelectionKept
<1>3. CASE ui' = [ui EXCEPT !.open = FALSE]
  <2>1. UiForm(ui')
    BY <1>3 DEF GridInv, UiForm
  <2>2. /\ ui'.multi = ui.multi /\ ui'.all = ui.all /\ ui'.chk = ui.chk /\ ui'.restore = ui.restore
        /\ ui'.hl = ui.hl /\ ui'.rows = ui.rows /\ ui'.row = ui.row
    BY <1>3 DEF GridInv, UiForm, UiField
  <2> QED BY <2>1, <2>2, SelectionKept
<1> QED BY <1>1, <1>2, <1>3

LEMMA TurnPageStep == GridInv /\ TurnPage => Kept /\ Sends
<1> SUFFICES ASSUME GridInv, TurnPage PROVE Kept /\ Sends
  OBVIOUS
<1>1. ASSUME NEW p, Emit([op |-> "page", pg |-> p]), UNCHANGED <<ui, picked>>
      PROVE  Kept /\ Sends
  <2>1. Sends
    BY <1>1 DEF Sends, GridOps
  <2> QED BY <1>1, <2>1, FieldStep
<1>2. ASSUME NEW z, ui' = SizeChanged(ui), picked' = (IF ui.all THEN picked ELSE {}),
             Emit([op |-> "page", pg |-> 0, size |-> z])
      PROVE  Kept /\ Sends
  <2>1. Sends
    BY <1>2 DEF Sends, GridOps
  <2>2. CASE ui.all
    <3>1. UNCHANGED <<ui, picked>>
      BY <1>2, <2>2 DEF SizeChanged
    <3> QED BY <2>1, <3>1, FieldStep
  <2>3. CASE ~ui.all
    <3>1. ui' = [ui EXCEPT !.chk = {}, !.all = FALSE, !.restore = {}] /\ picked' = {}
      BY <1>2, <2>3 DEF SizeChanged, Cleared
    <3>2. UiForm(ui')
      BY <3>1 DEF GridInv, UiForm
    <3>3. /\ ui'.multi = ui.multi /\ ui'.all = FALSE /\ ui'.chk = {} /\ ui'.restore = {}
          /\ ui'.hl = ui.hl /\ ui'.rows = ui.rows /\ ui'.row = ui.row
      BY <3>1 DEF GridInv, UiForm, UiField
    <3> QED BY <2>1, <3>1, <3>2, <3>3 DEF Kept, GridInv, Agree
  <2> QED BY <2>1, <2>2, <2>3
<1> QED BY <1>1, <1>2 DEF TurnPage

LEMMA GridUserStep == GridInv /\ GridUser => GridInv'
<1> SUFFICES ASSUME GridInv, GridUser PROVE GridInv'
  OBVIOUS
<1>1. CASE DefinitionsToggle \/ ResultsToggle \/ IssuesToggle
  BY <1>1, ToggleStep, UserStep DEF DefinitionsToggle, ResultsToggle, IssuesToggle
<1>2. ASSUME NEW r \in Row, DefinitionsClick(r) \/ ResultsClick(r) \/ IssuesClick(r) PROVE GridInv'
  <2>1. Click(r) /\ (UNCHANGED sent \/ Emit([op |-> "select", row |-> r]))
    BY <1>2 DEF DefinitionsClick, ResultsClick, IssuesClick
  <2>2. Sends
    BY <2>1 DEF Sends, GridOps
  <2> QED BY <2>1, <2>2, ClickStep, UserStep
<1>3. ASSUME NEW f \in Filter, DefinitionsFilter(f) \/ ResultsFilter(f) \/ IssuesFilter(f) PROVE GridInv'
  <2>1. /\ Emit([op |-> "filter", filter |-> f]) /\ UNCHANGED <<server, picked>>
        /\ ui' = [ui EXCEPT !.filter = f] \/ ui' = [ui EXCEPT !.filter = f, !.row = None]
    BY <1>3 DEF DefinitionsFilter, ResultsFilter, IssuesFilter
  <2>2. Sends
    BY <2>1 DEF Sends, GridOps
  <2> QED BY <2>1, <2>2, FieldStep, UserStep
<1>4. CASE DefinitionsSort \/ ResultsSort \/ IssuesSort
  BY <1>4, SortStep, UserStep DEF DefinitionsSort, ResultsSort, IssuesSort
<1>5. CASE DefinitionsPage \/ ResultsPage \/ IssuesPage
  BY <1>5, TurnPageStep, UserStep DEF DefinitionsPage, ResultsPage, IssuesPage
<1>6. ASSUME NEW v \in BOOLEAN, DefinitionsMark(v) \/ ResultsDispose(v) \/ ResultsFlag(v) \/ IssuesDispose(v)
      PROVE  GridInv'
  <2>1. UNCHANGED <<ui, server, picked>> /\ (MarkAll(v) \/ \E ids : MarkIds(ids, v))
    BY <1>6 DEF DefinitionsMark, ResultsDispose, ResultsFlag, IssuesDispose
  <2>2. Sends
    <3>1. CASE MarkAll(v)
      BY <3>1 DEF Sends, GridOps, MarkAll
    <3>2. ASSUME NEW ids, MarkIds(ids, v) PROVE Sends
      BY <3>2 DEF Sends, GridOps, MarkIds
    <3> QED BY <2>1, <3>1, <3>2
  <2> QED BY <2>1, <2>2, FieldStep, UserStep
<1>7. CASE DefinitionsOpenDialog
  <2> DEFINE e == IF ui.all THEN [op |-> "openAll"] ELSE [op |-> "open", ids |-> SelectedIds]
  <2>1. UNCHANGED <<ui, server, picked>> /\ Emit(e)
    BY <1>7 DEF DefinitionsOpenDialog
  <2>2. Sends
    <3>1. e.op \in GridOps
      BY DEF GridOps
    <3> HIDE DEF e
    <3> QED BY <2>1, <3>1 DEF Sends
  <2> QED BY <2>1, <2>2, FieldStep, UserStep
<1>8. CASE DefinitionsConfirm \/ DefinitionsCancel
  <2>1. ui' = [ui EXCEPT !.open = FALSE] /\ UNCHANGED <<server, picked>>
    BY <1>8 DEF DefinitionsConfirm, DefinitionsCancel
  <2>2. \E e : e.op \in GridOps /\ Emit(e)
    <3>1. CASE DefinitionsConfirm
      <4>1. PICK op \in {"delete", "unlock"} : Emit([op |-> op, ids |-> ui.info])
        BY <3>1 DEF DefinitionsConfirm
      <4>2. [op |-> op, ids |-> ui.info].op \in GridOps
        BY DEF GridOps
      <4> QED BY <4>1, <4>2
    <3>2. CASE DefinitionsCancel
      BY <3>2 DEF DefinitionsCancel, GridOps
    <3> QED BY <1>8, <3>1, <3>2
  <2> QED BY <2>1, <2>2, FieldStep, UserStep DEF Sends
<1> QED BY <1>1, <1>2, <1>3, <1>4, <1>5, <1>6, <1>7, <1>8 DEF GridUser

\* No callback adds rows to the database.
LEMMA AnsweredFacts ==
  ASSUME NEW s, ServerForm(s), NEW e, e.op \in GridOps
  PROVE  ServerForm(Answered(s, e)) /\ Answered(s, e).db \subseteq s.db
<1>1. ASSUME NEW ids, NEW v PROVE ServerForm(Marked(s, ids, v)) /\ Marked(s, ids, v).db = s.db
  BY DEF Marked, ServerForm, ServerField
<1>2. CASE e.op \in {"filter", "page", "sort"}
  <2>1. CASE e.op = "page"
    <3> DEFINE z == IF "size" \in DOMAIN e THEN e.size ELSE s.size
    <3>1. Answered(s, e) = [s EXCEPT !.pg = e.pg, !.size = z, !.selected = None]
      BY <2>1 DEF Answered, PageSet
    <3> HIDE DEF z
    <3> QED BY <3>1 DEF ServerForm, ServerField
  <2>2. CASE e.op \in {"filter", "sort"}
    BY <2>2 DEF Answered, FilterSet, SortSet, ServerForm, ServerField
  <2> QED BY <1>2, <2>1, <2>2
<1>3. CASE e.op = "select"
  BY <1>3 DEF Answered, SelectSet, ServerForm, ServerField
<1>4. CASE e.op \in {"mark", "markAll"}
  BY <1>1, <1>4 DEF Answered, MarkedAll
<1>6. CASE e.op \in {"open", "openAll", "close"}
  BY <1>6 DEF Answered, ServerForm, ServerField
<1>7. CASE e.op = "delete"
  <2>1. Answered(s, e) = [s EXCEPT !.db = @ \ e.ids, !.marked = @ \ e.ids, !.dialog = None]
    BY <1>7 DEF Answered
  <2>2. ServerForm(Answered(s, e))
    BY <2>1 DEF ServerForm
  <2>3. Answered(s, e).db = s.db \ e.ids
    BY <2>1 DEF ServerForm, ServerField
  <2> QED BY <2>2, <2>3
<1>5. CASE e.op = "unlock"
  <2>1. Answered(s, e) = [Marked(s, e.ids, FALSE) EXCEPT !.dialog = None]
    BY <1>5 DEF Answered
  <2> DEFINE m == Marked(s, e.ids, FALSE)
  <2>2. ServerForm(m) /\ m.db = s.db
    BY <1>1
  <2> HIDE DEF m
  <2>3. ServerForm([m EXCEPT !.dialog = None])
    BY <2>2 DEF ServerForm
  <2>4. [m EXCEPT !.dialog = None].db = s.db
    BY <2>2 DEF ServerForm, ServerField
  <2> QED BY <2>1, <2>3, <2>4 DEF m
<1> QED BY <1>2, <1>3, <1>4, <1>5, <1>6, <1>7 DEF GridOps

LEMMA ServeGridStep == GridInv /\ ServeGrid => GridInv'
<1> SUFFICES ASSUME GridInv, ServeGrid PROVE GridInv'
  OBVIOUS
<1>1. /\ Queue(sent') /\ \A e \in Elements(sent') : e.op \in GridOps
      /\ Head(sent).op \in GridOps
  BY QueueSteps DEF GridInv, ServeGrid, Take
<1>2. ServerForm(server') /\ server'.db \subseteq Row
  BY <1>1, AnsweredFacts DEF ServeGrid, GridInv
<1>3. /\ UiForm(ui') /\ Agree(ui') /\ ui'.multi = ui.multi /\ ui'.rows = PageRows(server')
      /\ ui.multi => ui.restore \subseteq ui'.restore
  BY DeliveredFacts DEF ServeGrid, GridInv
<1>4. ui'.rows \subseteq Row
  BY <1>2, <1>3 DEF PageRows, Matching
<1>5. ui'.multi => picked' \subseteq ui'.restore
  BY <1>3 DEF ServeGrid, GridInv
<1> QED BY <1>1, <1>2, <1>3, <1>4, <1>5 DEF GridInv

LEMMA GridStep == GridInv /\ GridNext => GridInv'
BY GridUserStep, ServeGridStep DEF GridNext

LEMMA GridInvImplies == GridInv => CheckmarksAgree /\ PickedKept
BY DEF GridInv, Agree, CheckmarksAgree, PickedKept, DefinitionsDetail, ResultsDetail, IssuesDetail

-----------------------------------------------------------------------------
(* The filters that have a value, by induction over their number.            *)

\* A recursive function on 0..N is there.
GivenAt(f, g, n) ==
  IF n = 0 THEN <<>>
  ELSE IF f[n].value = Nothing THEN g[n - 1]
  ELSE Append(g[n - 1], Bare(f)[n])

LEMMA GivenFolds ==
  ASSUME NEW f, Len(f) \in Nat
  PROVE  \E g : g = [n \in 0..Len(f) |-> GivenAt(f, g, n)] /\ Given(f) = g[Len(f)]
<1> DEFINE To(g, n) == g = [k \in 0..n |-> GivenAt(f, g, k)]
           Bad == {n \in 0..Len(f) : ~\E g : To(g, n)}
<1>1. Bad = {}
  <2> SUFFICES ASSUME Bad # {} PROVE FALSE
    OBVIOUS
  <2>1. PICK m \in Bad : \A k \in Bad : m <= k
    <3>1. Bad \subseteq Nat
      OBVIOUS
    <3> HIDE DEF Bad
    <3> QED BY <3>1, SmallestOne
  <2>2. m \in 0..Len(f) /\ ~\E g : To(g, m)
    BY <2>1
  <2>3. m # 0
    <3> DEFINE z == [k \in 0..0 |-> <<>>]
    <3>1. z = [k \in 0..0 |-> GivenAt(f, z, k)]
      <4>1. \A k \in 0..0 : GivenAt(f, z, k) = <<>>
        BY DEF GivenAt
      <4> QED BY <4>1
    <3>2. To(z, 0)
      BY <3>1
    <3> HIDE DEF z, To
    <3> QED BY <2>2, <3>2
  <2>4. m - 1 \in 0..Len(f) /\ m - 1 \notin Bad
    <3>1. m - 1 \in 0..Len(f) /\ ~(m <= m - 1)
      BY <2>2, <2>3
    <3> HIDE DEF Bad
    <3> QED BY <2>1, <3>1
  <2>5. PICK g : To(g, m - 1)
    BY <2>4
  <2> DEFINE h == [k \in 0..m |-> IF k < m THEN g[k] ELSE GivenAt(f, g, m)]
  <2>6. \A k \in 0..(m - 1) : h[k] = g[k] /\ g[k] = GivenAt(f, g, k)
    <3> SUFFICES ASSUME NEW k \in 0..(m - 1) PROVE h[k] = g[k] /\ g[k] = GivenAt(f, g, k)
      OBVIOUS
    <3>1. k \in 0..m /\ k < m
      BY <2>2
    <3>2. h[k] = g[k]
      BY <3>1
    <3>3. g[k] = GivenAt(f, g, k)
      <4> HIDE DEF h
      <4> QED BY <2>5
    <3> QED BY <3>2, <3>3
  <2>7. \A k \in 0..m : GivenAt(f, h, k) = GivenAt(f, g, k)
    <3> SUFFICES ASSUME NEW k \in 0..m PROVE GivenAt(f, h, k) = GivenAt(f, g, k)
      OBVIOUS
    <3>1. k # 0 => h[k - 1] = g[k - 1]
      <4>1. k # 0 => k - 1 \in 0..(m - 1)
        BY <2>2
      <4> HIDE DEF h
      <4> QED BY <2>6, <4>1
    <3> HIDE DEF h
    <3> QED BY <3>1 DEF GivenAt
  <2>8. \A k \in 0..m : h[k] = GivenAt(f, h, k)
    <3> SUFFICES ASSUME NEW k \in 0..m PROVE h[k] = GivenAt(f, g, k)
      BY <2>7
    <3>1. CASE k < m
      <4>1. k \in 0..(m - 1)
        BY <2>2, <3>1
      <4> QED BY <2>6, <4>1
    <3>2. CASE k = m
      BY <3>2
    <3> QED BY <2>2, <3>1, <3>2
  <2>9. h = [k \in 0..m |-> h[k]]
    OBVIOUS
  <2>10. To(h, m)
    <3> HIDE DEF h
    <3> QED BY <2>8, <2>9
  <2> HIDE DEF h, To
  <2> QED BY <2>2, <2>10
<1>2. \E g : To(g, Len(f))
  <2>1. Len(f) \in 0..Len(f)
    OBVIOUS
  <2> QED BY <1>1, <2>1
<1>3. To(CHOOSE g : To(g, Len(f)), Len(f))
  BY <1>2, Zenon
<1>4. Given(f) = (CHOOSE g : To(g, Len(f)))[Len(f)]
  BY DEF Given, GivenAt
<1> QED BY <1>3, <1>4

\* Filters that all have a value are all given.
LEMMA GivenAll ==
  ASSUME NEW f, f = [i \in 1..Len(f) |-> f[i]], Len(f) \in Nat,
         \A i \in 1..Len(f) : f[i].value # Nothing
  PROVE  Given(f) = Bare(f)
<1>0. PICK g : g = [n \in 0..Len(f) |-> GivenAt(f, g, n)] /\ Given(f) = g[Len(f)]
  BY GivenFolds
<1> DEFINE b == Bare(f)
           Bad == {n \in 0..Len(f) : g[n] # [i \in 1..n |-> b[i]]}
<1>1. DOMAIN f = 1..Len(f) /\ b = [i \in 1..Len(f) |-> b[i]]
  BY DEF Bare
<1>2. \A n \in 0..Len(f) : g[n] = GivenAt(f, g, n)
  BY <1>0
<1> HIDE DEF b
<1>3. ASSUME NEW n \in 0..Len(f), n # 0, g[n - 1] = [i \in 1..(n - 1) |-> b[i]]
      PROVE  g[n] = [i \in 1..n |-> b[i]]
  <2> DEFINE s == [i \in 1..(n - 1) |-> b[i]]
             B == {b[i] : i \in 1..Len(f)}
  <2>1. n \in 1..Len(f) /\ n - 1 \in Nat /\ b[n] \in B /\ \A i \in 1..(n - 1) : b[i] \in B
    BY <1>3
  <2>2. g[n] = Append(s, b[n])
    BY <1>2, <1>3, <2>1 DEF GivenAt, b
  <2>3. s \in Seq(B) /\ Len(s) = n - 1
    <3> HIDE DEF B
    <3>1. s \in [1..(n - 1) -> B]
      BY <2>1
    <3> QED BY <2>1, <3>1
  <2>4. Append(s, b[n]) = [i \in 1..n |-> IF i <= n - 1 THEN s[i] ELSE b[n]]
    <3> HIDE DEF s, B
    <3>1. /\ Append(s, b[n]) \in Seq(B) /\ Len(Append(s, b[n])) = n
          /\ \A i \in 1..n : Append(s, b[n])[i] = IF i <= n - 1 THEN s[i] ELSE b[n]
      BY <2>1, <2>3
    <3> QED BY <3>1
  <2>5. \A i \in 1..n : (IF i <= n - 1 THEN s[i] ELSE b[n]) = b[i]
    BY <2>1
  <2> HIDE DEF s
  <2> QED BY <2>2, <2>4, <2>5
<1>4. Bad = {}
  <2> SUFFICES ASSUME Bad # {} PROVE FALSE
    OBVIOUS
  <2>1. PICK m \in Bad : \A k \in Bad : m <= k
    <3>1. Bad \subseteq Nat
      OBVIOUS
    <3> HIDE DEF Bad
    <3> QED BY <3>1, SmallestOne
  <2>2. m \in 0..Len(f) /\ g[m] # [i \in 1..m |-> b[i]]
    BY <2>1
  <2>3. CASE m = 0
    <3>1. g[0] = <<>>
      BY <1>2 DEF GivenAt
    <3>2. [i \in 1..0 |-> b[i]] = <<>>
      OBVIOUS
    <3> QED BY <2>2, <2>3, <3>1, <3>2
  <2>4. CASE m # 0
    <3>1. m - 1 \in 0..Len(f) /\ ~(m <= m - 1)
      BY <2>2, <2>4
    <3>2. m - 1 \notin Bad
      <4> HIDE DEF Bad
      <4> QED BY <2>1, <3>1
    <3>3. g[m - 1] = [i \in 1..(m - 1) |-> b[i]]
      BY <3>1, <3>2
    <3> QED BY <1>3, <2>2, <2>4, <3>3
  <2> QED BY <2>3, <2>4
<1>5. g[Len(f)] = [i \in 1..Len(f) |-> b[i]]
  <2>1. Len(f) \in 0..Len(f)
    OBVIOUS
  <2> QED BY <1>4, <2>1
<1> QED BY <1>0, <1>1, <1>5 DEF b

\* What is given has a value and is there.
LEMMA GivenSome ==
  ASSUME NEW f, Len(f) \in Nat, DOMAIN f = 1..Len(f)
  PROVE  Given(f) \in Seq({Bare(f)[i] : i \in {j \in DOMAIN f : f[j].value # Nothing}})
<1>0. PICK g : g = [n \in 0..Len(f) |-> GivenAt(f, g, n)] /\ Given(f) = g[Len(f)]
  BY GivenFolds
<1> DEFINE b == Bare(f)
           B == {b[i] : i \in {j \in DOMAIN f : f[j].value # Nothing}}
           Bad == {n \in 0..Len(f) : g[n] \notin Seq(B)}
<1>2. \A n \in 0..Len(f) : g[n] = GivenAt(f, g, n)
  BY <1>0
<1>3. \A j \in DOMAIN f : f[j].value # Nothing => b[j] \in B
  OBVIOUS
<1> HIDE DEF b, B
<1>4. Bad = {}
  <2> SUFFICES ASSUME Bad # {} PROVE FALSE
    OBVIOUS
  <2>1. PICK m \in Bad : \A k \in Bad : m <= k
    <3>1. Bad \subseteq Nat
      OBVIOUS
    <3> HIDE DEF Bad
    <3> QED BY <3>1, SmallestOne
  <2>2. m \in 0..Len(f) /\ g[m] \notin Seq(B)
    BY <2>1
  <2>3. CASE m = 0
    <3>1. g[0] = <<>>
      BY <1>2 DEF GivenAt
    <3> QED BY <2>2, <2>3, <3>1
  <2>4. CASE m # 0
    <3>1. m \in 1..Len(f) /\ m - 1 \in 0..Len(f) /\ ~(m <= m - 1)
      BY <2>2, <2>4
    <3>2. m - 1 \notin Bad
      <4> HIDE DEF Bad
      <4> QED BY <2>1, <3>1
    <3>3. g[m - 1] \in Seq(B)
      BY <3>1, <3>2
    <3>4. CASE f[m].value = Nothing
      BY <1>2, <2>2, <2>4, <3>3, <3>4 DEF GivenAt
    <3>5. CASE f[m].value # Nothing
      <4>1. g[m] = Append(g[m - 1], b[m])
        BY <1>2, <2>2, <2>4, <3>5 DEF GivenAt, b
      <4>2. b[m] \in B
        BY <1>3, <3>1, <3>5
      <4> QED BY <2>2, <3>3, <4>1, <4>2
    <3> QED BY <3>4, <3>5
  <2> QED BY <2>3, <2>4
<1>5. g[Len(f)] \in Seq(B)
  <2>1. Len(f) \in 0..Len(f)
    OBVIOUS
  <2> QED BY <1>4, <2>1
<1> QED BY <1>0, <1>5 DEF b, B

-----------------------------------------------------------------------------
(* The toolbar of the score explorer.                                        *)

ExplorerField == {"name", "typed", "typing", "filters", "by", "due", "taken", "selector", "dialog",
                  "columns", "changes"}

\* A card's filters have values, and say whether they are by fields.
CardForm(c) ==
  /\ c = [name |-> c.name, filters |-> c.filters, by |-> c.by]
  /\ c.by \in {"unset", "fields", "columns"} /\ Filters(c.filters)
  /\ \A i \in DOMAIN c.filters : c.filters[i].field \in Field <=> c.by # "columns"

\* So do those of the toolbar. A filter that can be edited is by a field.
ShownForm(f, by) ==
  /\ f = [field |-> f.field, value |-> f.value, at |-> f.at] /\ f.at \in Nat
  /\ IF by = "columns" THEN f.at = 0 /\ (f.value # Nothing => f.field \notin Field)
     ELSE f.field \in Field

BarForm(d) ==
  /\ d = [f \in ExplorerField |-> d[f]] /\ d.by \in {"unset", "fields", "columns"}
  /\ Queue(d.filters)
  /\ \A i \in DOMAIN d.filters : ShownForm(d.filters[i], d.by)

DueForm(d) == d.due # NotDue => CardForm(d.due) /\ d.due.name = d.name

SetEvent(e) ==
  /\ e.op \in {"update", "mode", "openColumns", "closeColumns", "columns", "save"}
  /\ e.op = "update" => CardForm(e.card)
  /\ e.op = "mode" => e.by \in {"fields", "columns"}
  /\ e.op = "columns" => e.filters \in Picks \cup {<<>>}

\* The filters of the toolbar, those of a definition, and those that a card and an
\* event ask for.
BarShows(d) == [filters |-> Given(d.filters), by |-> d.by]
DefinedBy(p) == [filters |-> p.card.filters, by |-> p.card.by]
AskedOf(card) == [filters |-> card.filters, by |-> IF card.by = "columns" THEN "columns" ELSE "fields"]

Redefines(e, t) ==
  \/ e.op = "update" /\ AskedOf(e.card) # t
  \/ e.op = "mode" /\ [filters |-> <<>>, by |-> e.by] # t
  \/ e.op = "columns" /\ [filters |-> e.filters, by |-> IF e.filters = <<>> THEN "fields" ELSE "columns"] # t

\* A toolbar that shows something else than the definition is sent soon, or will
\* take up a definition that is on its way.
BarReaches(d, t, q) ==
  \/ BarShows(d) = t
  \/ \E i \in DOMAIN q : Redefines(q[i], t)
  \/ d.due # NotDue /\ AskedOf(d.due) # t

\* The name was sent last, or is the definition's.
NameSent(d, p, q) ==
  d.due = NotDue =>
    \E c : c.name = d.name /\ LastAsked(q, "update", "card", c, {}, p.card.name = d.name)

ToolbarInv ==
  Explorer =>
    /\ BarForm(explorer) /\ DueForm(explorer)
    /\ params = [card |-> params.card, given |-> params.given, dialog |-> params.dialog] /\ CardForm(params.card)
    /\ Queue(sent) /\ \A e \in Elements(sent) : SetEvent(e)
    /\ explorer.taken = DefinedBy(params) /\ (explorer.by = "unset" => params.card.by = "unset")
    /\ BarReaches(explorer, DefinedBy(params), sent) /\ NameSent(explorer, params, sent)

\* Filters are a sequence, and so is what the toolbar has.
LEMMA FiltersFacts ==
  ASSUME NEW s, Filters(s)
  PROVE  /\ Len(s) \in Nat /\ DOMAIN s = 1..Len(s) /\ s = [i \in 1..Len(s) |-> s[i]]
         /\ \A i \in DOMAIN s : s[i] = [field |-> s[i].field, value |-> s[i].value] /\ s[i].value # Nothing
         /\ Queue(s)
<1> DEFINE S == Elements(s)
<1>1. s \in Seq(S) /\ Queue(s)
  BY DEF Filters, Elements, Queue
<1> HIDE DEF S
<1>2. Len(s) \in Nat /\ DOMAIN s = 1..Len(s) /\ s = [i \in 1..Len(s) |-> s[i]]
  BY <1>1
<1> QED BY <1>1, <1>2 DEF Filters

LEMMA QueueShape ==
  ASSUME NEW q, Queue(q)
  PROVE  Len(q) \in Nat /\ DOMAIN q = 1..Len(q) /\ q = [i \in 1..Len(q) |-> q[i]]
<1> DEFINE S == Elements(q)
<1>1. q \in Seq(S)
  BY DEF Queue
<1> HIDE DEF S
<1> QED BY <1>1

\* What is drawn, and what is kept, shows the definition's filters.
LEMMA GivenDrawn ==
  ASSUME NEW s, Filters(s), NEW by
  PROVE  Given(Drawn(s, by)) = s /\ Bare(Drawn(s, by)) = s /\ Queue(Drawn(s, by))
<1> DEFINE f == Drawn(s, by)
<1>1. /\ Len(s) \in Nat /\ DOMAIN s = 1..Len(s) /\ s = [i \in 1..Len(s) |-> s[i]]
      /\ \A i \in DOMAIN s : s[i] = [field |-> s[i].field, value |-> s[i].value] /\ s[i].value # Nothing
  BY FiltersFacts
<1>2. /\ f = [i \in 1..Len(s) |-> f[i]] /\ DOMAIN f = 1..Len(s)
      /\ \A i \in 1..Len(s) : f[i].field = s[i].field /\ f[i].value = s[i].value
  BY <1>1 DEF Drawn
<1> HIDE DEF f
<1>3. f \in Seq(Elements(f)) /\ Len(f) = Len(s)
  <2> DEFINE S == Elements(f)
  <2>1. f \in [1..Len(s) -> S]
    BY <1>2 DEF Elements
  <2> HIDE DEF S
  <2>2. f \in Seq(S) /\ Len(f) = Len(s)
    BY <1>1, <1>2, <2>1
  <2> QED BY <2>2 DEF S
<1>4. \A i \in 1..Len(f) : f[i].value # Nothing
  BY <1>1, <1>2, <1>3
<1>5. Bare(f) = s
  <2>1. Bare(f) = [i \in 1..Len(s) |-> [field |-> s[i].field, value |-> s[i].value]]
    BY <1>2 DEF Bare
  <2>2. [i \in 1..Len(s) |-> [field |-> s[i].field, value |-> s[i].value]] = [i \in 1..Len(s) |-> s[i]]
    BY <1>1
  <2> QED BY <1>1, <2>1, <2>2
<1>6. Given(f) = Bare(f)
  BY <1>1, <1>2, <1>3, <1>4, GivenAll
<1> QED BY <1>3, <1>5, <1>6 DEF f, Queue

LEMMA GivenKept ==
  ASSUME NEW f, Queue(f), Filters(Bare(f))
  PROVE  Given(f) = Bare(f)
<1>1. Len(f) \in Nat /\ DOMAIN f = 1..Len(f) /\ f = [i \in 1..Len(f) |-> f[i]]
  BY QueueShape
<1>2. \A i \in DOMAIN f : Bare(f)[i].value = f[i].value /\ i \in DOMAIN Bare(f)
  BY <1>1 DEF Bare
<1>3. \A i \in 1..Len(f) : f[i].value # Nothing
  BY <1>1, <1>2 DEF Filters
<1> QED BY <1>1, <1>3, GivenAll

\* What the toolbar sends is a card.
LEMMA CurrentForm ==
  ASSUME NEW d, BarForm(d)
  PROVE  CardForm(Current(d)) /\ Current(d).name = d.name /\ Current(d).by = d.by
         /\ Current(d).filters = Given(d.filters) /\ Current(d) # NotDue
<1> DEFINE f == d.filters
           g == Given(f)
           B == {Bare(f)[i] : i \in {j \in DOMAIN f : f[j].value # Nothing}}
<1>1. Queue(f) /\ Len(f) \in Nat /\ DOMAIN f = 1..Len(f)
  BY QueueShape DEF BarForm
<1>2. g \in Seq(B)
  BY <1>1, GivenSome
<1>3. \A b \in B : /\ b = [field |-> b.field, value |-> b.value] /\ b.value # Nothing
                   /\ b.field \in Field <=> d.by # "columns"
  <2> SUFFICES ASSUME NEW i \in DOMAIN f, f[i].value # Nothing
               PROVE  LET b == Bare(f)[i]
                      IN /\ b = [field |-> b.field, value |-> b.value] /\ b.value # Nothing
                         /\ b.field \in Field <=> d.by # "columns"
    OBVIOUS
  <2>1. Bare(f)[i] = [field |-> f[i].field, value |-> f[i].value]
    BY DEF Bare
  <2>2. /\ d.by = "columns" => f[i].field \notin Field
        /\ d.by # "columns" => f[i].field \in Field
    BY DEF BarForm, ShownForm
  <2> HIDE DEF f
  <2> QED BY <2>1, <2>2
<1> HIDE DEF f, B
<1>4. /\ g \in Seq({g[i] : i \in DOMAIN g}) /\ \A i \in DOMAIN g : g[i] \in B
  <2>1. Queue(g) /\ Elements(g) \subseteq B
    BY <1>2, QueueFacts
  <2> QED BY <2>1 DEF Queue, Elements
<1>5. Filters(g)
  BY <1>3, <1>4 DEF Filters
<1>6. Current(d) = [name |-> d.name, filters |-> g, by |-> d.by]
  BY DEF Current, f
<1>7. d.by \in {"unset", "fields", "columns"}
  BY DEF BarForm
<1> HIDE DEF g
<1>8. Current(d) # NotDue
  BY <1>6, <1>7 DEF NotDue
<1> QED BY <1>3, <1>4, <1>5, <1>6, <1>7, <1>8 DEF CardForm, g, f
\* The toolbar after a change.
After(d, n) == Derived(d, n, FALSE).d

\* A change of the toolbar that does not turn from columns to fields, or back, is sent
\* if it is one.
LEMMA ChangeKeeps ==
  ASSUME NEW d, DueForm(d), NEW n, BarForm(n), n.due = d.due, n.taken = d.taken,
         n.by = "columns" <=> d.by = "columns",
         NEW t, t = [filters |-> t.filters, by |-> t.by], n.by = "unset" => t.by = "unset",
         NEW q, BarReaches(d, t, q)
  PROVE  LET r == After(d, n)
         IN /\ BarForm(r) /\ DueForm(r) /\ BarReaches(r, t, q)
            /\ r.taken = n.taken /\ r.by = n.by /\ r.name = n.name
            /\ r.due = NotDue => d.due = NotDue /\ d.name = n.name
<1> DEFINE c == Current(n)
           r == After(d, n)
<1>1. /\ CardForm(c) /\ c.name = n.name /\ c.by = n.by /\ c.filters = Given(n.filters) /\ c # NotDue
  BY CurrentForm
<1>2. CASE c = Current(d)
  <2>1. r = n
    BY <1>2 DEF After, Derived
  <2>2. n.name = d.name /\ BarShows(n) = BarShows(d)
    BY <1>2 DEF Current, BarShows
  <2> HIDE DEF r
  <2>3. BarForm(r) /\ DueForm(r) /\ BarReaches(r, t, q)
    BY <2>1, <2>2 DEF BarReaches, DueForm
  <2> QED BY <2>1, <2>2, <2>3 DEF r
<1>3. CASE c # Current(d)
  <2>1. r = [n EXCEPT !.due = c]
    BY <1>3 DEF After, Derived
  <2>2. /\ r = [f \in ExplorerField |-> r[f]] /\ r.due = c /\ r.filters = n.filters /\ r.by = n.by
        /\ r.name = n.name /\ r.taken = n.taken
    BY <2>1 DEF BarForm, ExplorerField
  <2> HIDE DEF r
  <2>3. BarForm(r)
    BY <2>2 DEF BarForm
  <2>4. DueForm(r)
    BY <1>1, <2>2 DEF DueForm
  <2>5. BarReaches(r, t, q)
    <3>1. BarShows(r) = [filters |-> c.filters, by |-> c.by]
      BY <1>1, <2>2 DEF BarShows
    <3>2. c.by \in {"unset", "fields", "columns"}
      BY <1>1 DEF CardForm
    <3>3. BarShows(r) # t => AskedOf(c) # t
      BY <1>1, <3>1, <3>2 DEF AskedOf
    <3> QED BY <1>1, <2>2, <3>3 DEF BarReaches
  <2> QED BY <1>1, <2>2, <2>3, <2>4, <2>5 DEF r
<1> QED BY <1>2, <1>3

\* What is shown and due stays.
LEMMA BarStays ==
  ASSUME NEW d, BarForm(d), DueForm(d), NEW n, n = [f \in ExplorerField |-> n[f]],
         n.filters = d.filters, n.by = d.by, n.due = d.due, n.name = d.name
  PROVE  /\ BarForm(n) /\ DueForm(n)
         /\ \A t, q : BarReaches(d, t, q) => BarReaches(n, t, q)
         /\ \A p, q : NameSent(d, p, q) => NameSent(n, p, q)
<1>1. BarForm(n)
  BY DEF BarForm
<1>2. DueForm(n)
  BY DEF DueForm
<1>3. ASSUME NEW t, NEW q, BarReaches(d, t, q) PROVE BarReaches(n, t, q)
  BY <1>3 DEF BarReaches, BarShows
<1>4. ASSUME NEW p, NEW q, NameSent(d, p, q) PROVE NameSent(n, p, q)
  BY <1>4 DEF NameSent
<1> QED BY <1>1, <1>2, <1>3, <1>4

\* An event of the user's other than an update.
LEMMA EventKeeps ==
  ASSUME NEW q, Queue(q), \A x \in Elements(q) : SetEvent(x), NEW e, SetEvent(e)
  PROVE  /\ Queue(Append(q, e)) /\ \A x \in Elements(Append(q, e)) : SetEvent(x)
         /\ \A d, t : BarReaches(d, t, q) \/ Redefines(e, t) => BarReaches(d, t, Append(q, e))
         /\ e.op # "update" => \A d, p : NameSent(d, p, q) => NameSent(d, p, Append(q, e))
<1> DEFINE r == Append(q, e)
<1>1. Queue(r) /\ \A x \in Elements(r) : SetEvent(x)
  BY QueueSteps
<1>2. /\ Len(q) \in Nat /\ DOMAIN q = 1..Len(q) /\ DOMAIN r = 1..(Len(q) + 1)
      /\ \A j \in DOMAIN q : r[j] = q[j]
      /\ r[Len(q) + 1] = e
  BY AppendFacts
<1>3. ASSUME NEW d, NEW t, BarReaches(d, t, q) \/ Redefines(e, t) PROVE BarReaches(d, t, r)
  <2> HIDE DEF r
  <2>1. Len(q) + 1 \in DOMAIN r /\ \A i \in DOMAIN q : i \in DOMAIN r
    BY <1>2
  <2> QED BY <1>2, <1>3, <2>1 DEF BarReaches
<1>4. ASSUME e.op # "update", NEW d, NEW p, NameSent(d, p, q) PROVE NameSent(d, p, r)
  BY <1>4, LastAskedGrows DEF NameSent
<1> QED BY <1>1, <1>3, <1>4

\* What the user does.
LEMMA StepKeeps ==
  ASSUME ToolbarInv, Explorer, NEW n, BarForm(n), n.due = explorer.due, n.taken = explorer.taken,
         n.by = "columns" <=> explorer.by = "columns", n.by = "unset" => explorer.by = "unset",
         explorer' = After(explorer, n) \/ explorer' = [After(explorer, n) EXCEPT !.changes = explorer.changes + 1],
         UNCHANGED <<sent, params>>
  PROVE  ToolbarInv'
<1> DEFINE t == DefinedBy(params)
           r == After(explorer, n)
<1>1. t = [filters |-> t.filters, by |-> t.by] /\ t.by = params.card.by
  BY DEF DefinedBy
<1>0. DueForm(explorer) /\ BarReaches(explorer, t, sent) /\ (n.by = "unset" => t.by = "unset")
  BY <1>1 DEF ToolbarInv
<1> HIDE DEF t
<1>2. /\ BarForm(r) /\ DueForm(r) /\ BarReaches(r, t, sent)
      /\ r.taken = n.taken /\ r.by = n.by /\ r.name = n.name
      /\ r.due = NotDue => explorer.due = NotDue /\ explorer.name = n.name
  <2>1. DueForm(explorer) /\ t = [filters |-> t.filters, by |-> t.by] /\ (n.by = "columns" <=> explorer.by = "columns")
    BY <1>0, <1>1
  <2> HIDE DEF r
  <2>2. LET x == After(explorer, n)
        IN /\ BarForm(x) /\ DueForm(x) /\ BarReaches(x, t, sent)
           /\ x.taken = n.taken /\ x.by = n.by /\ x.name = n.name
           /\ x.due = NotDue => explorer.due = NotDue /\ explorer.name = n.name
    BY <1>0, <2>1, ChangeKeeps
  <2> QED BY <2>2 DEF r
<1>3. explorer' = r \/ explorer' = [r EXCEPT !.changes = explorer.changes + 1]
  OBVIOUS
<1> HIDE DEF r
<1>4. /\ explorer' = [f \in ExplorerField |-> explorer'[f]]
      /\ explorer'.filters = r.filters /\ explorer'.by = r.by /\ explorer'.due = r.due /\ explorer'.name = r.name
      /\ explorer'.taken = r.taken
  BY <1>2, <1>3 DEF BarForm, ExplorerField
<1>5. NameSent(r, params, sent)
  BY <1>2 DEF NameSent, ToolbarInv
<1>6. /\ BarForm(explorer') /\ DueForm(explorer') /\ BarReaches(explorer', t, sent)
      /\ NameSent(explorer', params, sent)
  BY <1>2, <1>4, <1>5, BarStays
<1> QED BY <1>2, <1>3, <1>4, <1>6 DEF ToolbarInv, t, DefinedBy, NameSent, BarForm, DueForm, BarReaches, BarShows

\* A change that is counted.
LEMMA ChangedKeeps ==
  ASSUME ToolbarInv, Explorer, NEW n, BarForm(n), n.due = explorer.due, n.taken = explorer.taken,
         n.by = "columns" <=> explorer.by = "columns", n.by = "unset" => explorer.by = "unset",
         n.changes = explorer.changes, Changed(n), UNCHANGED params
  PROVE  ToolbarInv'
<1> DEFINE r == After(explorer, n)
<1>1. explorer' = [r EXCEPT !.changes = @ + 1] /\ UNCHANGED sent
  BY DEF Changed, After
<1>2. r.changes = n.changes
  <2>1. r = n \/ r = [n EXCEPT !.due = Current(n)]
    \/ r = [n EXCEPT !.selector = TRUE]
    BY DEF After, Derived
  <2>2. n = [f \in ExplorerField |-> n[f]]
    BY DEF BarForm
  <2> HIDE DEF r
  <2> QED BY <2>1, <2>2 DEF ExplorerField
<1> HIDE DEF r
<1>3. explorer' = [r EXCEPT !.changes = explorer.changes + 1]
  BY <1>1, <1>2
<1> QED BY <1>1, <1>3, StepKeeps DEF r

\* A toolbar with other filters.
Refiltered(d, s, by, open) == [d EXCEPT !.filters = s, !.by = by, !.selector = open]

LEMMA RefilteredForm ==
  ASSUME NEW d, BarForm(d), NEW s, NEW by, NEW open,
         Queue(s), by \in {"unset", "fields", "columns"},
         by = "columns" <=> d.by = "columns", by = "unset" => d.by = "unset",
         \A i \in DOMAIN s : ShownForm(s[i], by)
  PROVE  LET n == Refiltered(d, s, by, open)
         IN /\ BarForm(n) /\ n.due = d.due /\ n.taken = d.taken /\ n.changes = d.changes
            /\ (n.by = "columns" <=> d.by = "columns") /\ (n.by = "unset" => d.by = "unset")
<1> DEFINE n == Refiltered(d, s, by, open)
<1>1. d = [f \in ExplorerField |-> d[f]]
  BY DEF BarForm
<1>2. /\ n = [f \in ExplorerField |-> n[f]] /\ n.filters = s /\ n.by = by
      /\ n.due = d.due /\ n.taken = d.taken /\ n.changes = d.changes
  BY <1>1 DEF ExplorerField, Refiltered
<1> HIDE DEF n
<1>3. BarForm(n)
  BY <1>2 DEF BarForm
<1> QED BY <1>2, <1>3 DEF n

\* The changes of the filters.
LEMMA AddKeeps ==
  ASSUME ToolbarInv, Explorer, NEW field \in Field, AddFilter(field), UNCHANGED params
  PROVE  ToolbarInv'
<1> DEFINE f == [field |-> field, value |-> Nothing,
                 at |-> IF explorer.by = "columns" THEN 0 ELSE Len(explorer.filters) + 1]
           s == Append(explorer.filters, f)
           shut == FALSE
           n == Refiltered(explorer, s, explorer.by, shut)
<1>1. BarForm(explorer) /\ Queue(explorer.filters) /\ explorer.by \in {"unset", "fields", "columns"}
  BY DEF ToolbarInv, BarForm
<1>2. /\ Queue(s) /\ Len(explorer.filters) \in Nat
      /\ DOMAIN explorer.filters = 1..Len(explorer.filters)
      /\ DOMAIN s = 1..(Len(explorer.filters) + 1)
      /\ \A j \in DOMAIN explorer.filters : s[j] = explorer.filters[j]
      /\ s[Len(explorer.filters) + 1] = f
  BY <1>1, AppendFacts, QueueSteps
<1>3. n = [explorer EXCEPT !.filters = s, !.selector = FALSE]
  <2>1. explorer = [g \in ExplorerField |-> explorer[g]]
    BY <1>1 DEF BarForm
  <2> HIDE DEF s
  <2> QED BY <2>1 DEF ExplorerField, Refiltered
<1>4. Changed(n)
  BY <1>3 DEF AddFilter
<1>5. ShownForm(f, explorer.by)
  BY <1>2 DEF ShownForm
<1> HIDE DEF f, s
<1>6. \A i \in DOMAIN s : ShownForm(s[i], explorer.by)
  <2>1. \A i \in DOMAIN s : i \in DOMAIN explorer.filters \/ i = Len(explorer.filters) + 1
    BY <1>2
  <2> QED BY <1>1, <1>2, <1>5, <2>1 DEF BarForm
<1> HIDE DEF shut
<1>7. /\ BarForm(n) /\ n.due = explorer.due /\ n.taken = explorer.taken /\ n.changes = explorer.changes
      /\ (n.by = "columns" <=> explorer.by = "columns") /\ (n.by = "unset" => explorer.by = "unset")
  BY <1>1, <1>2, <1>6, RefilteredForm
<1> HIDE DEF n
<1> QED BY <1>4, <1>7, ChangedKeeps

LEMMA RemoveKeeps ==
  ASSUME ToolbarInv, Explorer, NEW i \in DOMAIN explorer.filters, RemoveClicked(i), UNCHANGED params
  PROVE  ToolbarInv'
<1> DEFINE b == explorer.filters
           at == b[i].at
           S == {b[j] : j \in DOMAIN b}
           s == IF at <= Len(b) THEN RemoveAt(b, at) ELSE b
           n == Refiltered(explorer, s, explorer.by, explorer.selector)
<1>1. /\ BarForm(explorer) /\ Queue(b) /\ explorer.by \in {"unset", "fields", "columns"}
      /\ \A j \in DOMAIN b : ShownForm(b[j], explorer.by)
  BY DEF ToolbarInv, BarForm
<1>2. at \in Nat /\ at # 0
  BY <1>1 DEF RemoveClicked, ShownForm
<1>3. b \in Seq(S) /\ Len(b) \in Nat
  <2>1. b \in Seq(S)
    BY <1>1 DEF Queue, Elements
  <2> HIDE DEF S
  <2> QED BY <2>1
<1>4. s \in Seq(S)
  <2> HIDE DEF S, b, at
  <2>1. CASE at <= Len(b)
    <3>1. SubSeq(b, 1, at - 1) \in Seq(S) /\ SubSeq(b, at + 1, Len(b)) \in Seq(S)
      BY <1>2, <1>3, <2>1
    <3> QED BY <2>1, <3>1 DEF RemoveAt
  <2> QED BY <1>3, <2>1
<1>5. Queue(s) /\ \A j \in DOMAIN s : s[j] \in S
  <2> HIDE DEF S, s
  <2> QED BY <1>4, QueueFacts DEF Elements
<1>6. \A j \in DOMAIN s : ShownForm(s[j], explorer.by)
  <2>1. \A x \in S : ShownForm(x, explorer.by)
    BY <1>1
  <2> HIDE DEF S, s
  <2> QED BY <1>5, <2>1
<1>7. n = [explorer EXCEPT !.filters = LET a == explorer.filters[i].at IN IF a <= Len(@) THEN RemoveAt(@, a) ELSE @]
  <2>1. explorer = [g \in ExplorerField |-> explorer[g]]
    BY <1>1 DEF BarForm
  <2> DEFINE k == [explorer EXCEPT !.filters = LET a == explorer.filters[i].at
                                               IN IF a <= Len(@) THEN RemoveAt(@, a) ELSE @]
  <2>2. k = [explorer EXCEPT !.filters = s]
    BY <2>1 DEF ExplorerField
  <2> HIDE DEF k, s
  <2>3. n = [explorer EXCEPT !.filters = s]
    BY <2>1 DEF ExplorerField, Refiltered
  <2> QED BY <2>2, <2>3 DEF k
<1>8. Changed(n)
  BY <1>7 DEF RemoveClicked
<1> HIDE DEF s
<1>9. /\ BarForm(n) /\ n.due = explorer.due /\ n.taken = explorer.taken /\ n.changes = explorer.changes
      /\ (n.by = "columns" <=> explorer.by = "columns") /\ (n.by = "unset" => explorer.by = "unset")
  BY <1>1, <1>5, <1>6, RefilteredForm
<1> HIDE DEF n
<1> QED BY <1>8, <1>9, ChangedKeeps

LEMMA ChooseKeeps ==
  ASSUME ToolbarInv, Explorer, NEW i \in DOMAIN explorer.filters, NEW v, ValueChosen(i, v), UNCHANGED params
  PROVE  ToolbarInv'
<1> DEFINE b == explorer.filters
           at == b[i].at
           s == IF at <= Len(b) THEN [b EXCEPT ![at].value = v] ELSE b
           n == Refiltered(explorer, s, "fields", explorer.selector)
<1>1. /\ BarForm(explorer) /\ Queue(b) /\ explorer.by \in {"unset", "fields", "columns"}
      /\ \A j \in DOMAIN b : ShownForm(b[j], explorer.by)
  BY DEF ToolbarInv, BarForm
<1>2. at \in Nat /\ at # 0 /\ explorer.by # "columns"
  BY <1>1 DEF ValueChosen, ShownForm
<1>3. Len(b) \in Nat /\ DOMAIN b = 1..Len(b) /\ b = [j \in 1..Len(b) |-> b[j]]
  BY <1>1, QueueShape
<1>4. DOMAIN s = 1..Len(b) /\ s = [j \in 1..Len(b) |-> s[j]]
      /\ \A j \in 1..Len(b) : s[j] = b[j] \/ s[j] = [b[j] EXCEPT !.value = v]
  <2> HIDE DEF b, at
  <2> QED BY <1>3
<1>5. Queue(s)
  <2> DEFINE S == Elements(s)
  <2> HIDE DEF s
  <2>1. s \in [1..Len(b) -> S]
    BY <1>4 DEF Elements
  <2> HIDE DEF S
  <2>2. s \in Seq(S)
    BY <1>3, <2>1
  <2> QED BY <2>2 DEF S, Queue
<1>6. \A j \in DOMAIN s : ShownForm(s[j], "fields")
  <2> SUFFICES ASSUME NEW j \in DOMAIN s PROVE ShownForm(s[j], "fields")
    OBVIOUS
  <2>1. ShownForm(b[j], "fields")
    BY <1>1, <1>2, <1>3, <1>4 DEF ShownForm
  <2>2. ShownForm([b[j] EXCEPT !.value = v], "fields")
    <3> DEFINE x == b[j]
               y == [x EXCEPT !.value = v]
    <3>1. x = [field |-> x.field, value |-> x.value, at |-> x.at] /\ x.at \in Nat /\ x.field \in Field
      BY <2>1 DEF ShownForm
    <3> HIDE DEF x
    <3>2. y = [field |-> x.field, value |-> v, at |-> x.at]
      BY <3>1
    <3>3. ShownForm([field |-> x.field, value |-> v, at |-> x.at], "fields")
      BY <3>1 DEF ShownForm
    <3> HIDE DEF y
    <3>4. ShownForm(y, "fields")
      BY <3>2, <3>3
    <3> QED BY <3>4 DEF y, x
  <2> HIDE DEF s
  <2> QED BY <1>4, <2>1, <2>2
<1>7. n = [explorer EXCEPT !.by = "fields",
             !.filters = IF at <= Len(@) THEN [@ EXCEPT ![at].value = v] ELSE @]
  <2>1. explorer = [g \in ExplorerField |-> explorer[g]]
    BY <1>1 DEF BarForm
  <2> DEFINE k == [explorer EXCEPT !.by = "fields",
                     !.filters = IF at <= Len(@) THEN [@ EXCEPT ![at].value = v] ELSE @]
  <2>2. k = [explorer EXCEPT !.by = "fields", !.filters = s]
    BY <2>1 DEF ExplorerField
  <2> HIDE DEF k, s
  <2>3. n = [explorer EXCEPT !.by = "fields", !.filters = s]
    BY <2>1 DEF ExplorerField, Refiltered
  <2> QED BY <2>2, <2>3 DEF k
<1>8. Changed(n)
  BY <1>7 DEF ValueChosen
<1> HIDE DEF s
<1>9. /\ BarForm(n) /\ n.due = explorer.due /\ n.taken = explorer.taken /\ n.changes = explorer.changes
      /\ (n.by = "columns" <=> explorer.by = "columns") /\ (n.by = "unset" => explorer.by = "unset")
  <2>1. /\ "fields" \in {"unset", "fields", "columns"} /\ ("fields" = "columns" <=> explorer.by = "columns")
        /\ ("fields" = "unset" => explorer.by = "unset")
    BY <1>2
  <2> QED BY <1>1, <1>5, <1>6, <2>1, RefilteredForm
<1> HIDE DEF n
<1> QED BY <1>8, <1>9, ChangedKeeps

\* The change of the name.
LEMMA NameKeeps ==
  ASSUME ToolbarInv, Explorer, TypeCardName \/ NameSettles, UNCHANGED params
  PROVE  ToolbarInv'
<1>1. BarForm(explorer) /\ explorer = [g \in ExplorerField |-> explorer[g]]
  BY DEF ToolbarInv, BarForm
<1>2. CASE TypeCardName
  <2>1. PICK x : Changed([explorer EXCEPT !.typed = x, !.typing = TRUE])
    BY <1>2 DEF TypeCardName
  <2> DEFINE n == [explorer EXCEPT !.typed = x, !.typing = TRUE]
  <2>2. /\ n = [g \in ExplorerField |-> n[g]] /\ n.filters = explorer.filters /\ n.by = explorer.by
        /\ n.due = explorer.due /\ n.taken = explorer.taken /\ n.changes = explorer.changes
    BY <1>1 DEF ExplorerField
  <2> HIDE DEF n
  <2>3. BarForm(n) /\ (n.by = "columns" <=> explorer.by = "columns")
    BY <1>1, <2>2 DEF BarForm
  <2>4. Changed(n)
    BY <2>1 DEF n
  <2> QED BY <2>2, <2>3, <2>4, ChangedKeeps
<1>3. CASE NameSettles
  <2> DEFINE n == [explorer EXCEPT !.name = explorer.typed, !.typing = FALSE]
  <2>1. explorer' = After(explorer, n) /\ UNCHANGED sent
    BY <1>3 DEF NameSettles, After
  <2>2. /\ n = [g \in ExplorerField |-> n[g]] /\ n.filters = explorer.filters /\ n.by = explorer.by
        /\ n.due = explorer.due /\ n.taken = explorer.taken
    BY <1>1 DEF ExplorerField
  <2> HIDE DEF n
  <2>3. BarForm(n) /\ (n.by = "columns" <=> explorer.by = "columns") /\ (n.by = "unset" => explorer.by = "unset")
    BY <1>1, <2>2 DEF BarForm
  <2> QED BY <2>1, <2>2, <2>3, StepKeeps
<1> QED BY <1>2, <1>3

\* A change that shows in neither, and emits at most an event that is no update.
LEMMA EmitKeeps ==
  ASSUME ToolbarInv, Explorer, UNCHANGED params,
         explorer' = [f \in ExplorerField |-> explorer'[f]], explorer'.filters = explorer.filters,
         explorer'.by = explorer.by, explorer'.due = explorer.due, explorer'.name = explorer.name,
         explorer'.taken = explorer.taken,
         \/ UNCHANGED sent
         \/ \E e : SetEvent(e) /\ e.op # "update" /\ sent' = Append(sent, e)
  PROVE  ToolbarInv'
<1> DEFINE t == DefinedBy(params)
<1>1. /\ BarForm(explorer) /\ DueForm(explorer) /\ BarReaches(explorer, t, sent) /\ NameSent(explorer, params, sent)
      /\ Queue(sent) /\ \A x \in Elements(sent) : SetEvent(x)
  BY DEF ToolbarInv
<1> HIDE DEF t
<1>2. /\ Queue(sent') /\ \A x \in Elements(sent') : SetEvent(x)
      /\ BarReaches(explorer, t, sent') /\ NameSent(explorer, params, sent')
  <2>1. CASE UNCHANGED sent
    BY <1>1, <2>1
  <2>2. CASE \E e : SetEvent(e) /\ e.op # "update" /\ sent' = Append(sent, e)
    <3>1. PICK e : SetEvent(e) /\ e.op # "update" /\ sent' = Append(sent, e)
      BY <2>2
    <3> QED BY <1>1, <3>1, EventKeeps
  <2> QED BY <2>1, <2>2
<1>3. /\ BarForm(explorer') /\ DueForm(explorer') /\ BarReaches(explorer', t, sent')
      /\ NameSent(explorer', params, sent')
  BY <1>1, <1>2, BarStays
<1> QED BY <1>2, <1>3 DEF ToolbarInv, t, DefinedBy, NameSent, BarForm, DueForm, BarReaches, BarShows

\* The actions that leave the filters and the name alone.
LEMMA OthersKeep ==
  ASSUME ToolbarInv, Explorer, UNCHANGED params,
         OpenSelector \/ SwitchFilters \/ SelectColumns \/ ApplyColumns \/ CloseColumns \/ SaveScore
  PROVE  ToolbarInv'
<1>1. explorer = [g \in ExplorerField |-> explorer[g]]
  BY DEF ToolbarInv, BarForm
<1>2. /\ explorer' = [f \in ExplorerField |-> explorer'[f]] /\ explorer'.filters = explorer.filters
      /\ explorer'.by = explorer.by /\ explorer'.due = explorer.due /\ explorer'.name = explorer.name
      /\ explorer'.taken = explorer.taken
  <2>1. \/ explorer' = [explorer EXCEPT !.selector = TRUE] \/ explorer' = [explorer EXCEPT !.changes = @ + 1]
        \/ explorer' = [explorer EXCEPT !.dialog = FALSE]
    BY DEF OpenSelector, SwitchFilters, SelectColumns, ApplyColumns, CloseColumns, SaveScore
  <2> QED BY <1>1, <2>1 DEF ExplorerField
<1>3. UNCHANGED sent \/ \E e : SetEvent(e) /\ e.op # "update" /\ sent' = Append(sent, e)
  <2>1. CASE OpenSelector
    BY <2>1 DEF OpenSelector
  <2>2. CASE SwitchFilters
    <3> DEFINE e == [op |-> "mode", by |-> IF explorer.by = "columns" THEN "fields" ELSE "columns"]
    <3>1. SetEvent(e) /\ e.op # "update"
      BY DEF SetEvent
    <3> QED BY <2>2, <3>1 DEF SwitchFilters, Emit
  <2>3. CASE SelectColumns
    <3>1. SetEvent([op |-> "openColumns"])
      BY DEF SetEvent
    <3> QED BY <2>3, <3>1 DEF SelectColumns, Emit
  <2>4. CASE ApplyColumns
    <3>1. PICK p \in Picks \cup {<<>>} : Emit([op |-> "columns", filters |-> p])
      BY <2>4 DEF ApplyColumns
    <3>2. SetEvent([op |-> "columns", filters |-> p])
      BY DEF SetEvent
    <3> QED BY <3>1, <3>2 DEF Emit
  <2>5. CASE CloseColumns
    <3>1. SetEvent([op |-> "closeColumns"])
      BY DEF SetEvent
    <3> QED BY <2>5, <3>1 DEF CloseColumns, Emit
  <2>6. CASE SaveScore
    <3>1. SetEvent([op |-> "save"])
      BY DEF SetEvent
    <3> QED BY <2>6, <3>1 DEF SaveScore, Emit
  <2> QED BY <2>1, <2>2, <2>3, <2>4, <2>5, <2>6
<1> QED BY <1>2, <1>3, EmitKeeps

\* What was due is under way.
LEMMA SendKeeps ==
  ASSUME ToolbarInv, SendUpdate, UNCHANGED params
  PROVE  ToolbarInv'
<1> DEFINE t == DefinedBy(params)
           e == [op |-> "update", card |-> explorer.due]
<1>1. /\ BarForm(explorer) /\ DueForm(explorer) /\ BarReaches(explorer, t, sent)
      /\ Queue(sent) /\ \A x \in Elements(sent) : SetEvent(x)
  BY DEF ToolbarInv, SendUpdate
<1>2. /\ explorer.due # NotDue /\ sent' = Append(sent, e) /\ explorer' = [explorer EXCEPT !.due = NotDue]
  BY DEF SendUpdate, Emit
<1>3. CardForm(explorer.due) /\ explorer.due.name = explorer.name
  BY <1>1, <1>2 DEF DueForm
<1>4. SetEvent(e) /\ e.op = "update" /\ e["card"] = explorer.due
  BY <1>3 DEF SetEvent
<1>5. /\ explorer' = [g \in ExplorerField |-> explorer'[g]] /\ explorer'.filters = explorer.filters
      /\ explorer'.by = explorer.by /\ explorer'.due = NotDue /\ explorer'.name = explorer.name
      /\ explorer'.taken = explorer.taken
  BY <1>1, <1>2 DEF BarForm, ExplorerField
<1>6. explorer.due # NotDue /\ AskedOf(explorer.due) # t => Redefines(e, t)
  BY <1>4 DEF Redefines
<1> HIDE DEF t, e
<1>7. Queue(sent') /\ \A x \in Elements(sent') : SetEvent(x)
  BY <1>1, <1>2, <1>4, EventKeeps
<1>8. BarReaches(explorer', t, sent')
  <2>1. BarShows(explorer) = t \/ (\E i \in DOMAIN sent : Redefines(sent[i], t)) \/ Redefines(e, t)
    BY <1>1, <1>6 DEF BarReaches
  <2>2. BarReaches(explorer', t, sent) \/ Redefines(e, t)
    BY <1>5, <2>1 DEF BarReaches, BarShows
  <2> QED BY <1>1, <1>2, <1>4, <2>2, EventKeeps
<1>9. BarForm(explorer') /\ DueForm(explorer')
  BY <1>1, <1>5 DEF BarForm, DueForm
<1>10. NameSent(explorer', params, sent')
  <2>1. LastAsked(sent', "update", "card", explorer.due, {}, params.card.name = explorer'.name)
    BY <1>1, <1>2, <1>4, LastAskedGrows
  <2> QED BY <1>3, <1>5, <2>1 DEF NameSent
<1> QED BY <1>5, <1>7, <1>8, <1>9, <1>10 DEF ToolbarInv, t, DefinedBy, SendUpdate,
     NameSent, BarForm, DueForm, BarReaches, BarShows

\* What the server does with an event.
LEMMA ShuffledForm ==
  ASSUME NEW card, CardForm(card), NEW other \in Shuffled(card)
  PROVE  CardForm(other) /\ other.name = card.name /\ other.by = card.by
<1> DEFINE s == card.filters
<1>1. /\ Len(s) \in Nat /\ DOMAIN s = 1..Len(s)
      /\ \A i \in DOMAIN s : s[i] = [field |-> s[i].field, value |-> s[i].value] /\ s[i].value # Nothing
      /\ \A i \in DOMAIN s : s[i].field \in Field <=> card.by # "columns"
  BY FiltersFacts DEF CardForm
<1>2. PICK order \in SetToSeqs(DOMAIN s) : other = [card EXCEPT !.filters = [i \in DOMAIN @ |-> @[order[i]]]]
  BY DEF Shuffled
<1> DEFINE r == [i \in DOMAIN s |-> s[order[i]]]
<1>3. \A i \in DOMAIN s : order[i] \in DOMAIN s
  <2>1. Cardinality(DOMAIN s) = Len(s)
    <3> DEFINE n == Len(s)
    <3>1. n \in Nat /\ DOMAIN s = 1..n
      BY <1>1
    <3> HIDE DEF n, s
    <3>2. Cardinality(1..n) = IF 1 > n THEN 0 ELSE n - 1 + 1
      BY <3>1, FS_Interval
    <3>3. Cardinality(1..n) = n
      BY <3>1, <3>2
    <3> QED BY <3>1, <3>3 DEF n
  <2>2. order \in [1..Cardinality(DOMAIN s) -> DOMAIN s]
    BY <1>2 DEF SetToSeqs
  <2> QED BY <1>1, <2>1, <2>2
<1>4. other = [name |-> card.name, filters |-> r, by |-> card.by]
  <2>1. card = [name |-> card.name, filters |-> s, by |-> card.by]
    BY DEF CardForm
  <2> QED BY <1>2, <2>1
<1> HIDE DEF s
<1>5. /\ \A i \in DOMAIN r : r[i] = [field |-> r[i].field, value |-> r[i].value] /\ r[i].value # Nothing
      /\ \A i \in DOMAIN r : r[i].field \in Field <=> card.by # "columns"
  BY <1>1, <1>3
<1>6. r \in Seq({r[i] : i \in DOMAIN r})
  <2> DEFINE S == {r[i] : i \in DOMAIN r}
  <2>1. r \in [1..Len(s) -> S]
    BY <1>1
  <2> HIDE DEF S, r
  <2> QED BY <1>1, <2>1 DEF S
<1>7. card.by \in {"unset", "fields", "columns"}
  BY DEF CardForm
<1> HIDE DEF r
<1> QED BY <1>4, <1>5, <1>6, <1>7 DEF CardForm, Filters

LEMMA ParamsForm ==
  ASSUME NEW card, CardForm(card), NEW open
  PROVE  LET p == ParamsOf(card, open)
         IN /\ p = [card |-> p.card, given |-> p.given, dialog |-> p.dialog] /\ CardForm(p.card)
            /\ p.card.name = card.name /\ DefinedBy(p) = AskedOf(card)
<1> DEFINE p == ParamsOf(card, open)
           by == IF card.by = "columns" THEN "columns" ELSE "fields"
<1>1. card = [name |-> card.name, filters |-> card.filters, by |-> card.by]
  BY DEF CardForm
<1>2. p.card = [name |-> card.name, filters |-> card.filters, by |-> by]
  BY <1>1 DEF ParamsOf
<1>3. p = [card |-> p.card, given |-> p.given, dialog |-> p.dialog]
  BY DEF ParamsOf
<1>4. CardForm([name |-> card.name, filters |-> card.filters, by |-> by])
  BY DEF CardForm
<1>5. DefinedBy(p) = AskedOf(card)
  BY <1>2 DEF DefinedBy, AskedOf
<1> HIDE DEF p, by
<1> QED BY <1>2, <1>3, <1>4, <1>5 DEF p

\* The columns picked in the dialog make a card by columns.
LEMMA PickForm ==
  ASSUME ColumnsTold, NEW s \in Picks \cup {<<>>}, NEW name
  PROVE  CardForm([name |-> name, filters |-> s, by |-> IF s = <<>> THEN "fields" ELSE "columns"])
<1> DEFINE by == IF s = <<>> THEN "fields" ELSE "columns"
<1>1. Filters(<<>>)
  BY DEF Filters
<1>2. Filters(s)
  BY <1>1, ExplorerAssumption
<1>3. \A i \in DOMAIN s : s[i].field \in Field <=> by # "columns"
  BY DEF ColumnsTold
<1> QED BY <1>2, <1>3 DEF CardForm

\* A card with other filters.
LEMMA CardWith ==
  ASSUME NEW c, c = [name |-> c.name, filters |-> c.filters, by |-> c.by], NEW s, NEW how, NEW n,
         n = [c EXCEPT !.filters = s, !.by = how]
  PROVE  n = [name |-> c.name, filters |-> s, by |-> how]
  OBVIOUS

LEMMA ColumnsCalled ==
  ASSUME NEW e, e.op = "columns", NEW next, ExplorerCalled(e, next)
  PROVE  next = ParamsOf([Definition(params) EXCEPT
                   !.filters = e.filters,
                   !.by = IF e.filters = <<>> THEN "fields" ELSE "columns"], FALSE)
  BY DEF ExplorerCalled

\* What an event makes of the query parameters: another definition if it asks for one.
LEMMA CardCalled ==
  ASSUME ColumnsTold, NEW e, SetEvent(e),
         params = [card |-> params.card, given |-> params.given, dialog |-> params.dialog],
         CardForm(params.card), NEW next, ExplorerCalled(e, next)
  PROVE  /\ next = [card |-> next.card, given |-> next.given, dialog |-> next.dialog] /\ CardForm(next.card)
         /\ Redefines(e, DefinedBy(params)) => DefinedBy(next) # DefinedBy(params)
         /\ next.card.by = "unset" => params.card.by = "unset"
         /\ next.card.name = IF e.op = "update" THEN e.card.name ELSE params.card.name
<1> DEFINE t == DefinedBy(params)
<1>0. params.card = [name |-> params.card.name, filters |-> params.card.filters, by |-> params.card.by]
  BY DEF CardForm
<1>1. CASE e.op = "update"
  <2>1. next = ParamsOf(e.card, params.dialog) /\ CardForm(e.card)
    BY <1>1 DEF ExplorerCalled, SetEvent
  <2>2. /\ next = [card |-> next.card, given |-> next.given, dialog |-> next.dialog] /\ CardForm(next.card)
        /\ next.card.name = e.card.name /\ DefinedBy(next) = AskedOf(e.card)
    BY <2>1, ParamsForm
  <2>3. Redefines(e, t) => DefinedBy(next) # t
    BY <1>1, <2>2 DEF Redefines
  <2>4. next.card.by # "unset"
    BY <2>2 DEF DefinedBy, AskedOf
  <2> QED BY <1>1, <2>2, <2>3, <2>4
<1>2. CASE e.op = "mode"
  <2>1. next = [params EXCEPT !.card.filters = <<>>, !.card.by = e.by] /\ e.by \in {"fields", "columns"}
    BY <1>2 DEF ExplorerCalled, SetEvent
  <2>2. /\ next = [card |-> next.card, given |-> next.given, dialog |-> next.dialog]
        /\ next.card = [name |-> params.card.name, filters |-> <<>>, by |-> e.by]
    BY <1>0, <2>1
  <2>3. CardForm(next.card)
    <3>1. Filters(<<>>)
      BY DEF Filters
    <3> QED BY <2>1, <2>2, <3>1 DEF CardForm
  <2>4. Redefines(e, t) => DefinedBy(next) # t
    BY <1>2, <2>2 DEF Redefines, DefinedBy
  <2>5. next.card.by = e.by /\ next.card.name = params.card.name
    BY <2>2
  <2>6. next.card.by # "unset" /\ e.op # "update"
    BY <1>2, <2>1, <2>5
  <2>7. next = [card |-> next.card, given |-> next.given, dialog |-> next.dialog]
    BY <2>2
  <2> QED BY <2>3, <2>4, <2>5, <2>6, <2>7
<1>3. CASE e.op \in {"openColumns", "closeColumns"}
  <2>1. \E open : next = [params EXCEPT !.dialog = open]
    BY <1>3 DEF ExplorerCalled
  <2>2. next = [card |-> next.card, given |-> next.given, dialog |-> next.dialog] /\ next.card = params.card
    BY <2>1
  <2>3. ~Redefines(e, t) /\ e.op # "update"
    BY <1>3 DEF Redefines
  <2>4. CardForm(next.card) /\ next.card.by = params.card.by /\ next.card.name = params.card.name
    BY <2>2
  <2> QED BY <2>2, <2>3, <2>4
<1>4. CASE e.op = "columns"
  <2> DEFINE by == IF e.filters = <<>> THEN "fields" ELSE "columns"
             card == [name |-> params.card.name, filters |-> e.filters, by |-> by]
             shut == FALSE
  <2>1. e.filters \in Picks \cup {<<>>}
    BY <1>4 DEF SetEvent
  <2>2. CardForm(card)
    <3> DEFINE p == e.filters
               name == params.card.name
    <3>1. p \in Picks \cup {<<>>}
      BY <2>1
    <3> HIDE DEF p, name
    <3>2. CardForm([name |-> name, filters |-> p, by |-> IF p = <<>> THEN "fields" ELSE "columns"])
      BY <3>1, PickForm
    <3> QED BY <3>2 DEF p, name
  <2>3. card.name = params.card.name /\ AskedOf(card) = [filters |-> e.filters, by |-> by]
    BY DEF AskedOf
  <2>4. Redefines(e, t) => AskedOf(card) # t
    BY <1>4, <2>3 DEF Redefines
  <2>5. next = ParamsOf(card, shut)
    <3> DEFINE x == [params.card EXCEPT !.filters = e.filters, !.by = by]
    <3>1. next = ParamsOf(x, shut)
      <4>1. next = ParamsOf([Definition(params) EXCEPT
                       !.filters = e.filters,
                       !.by = IF e.filters = <<>> THEN "fields" ELSE "columns"], FALSE)
        BY <1>4, ColumnsCalled
      <4> QED BY <4>1, Zenon DEF Definition
    <3>2. x = card
      <4> DEFINE c == params.card
                 s == e.filters
      <4>1. c = [name |-> c.name, filters |-> c.filters, by |-> c.by] /\ x = [c EXCEPT !.filters = s, !.by = by]
        BY <1>0
      <4> HIDE DEF c, x, by, s
      <4>2. x = [name |-> c.name, filters |-> s, by |-> by]
        BY <4>1, CardWith
      <4> QED BY <4>2 DEF c, s
    <3> HIDE DEF x, card, shut
    <3> QED BY <3>1, <3>2
  <2> HIDE DEF card, shut
  <2>6. /\ next = [card |-> next.card, given |-> next.given, dialog |-> next.dialog] /\ CardForm(next.card)
        /\ next.card.name = card.name /\ DefinedBy(next) = AskedOf(card)
    BY <2>2, <2>5, ParamsForm
  <2>7. next.card.by # "unset"
    BY <2>6 DEF DefinedBy, AskedOf
  <2> QED BY <1>4, <2>3, <2>4, <2>6, <2>7
<1>5. CASE e.op = "save"
  <2>1. ~Redefines(e, t)
    BY <1>5 DEF Redefines
  <2>2. CASE next = params
    BY <1>5, <2>1, <2>2
  <2>3. CASE \E card \in Shuffled(params.card) : next = ParamsOf(card, params.dialog)
    <3>1. PICK card \in Shuffled(params.card) : next = ParamsOf(card, params.dialog)
      BY <2>3
    <3>2. CardForm(card) /\ card.name = params.card.name
      BY ShuffledForm
    <3>3. /\ next = [card |-> next.card, given |-> next.given, dialog |-> next.dialog] /\ CardForm(next.card)
          /\ next.card.name = card.name /\ DefinedBy(next) = AskedOf(card)
      BY <3>1, <3>2, ParamsForm
    <3>4. next.card.by # "unset"
      BY <3>3 DEF DefinedBy, AskedOf
    <3> QED BY <1>5, <2>1, <3>2, <3>3, <3>4
  <2> QED BY <1>5, <2>2, <2>3 DEF ExplorerCalled
<1>6. e.op \in {"update", "mode", "openColumns", "closeColumns", "columns", "save"}
  BY DEF SetEvent
<1> QED BY <1>1, <1>2, <1>3, <1>4, <1>5, <1>6

\* The toolbar with the definition of the next run.
Handed(d, p) ==
  [TakenUp(d, p) EXCEPT !.taken = DefinedBy(p),
     !.dialog = IF ColumnsShown(p) = d.columns THEN @ ELSE p.dialog, !.columns = ColumnsShown(p)]

LEMMA HandedForm ==
  ASSUME NEW d, BarForm(d), NEW p, CardForm(p.card)
  PROVE  LET n == Handed(d, p)
         IN /\ BarForm(n) /\ n.name = d.name /\ n.due = d.due /\ n.taken = DefinedBy(p)
            /\ IF DefinedBy(p) = d.taken THEN n.filters = d.filters /\ n.by = d.by
               ELSE BarShows(n) = DefinedBy(p)
<1> DEFINE c == p.card
           u == TakenUp(d, p)
           n == Handed(d, p)
           s == IF Bare(d.filters) = c.filters THEN d.filters ELSE Drawn(c.filters, c.by)
<1>0. /\ d = [f \in ExplorerField |-> d[f]] /\ Queue(d.filters)
      /\ \A i \in DOMAIN d.filters : ShownForm(d.filters[i], d.by)
  BY DEF BarForm
<1>1. u = IF DefinedBy(p) = d.taken THEN d ELSE [d EXCEPT !.filters = s, !.by = c.by]
  <2>1. u = IF DefinedBy(p) = d.taken THEN d
            ELSE [d EXCEPT !.filters = IF Bare(@) = c.filters THEN @ ELSE Drawn(c.filters, c.by), !.by = c.by]
    BY DEF TakenUp, DefinedBy, Definition
  <2>2. [d EXCEPT !.filters = IF Bare(@) = c.filters THEN @ ELSE Drawn(c.filters, c.by), !.by = c.by]
        = [d EXCEPT !.filters = s, !.by = c.by]
    BY <1>0 DEF ExplorerField
  <2> HIDE DEF s, u
  <2> QED BY <2>1, <2>2
<1> HIDE DEF s
<1>2. /\ u = [f \in ExplorerField |-> u[f]] /\ u.name = d.name /\ u.due = d.due
      /\ u.filters = IF DefinedBy(p) = d.taken THEN d.filters ELSE s
      /\ u.by = IF DefinedBy(p) = d.taken THEN d.by ELSE c.by
  <2> HIDE DEF u
  <2> QED BY <1>0, <1>1 DEF ExplorerField
<1>3. /\ n = [f \in ExplorerField |-> n[f]] /\ n.name = u.name /\ n.due = u.due /\ n.taken = DefinedBy(p)
      /\ n.filters = u.filters /\ n.by = u.by
  <2>1. n = [u EXCEPT !.taken = DefinedBy(p),
                      !.dialog = IF ColumnsShown(p) = d.columns THEN @ ELSE p.dialog, !.columns = ColumnsShown(p)]
    BY DEF Handed
  <2> HIDE DEF n, u
  <2> QED BY <1>2, <2>1 DEF ExplorerField
<1> HIDE DEF n, u
<1>4. CASE DefinedBy(p) = d.taken
  <2>1. BarForm(n)
    BY <1>2, <1>3, <1>4 DEF BarForm
  <2> QED BY <1>2, <1>3, <1>4, <2>1 DEF n
<1>5. CASE DefinedBy(p) # d.taken
  <2>0. Filters(c.filters) /\ c.by \in {"unset", "fields", "columns"}
        /\ \A i \in DOMAIN c.filters : c.filters[i].field \in Field <=> c.by # "columns"
    BY DEF CardForm
  <2>1. Queue(s) /\ Given(s) = c.filters /\ \A i \in DOMAIN s : ShownForm(s[i], c.by)
    <3>1. CASE Bare(d.filters) = c.filters
      <4>1. s = d.filters
        BY <3>1 DEF s
      <4>2. Given(s) = c.filters
        BY <1>0, <2>0, <3>1, <4>1, GivenKept
      <4>3. ASSUME NEW i \in DOMAIN s PROVE ShownForm(s[i], c.by)
        <5>1. i \in DOMAIN c.filters /\ c.filters[i] = [field |-> s[i].field, value |-> s[i].value]
          BY <3>1, <4>1 DEF Bare
        <5>2. c.filters[i].field = s[i].field /\ c.filters[i].value = s[i].value
          BY <5>1
        <5>3. s[i].value # Nothing /\ (s[i].field \in Field <=> c.by # "columns")
          BY <2>0, <5>1, <5>2 DEF Filters
        <5>4. ShownForm(s[i], d.by)
          BY <1>0, <4>1
        <5> QED BY <5>3, <5>4 DEF ShownForm
      <4> QED BY <1>0, <4>1, <4>2, <4>3
    <3>2. CASE Bare(d.filters) # c.filters
      <4>1. s = Drawn(c.filters, c.by)
        BY <3>2 DEF s
      <4>2. Queue(s) /\ Given(s) = c.filters
        BY <2>0, <4>1, GivenDrawn
      <4>3. ASSUME NEW i \in DOMAIN s PROVE ShownForm(s[i], c.by)
        <5>1. DOMAIN c.filters = 1..Len(c.filters) /\ Len(c.filters) \in Nat
          BY <2>0, FiltersFacts
        <5>2. /\ i \in DOMAIN c.filters /\ i \in Nat
              /\ s[i] = [field |-> c.filters[i].field, value |-> c.filters[i].value,
                         at |-> IF c.by = "columns" THEN 0 ELSE i]
          BY <4>1, <5>1 DEF Drawn
        <5>3. c.filters[i].field \in Field <=> c.by # "columns"
          BY <2>0, <5>2
        <5> QED BY <5>2, <5>3 DEF ShownForm
      <4> QED BY <4>2, <4>3
    <3> QED BY <3>1, <3>2
  <2>2. n.filters = s /\ n.by = c.by
    BY <1>2, <1>3, <1>5
  <2>3. BarForm(n)
    BY <1>3, <2>0, <2>1, <2>2 DEF BarForm
  <2>4. BarShows(n) = DefinedBy(p)
    BY <2>1, <2>2 DEF BarShows, DefinedBy
  <2> QED BY <1>2, <1>3, <1>5, <2>3, <2>4 DEF n
<1> QED BY <1>4, <1>5

\* What follows from it.
LEMMA RedefinedForm ==
  ASSUME NEW d, BarForm(d), DueForm(d), NEW p, CardForm(p.card)
  PROVE  LET r == Redefined(d, p)
         IN /\ BarForm(r.d) /\ DueForm(r.d) /\ r.d.name = d.name /\ r.d.taken = DefinedBy(p)
            /\ r.d.due = NotDue => d.due = NotDue
            /\ IF DefinedBy(p) = d.taken
                 THEN BarShows(r.d) = BarShows(d) /\ r.d.by = d.by /\ r.d.due = d.due
                 ELSE BarShows(r.d) = DefinedBy(p)
            /\ r.emits \in {<<>>, <<[op |-> "openColumns"]>>}
<1> DEFINE n == Handed(d, p)
           r == Redefined(d, p)
<1>1. /\ BarForm(n) /\ n.name = d.name /\ n.due = d.due /\ n.taken = DefinedBy(p)
      /\ IF DefinedBy(p) = d.taken THEN n.filters = d.filters /\ n.by = d.by
         ELSE BarShows(n) = DefinedBy(p)
  BY HandedForm
<1>2. r = Derived(d, n, Bare(n.filters) # Bare(d.filters))
  BY DEF Redefined, Handed, DefinedBy, Definition
<1> HIDE DEF n
<1>3. /\ \/ r.d = n \/ r.d = [n EXCEPT !.selector = TRUE] \/ r.d = [n EXCEPT !.due = Current(n)]
      /\ DefinedBy(p) = d.taken => r.d = n
      /\ r.emits \in {<<>>, <<[op |-> "openColumns"]>>}
  <2>1. DefinedBy(p) = d.taken => Current(n) = Current(d) /\ Bare(n.filters) = Bare(d.filters)
    BY <1>1 DEF Current
  <2> QED BY <1>2, <2>1 DEF Derived
<1> HIDE DEF r
<1>4. CardForm(Current(n)) /\ Current(n).name = n.name /\ Current(n) # NotDue
  BY <1>1, CurrentForm
<1>5. /\ r.d = [f \in ExplorerField |-> r.d[f]] /\ r.d.filters = n.filters /\ r.d.by = n.by /\ r.d.name = n.name
      /\ r.d.taken = n.taken /\ (r.d.due = n.due \/ r.d.due = Current(n))
  <2>1. n = [f \in ExplorerField |-> n[f]]
    BY <1>1 DEF BarForm
  <2> QED BY <1>3, <2>1 DEF ExplorerField
<1>6. BarForm(r.d)
  BY <1>1, <1>5 DEF BarForm
<1>7. DueForm(r.d) /\ (r.d.due = NotDue => d.due = NotDue)
  BY <1>1, <1>4, <1>5 DEF DueForm
<1>8. BarShows(r.d) = BarShows(n)
  BY <1>5 DEF BarShows
<1>9. DefinedBy(p) = d.taken => BarShows(r.d) = BarShows(d) /\ r.d.by = d.by /\ r.d.due = d.due
  BY <1>1, <1>3 DEF BarShows
<1> QED BY <1>1, <1>3, <1>5, <1>6, <1>7, <1>8, <1>9 DEF r

\* An event is handled, and the next run reaches the browser.
LEMMA ServeKeeps ==
  ASSUME ColumnsTold, ToolbarInv, ServeExplorer
  PROVE  ToolbarInv'
<1> DEFINE t == DefinedBy(params)
           next == params'
           u == DefinedBy(next)
           e == Head(sent)
           rest == Tail(sent)
           r == Redefined(explorer, next)
           bar == r.d
           q == rest \o r.emits
<1>1. /\ BarForm(explorer) /\ DueForm(explorer) /\ CardForm(params.card) /\ explorer.taken = t
      /\ (explorer.by = "unset" => params.card.by = "unset")
      /\ params = [card |-> params.card, given |-> params.given, dialog |-> params.dialog]
      /\ Queue(sent) /\ (\A x \in Elements(sent) : SetEvent(x))
      /\ BarReaches(explorer, t, sent) /\ NameSent(explorer, params, sent)
  BY DEF ToolbarInv, ServeExplorer
<1>2. sent # <<>> /\ ExplorerCalled(e, next) /\ explorer' = bar /\ sent' = q
  BY DEF ServeExplorer
<1>3. /\ Queue(rest) /\ (\A x \in Elements(rest) : SetEvent(x)) /\ SetEvent(e)
      /\ Len(sent) \in Nat /\ DOMAIN sent = 1..Len(sent) /\ sent[1] = e
      /\ DOMAIN rest = 1..(Len(sent) - 1) /\ \A j \in DOMAIN rest : rest[j] = sent[j + 1]
  BY <1>1, <1>2, QueueSteps, TailFacts
<1> HIDE DEF next
<1>4. /\ next = [card |-> next.card, given |-> next.given, dialog |-> next.dialog] /\ CardForm(next.card)
      /\ Redefines(e, t) => u # t
      /\ next.card.by = "unset" => params.card.by = "unset"
      /\ next.card.name = IF e.op = "update" THEN e.card.name ELSE params.card.name
  BY <1>1, <1>2, <1>3, CardCalled
<1>5. /\ BarForm(bar) /\ DueForm(bar) /\ bar.name = explorer.name /\ bar.taken = u
      /\ bar.due = NotDue => explorer.due = NotDue
      /\ IF u = explorer.taken
           THEN BarShows(bar) = BarShows(explorer) /\ bar.by = explorer.by /\ bar.due = explorer.due
           ELSE BarShows(bar) = u
      /\ r.emits \in {<<>>, <<[op |-> "openColumns"]>>}
  BY <1>1, <1>4, RedefinedForm
<1> HIDE DEF t, u, e, rest, r
<1>6. q = rest \/ q = Append(rest, [op |-> "openColumns"])
  <2> DEFINE S == Elements(rest)
  <2>1. rest \in Seq(S)
    BY <1>3 DEF Queue
  <2> HIDE DEF S
  <2>2. rest \o <<>> = rest
    BY <2>1
  <2>3. rest \o <<[op |-> "openColumns"]>> = Append(rest, [op |-> "openColumns"])
    BY <2>1
  <2> QED BY <1>5, <2>2, <2>3
<1> HIDE DEF bar, q
<1>7. SetEvent([op |-> "openColumns"]) /\ [op |-> "openColumns"].op # "update"
  BY DEF SetEvent
<1>8. BarReaches(bar, u, rest)
  <2>1. CASE u = t
    <3>1. CASE \E i \in DOMAIN sent : Redefines(sent[i], t)
      <4>1. PICK i \in DOMAIN sent : Redefines(sent[i], t)
        BY <3>1
      <4>2. i # 1
        BY <1>3, <1>4, <2>1, <4>1
      <4>3. i - 1 \in DOMAIN rest /\ rest[i - 1] = sent[i]
        BY <1>3, <4>2
      <4> QED BY <2>1, <4>1, <4>3 DEF BarReaches
    <3>2. CASE ~\E i \in DOMAIN sent : Redefines(sent[i], t)
      BY <1>1, <1>5, <2>1, <3>2 DEF BarReaches
    <3> QED BY <3>1, <3>2
  <2>2. CASE u # t
    BY <1>1, <1>5, <2>2 DEF BarReaches
  <2> QED BY <2>1, <2>2
<1>9. NameSent(bar, next, rest)
  <2> SUFFICES ASSUME bar.due = NotDue
               PROVE  \E c : c.name = bar.name /\ LastAsked(rest, "update", "card", c, {}, next.card.name = bar.name)
    BY DEF NameSent
  <2>1. PICK c : c.name = bar.name /\ LastAsked(sent, "update", "card", c, {}, params.card.name = bar.name)
    BY <1>1, <1>5 DEF NameSent
  <2> DEFINE now == next.card.name = bar.name
             done == params.card.name = bar.name
  <2>2. /\ e.op \in {} \/ (e.op = "update" /\ e["card"] = c) => now
        /\ e.op # "update" /\ done => now
    BY <1>4, <2>1
  <2>3. LastAsked(sent, "update", "card", c, {}, done)
    BY <2>1
  <2> HIDE DEF now, done
  <2>4. LastAsked(rest, "update", "card", c, {}, now)
    BY <1>1, <1>2, <2>2, <2>3, LastAskedServed DEF e, rest
  <2> QED BY <2>1, <2>4 DEF now
<1>10. Queue(q) /\ (\A x \in Elements(q) : SetEvent(x)) /\ BarReaches(bar, u, q) /\ NameSent(bar, next, q)
  BY <1>3, <1>6, <1>7, <1>8, <1>9, EventKeeps
<1>11. bar.by = "unset" => next.card.by = "unset"
  <2>1. CASE u = t
    <3>1. next.card.by = params.card.by
      BY <2>1 DEF u, t, DefinedBy
    <3> QED BY <1>1, <1>5, <2>1, <3>1
  <2>2. CASE u # t
    <3>1. BarShows(bar) = u
      BY <1>1, <1>5, <2>2
    <3> QED BY <3>1 DEF BarShows, u, DefinedBy
  <2> QED BY <2>1, <2>2
<1>12. bar.taken = u /\ BarForm(bar) /\ DueForm(bar)
  BY <1>5
<1> QED BY <1>2, <1>4, <1>10, <1>11, <1>12 DEF ToolbarInv, u, next, DefinedBy, NameSent,
     BarForm, DueForm, BarReaches, BarShows

LEMMA ToolbarStep ==
  ASSUME ColumnsTold, ToolbarInv, Explorer, ExplorerNext
  PROVE  ToolbarInv'
<1>1. CASE ExplorerUser /\ UNCHANGED <<params, stored>>
  <2>1. ASSUME NEW f \in Field, AddFilter(f) PROVE ToolbarInv'
    BY <1>1, <2>1, AddKeeps
  <2>2. ASSUME NEW i \in DOMAIN explorer.filters, RemoveClicked(i) PROVE ToolbarInv'
    BY <1>1, <2>2, RemoveKeeps
  <2>3. ASSUME NEW i \in DOMAIN explorer.filters, NEW v \in Value, ValueChosen(i, v) PROVE ToolbarInv'
    BY <1>1, <2>3, ChooseKeeps
  <2>4. ASSUME TypeCardName \/ NameSettles PROVE ToolbarInv'
    BY <1>1, <2>4, NameKeeps
  <2>5. ASSUME SendUpdate PROVE ToolbarInv'
    BY <1>1, <2>5, SendKeeps
  <2>6. ASSUME OpenSelector \/ SwitchFilters \/ SelectColumns \/ ApplyColumns \/ CloseColumns \/ SaveScore
        PROVE  ToolbarInv'
    BY <1>1, <2>6, OthersKeep
  <2> QED BY <1>1, <2>1, <2>2, <2>3, <2>4, <2>5, <2>6 DEF ExplorerUser
<1>2. CASE ServeExplorer
  BY <1>2, ServeKeeps
<1> QED BY <1>1, <1>2 DEF ExplorerNext

\* The page as it is opened.
LEMMA ToolbarStart ==
  ASSUME ColumnsTold, sent = <<>>, ExplorerInit
  PROVE  ToolbarInv
<1> DEFINE c == params.card
<1>1. /\ params = [card |-> c, given |-> params.given, dialog |-> params.dialog] /\ CardForm(c)
  <2>1. CASE stored = Nothing
    <3>1. Filters(<<>>)
      BY DEF Filters
    <3> QED BY <2>1, <3>1 DEF ExplorerInit, Unnamed, CardForm
  <2>2. CASE stored # Nothing
    <3>1. stored \in Card
      BY <2>2 DEF ExplorerInit
    <3>2. /\ stored = [name |-> stored.name, filters |-> stored.filters, by |-> stored.by]
          /\ Filters(stored.filters) /\ stored.by \in {"fields", "columns"}
      BY <3>1, ExplorerAssumption
    <3>3. \A i \in DOMAIN stored.filters : stored.filters[i].field \in Field <=> stored.by = "fields"
      BY <3>1 DEF ColumnsTold
    <3>4. CardForm(stored)
      BY <3>2, <3>3 DEF CardForm
    <3> DEFINE shut == FALSE
    <3>5. params = ParamsOf(stored, shut)
      BY <2>2, Zenon DEF ExplorerInit
    <3> HIDE DEF shut
    <3> QED BY <3>4, <3>5, ParamsForm
  <2> QED BY <2>1, <2>2
<1>2. explorer = Opened(c)
  BY DEF ExplorerInit
<1> HIDE DEF c
<1>3. Filters(c.filters) /\ c.by \in {"unset", "fields", "columns"}
      /\ \A i \in DOMAIN c.filters : c.filters[i].field \in Field <=> c.by # "columns"
  BY <1>1 DEF CardForm
<1> DEFINE s == Drawn(c.filters, c.by)
<1>4. /\ explorer = [f \in ExplorerField |-> explorer[f]] /\ explorer.name = c.name
      /\ explorer.filters = s /\ explorer.by = c.by /\ explorer.due = NotDue
      /\ explorer.taken = [filters |-> c.filters, by |-> c.by]
  <2> HIDE DEF s
  <2> QED BY <1>2 DEF Opened, ExplorerField, s
<1>5. Queue(s) /\ Given(s) = c.filters
  BY <1>3, GivenDrawn
<1>6. ASSUME NEW i \in DOMAIN s PROVE ShownForm(s[i], c.by)
  <2>1. DOMAIN c.filters = 1..Len(c.filters) /\ Len(c.filters) \in Nat
    BY <1>3, FiltersFacts
  <2>2. /\ i \in DOMAIN c.filters /\ i \in Nat
        /\ s[i] = [field |-> c.filters[i].field, value |-> c.filters[i].value,
                   at |-> IF c.by = "columns" THEN 0 ELSE i]
    BY <2>1 DEF Drawn
  <2>3. c.filters[i].field \in Field <=> c.by # "columns"
    BY <1>3, <2>2
  <2> QED BY <2>2, <2>3 DEF ShownForm
<1> HIDE DEF s
<1>7. BarForm(explorer)
  BY <1>3, <1>4, <1>5, <1>6 DEF BarForm
<1>8. DueForm(explorer) /\ explorer.taken = DefinedBy(params) /\ BarShows(explorer) = DefinedBy(params)
  BY <1>4, <1>5 DEF DueForm, DefinedBy, BarShows, c
<1>9. Queue(sent) /\ Elements(sent) = {} /\ DOMAIN sent = {}
  BY NoEvents
<1>10. NameSent(explorer, params, sent)
  <2>1. LastAsked(sent, "update", "card", c, {}, c.name = explorer.name)
    BY <1>4, <1>9 DEF LastAsked
  <2> QED BY <1>4, <2>1 DEF NameSent, c
<1> QED BY <1>1, <1>4, <1>7, <1>8, <1>9, <1>10 DEF ToolbarInv, BarReaches, c

\* Nothing due and nothing under way: the toolbar shows the definition.
LEMMA ToolbarFollows == ToolbarInv => ToolbarInStep
<1> SUFFICES ASSUME ToolbarInv, Explorer, sent = <<>>, explorer.due = NotDue
             PROVE  /\ params.card.name = explorer.name /\ params.card.filters = Given(explorer.filters)
                    /\ params.card.by = explorer.by
  BY DEF ToolbarInStep, Quiet
<1>1. DOMAIN sent = {}
  OBVIOUS
<1>2. BarShows(explorer) = DefinedBy(params)
  BY <1>1 DEF ToolbarInv, BarReaches
<1>3. params.card.name = explorer.name
  BY <1>1 DEF ToolbarInv, NameSent, LastAsked
<1> QED BY <1>2, <1>3 DEF BarShows, DefinedBy

\* Other pages leave the explorer alone.
LEMMA ToolbarStutters ==
  ASSUME ToolbarInv, UNCHANGED <<page, sent, explorerVars>>
  PROVE  ToolbarInv'
<1>1. page' = page /\ sent' = sent /\ explorer' = explorer /\ params' = params
  BY DEF explorerVars
<1> QED BY <1>1 DEF ToolbarInv, Explorer, DefinedBy, NameSent, BarForm, DueForm, BarReaches, BarShows
=============================================================================
