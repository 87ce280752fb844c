---------------------------- MODULE Lists_proofs ----------------------------
(***************************************************************************)
(* The invariants of the lists of test runs, profiling runs and test suites, *)
(* of the tree of the data catalog, and of the dialogs that a session holds   *)
(* open on the dashboard of the monitors and in the catalog, and that their   *)
(* steps keep them: for any number of runs, tables, columns, suites, groups   *)
(* and dialogs, any page size and any number of events under way.            *)
(***************************************************************************)
EXTENDS RunLists, DataCatalog, TestSuites, Monitors, CatalogDialogs, JobStatus_proofs,
        Browser_proofs, Integers

-----------------------------------------------------------------------------
(* The run lists.                                                           *)

\* The events of a run list, and the statuses of its runs.
ListEvent ==
  [op : {"delete"}, ids : SUBSET Run, confirmed : BOOLEAN]
    \cup [op : {"cancel"}, run : Run] \cup [op : {"page"}, pg : Int]
    \cup [op : {"run", "refresh"}]

RunStati == JobStatuses \cup {"none", "gone"}

\* Rows that were read earlier: the runs are there, and one that was over then
\* is over.
RowsKnown(rows, db) ==
  /\ DOMAIN rows \subseteq Run
  /\ \A r \in DOMAIN rows : db[r] # "none" /\ (db[r] \in Active => rows[r] \in Active)

\* How runs move on: one that was submitted stays so, one that is over too.
Onward(db, next) ==
  \A r \in Run : db[r] # "none" => next[r] # "none" /\ (next[r] \in Active => db[r] \in Active)

\* A deletion that is under way was confirmed, or its runs are over.
Covered(e, db) ==
  e.op = "delete" =>
    \A r \in e.ids : db[r] # "none" /\ (db[r] \in Active => e.confirmed)

ListForm(l) ==
  /\ l = [ticked |-> l.ticked, deleting |-> l.deleting, confirmed |-> l.confirmed,
          rows |-> l.rows, total |-> l.total, pg |-> l.pg]
  /\ l.confirmed \in BOOLEAN

ListInv ==
  /\ runs \in [Run -> RunStati]
  /\ ListForm(list)
  /\ sent \in Seq(ListEvent)
  /\ RowsKnown(list.rows, runs) /\ RowsKnown(list.deleting, runs)
  /\ \A p \in DOMAIN cache : RowsKnown(cache[p].rows, runs)
  /\ \A i \in DOMAIN sent : Covered(sent[i], runs)
  /\ timers = <<Rate(list.rows)>>

LEMMA ActiveSources == Active = DOMAIN ValidTransitions
BY TransitionTable DEF Active, Starting

\* What was known stays known while runs move on.
LEMMA KnownStays ==
  ASSUME NEW rows, NEW db, NEW next, RowsKnown(rows, db), Onward(db, next)
  PROVE  RowsKnown(rows, next)
BY DEF RowsKnown, Onward

LEMMA CoveredStays ==
  ASSUME NEW e \in ListEvent, NEW db, NEW next, Covered(e, db), Onward(db, next)
  PROVE  Covered(e, next)
<1> SUFFICES ASSUME e.op = "delete", NEW r \in e.ids
             PROVE  next[r] # "none" /\ (next[r] \in Active => e.confirmed)
  BY DEF Covered
<1>1. r \in Run
  BY DEF ListEvent
<1> QED BY <1>1 DEF Covered, Onward

\* A page that is read now is known.
LEMMA SummariesKnown ==
  ASSUME NEW p, NEW db
  PROVE  RowsKnown(Summaries(p, db).rows, db)
BY DEF RowsKnown, Summaries, StoredRuns, JobStatuses

\* A list with one interval keeps one, at the rate of what it shows.
LEMMA OneInterval ==
  /\ \A rows : RefreshAt(rows, <<>>) = <<Rate(rows)>>
  /\ \A rows, x : RefreshAt(rows, <<x>>) = <<Rate(rows)>>
<1>1. ASSUME NEW y PROVE Append(<<>>, y) = <<y>>
  OBVIOUS
<1>2. SubSeq(<<>>, 1, 0 - 1) = <<>> /\ Len(<<>>) = 0
  OBVIOUS
<1>3. ASSUME NEW x PROVE Len(<<x>>) = 1 /\ <<x>>[1] = x /\ <<x>> # <<>>
  OBVIOUS
<1>4. ASSUME NEW x PROVE SubSeq(<<x>>, 1, 1 - 1) = <<>>
  OBVIOUS
<1>5. ASSUME NEW rows PROVE RefreshAt(rows, <<>>) = <<Rate(rows)>>
  BY <1>1, <1>2 DEF RefreshAt
<1>6. ASSUME NEW rows, NEW x PROVE RefreshAt(rows, <<x>>) = <<Rate(rows)>>
  <2>1. CASE x = Rate(rows)
    BY <1>3, <2>1 DEF RefreshAt
  <2>2. CASE x # Rate(rows)
    BY <1>1, <1>3, <1>4, <2>2 DEF RefreshAt
  <2> QED BY <2>1, <2>2
<1> QED BY <1>5, <1>6

LEMMA ListsInitInv == page \in ListPage /\ sent = <<>> /\ ListsInit => ListInv
<1> SUFFICES ASSUME page \in ListPage, sent = <<>>, ListsInit PROVE ListInv
  OBVIOUS
<1>1. runs \in [Run -> RunStati]
  BY DEF ListsInit, RunStati, JobStatuses
<1>2. list = Listed(Unticked, 1, Summaries(1, runs)) /\ timers = RefreshAt(Summaries(1, runs).rows, <<>>)
  BY DEF ListsInit, ListOpened
<1>3. ListForm(list) /\ list.rows = Summaries(1, runs).rows /\ list.deleting = NoRows
  BY <1>2 DEF Listed, Unticked, ListForm
<1>4. RowsKnown(list.rows, runs) /\ RowsKnown(NoRows, runs)
  BY <1>3, SummariesKnown DEF RowsKnown, NoRows
<1>5. \A p \in DOMAIN cache : RowsKnown(cache[p].rows, runs)
  BY SummariesKnown DEF ListsInit
<1>6. timers = <<Rate(list.rows)>>
  BY <1>2, <1>3, OneInterval
<1> QED BY <1>1, <1>3, <1>4, <1>5, <1>6 DEF ListInv
\* The user changes neither what is shown nor the runs, and confirms what may
\* still be active.
LEMMA ListUserStep ==
  ASSUME ListInv, ListUser \/ Poll, UNCHANGED <<timers, cache, pageAsked, runs>>
  PROVE  ListInv'
<1> USE DEF ListInv
<1>1. ASSUME list'.rows = list.rows, list'.deleting = list.deleting, ListForm(list)', UNCHANGED sent
      PROVE  ListInv'
  BY <1>1
<1>2. ASSUME NEW e \in ListEvent, Covered(e, runs), Emit(e),
             list'.rows = list.rows, RowsKnown(list'.deleting, runs), ListForm(list)'
      PROVE  ListInv'
  <2>1. sent' \in Seq(ListEvent) /\ sent' = Append(sent, e)
    BY <1>2 DEF Emit
  <2>2. \A i \in DOMAIN sent' : Covered(sent'[i], runs)
    BY <1>2, <2>1
  <2> QED BY <1>2, <2>1, <2>2
<1>3. ASSUME NEW r \in Run, Tick(r) PROVE ListInv'
  BY <1>1, <1>3 DEF Tick, ListForm
<1>4. ASSUME NEW r \in Run, CancelRun(r) PROVE ListInv'
  <2>1. [op |-> "cancel", run |-> r] \in ListEvent /\ Covered([op |-> "cancel", run |-> r], runs)
    BY DEF ListEvent, Covered
  <2> QED BY <1>2, <1>4, <2>1 DEF CancelRun
<1>5. CASE TickAll
  BY <1>1, <1>5 DEF TickAll, ListForm
<1>6. CASE OpenDelete
  BY <1>6 DEF OpenDelete, ListForm, RowsKnown, Selected
<1>7. CASE ConfirmActive
  BY <1>1, <1>7 DEF ConfirmActive, ListForm
<1>8. CASE CloseDelete
  BY <1>8 DEF CloseDelete, DeleteClosed, ListForm, RowsKnown, NoRows
<1>9. CASE ConfirmDelete
  <2> DEFINE e == [op |-> "delete", ids |-> DOMAIN list.deleting, confirmed |-> list.confirmed]
  <2>1. e \in ListEvent
    BY DEF ListEvent, RowsKnown, ListForm
  <2>2. Covered(e, runs)
    BY <1>9 DEF ConfirmDelete, Covered, RowsKnown, HasActive
  <2>3. RowsKnown(list'.deleting, runs) /\ list'.rows = list.rows /\ ListForm(list)'
    BY <1>9 DEF ConfirmDelete, DeleteClosed, ListForm, RowsKnown, NoRows
  <2>4. Emit(e)
    BY <1>9 DEF ConfirmDelete
  <2> HIDE DEF e
  <2> QED BY <1>2, <2>1, <2>2, <2>3, <2>4
<1>10. ASSUME NEW p \in Int, Emit([op |-> "page", pg |-> p]), UNCHANGED list PROVE ListInv'
  <2>1. [op |-> "page", pg |-> p] \in ListEvent /\ Covered([op |-> "page", pg |-> p], runs)
    BY DEF ListEvent, Covered
  <2> QED BY <1>2, <1>10, <2>1
<1>11. ASSUME NEW o \in {"run", "refresh"}, Emit([op |-> o]), UNCHANGED list PROVE ListInv'
  <2>1. [op |-> o] \in ListEvent /\ Covered([op |-> o], runs)
    BY DEF ListEvent, Covered
  <2> QED BY <1>2, <1>11, <2>1
<1>12. ASSUME NEW p \in {1, list.pg - 1, list.pg + 1, LastPage(list.total)} \cap 1..LastPage(list.total),
              TurnTo(p)
       PROVE  ListInv'
  <2>1. p \in Int
    OBVIOUS
  <2> QED BY <1>10, <1>12, <2>1 DEF TurnTo
<1>13. CASE ApplyFilter
  BY <1>10, <1>13 DEF ApplyFilter
<1>14. CASE StartRun \/ Poll
  BY <1>11, <1>14 DEF StartRun, Poll
<1> QED BY <1>3, <1>4, <1>5, <1>6, <1>7, <1>8, <1>9, <1>12, <1>13, <1>14 DEF ListUser

LEMMA RunsOnward ==
  ASSUME NEW e \in ListEvent, runs \in [Run -> RunStati]
  PROVE  RunsAfter(e) \in [Run -> RunStati] /\ Onward(runs, RunsAfter(e))
<1>1. CASE e.op = "delete"
  BY <1>1 DEF RunsAfter, Onward, RunStati, Active, Starting
<1>2. CASE e.op = "cancel"
  <2>1. e.run \in Run /\ RunsAfter(e) = [runs EXCEPT ![e.run] = Transition(@, CancelAsked)]
    BY <1>2 DEF ListEvent, RunsAfter
  <2>2. Transition(runs[e.run], CancelAsked)
          = IF runs[e.run] \in Active THEN "cancel_requested" ELSE runs[e.run]
    BY SingleTarget, SourcesOfTargets DEF CancelAsked, Active, Starting
  <2> QED BY <2>1, <2>2 DEF Onward, RunStati, JobStatuses, Active, Starting
<1>3. CASE e.op = "run"
  <2>1. RunsAfter(e) = [r \in Run |-> IF r \in NextRun THEN "pending" ELSE runs[r]]
    BY <1>3 DEF RunsAfter
  <2>2. \A r \in NextRun : runs[r] = "none"
    BY DEF NextRun
  <2> QED BY <2>1, <2>2 DEF Onward, RunStati, JobStatuses
<1>4. CASE e.op \notin {"delete", "cancel", "run"}
  BY <1>4 DEF RunsAfter, Onward
<1> QED BY <1>1, <1>2, <1>3, <1>4

\* A callback and the run of the script after it.
LEMMA ServeListStep == ListInv /\ ServeList => ListInv'
<1> SUFFICES ASSUME ListInv, ServeList PROVE ListInv'
  OBVIOUS
<1> DEFINE e == Head(sent)
           entries == IF ClearsCache(e) THEN [p \in {} |-> NoRows] ELSE cache
           s == IF pageAsked' \in DOMAIN entries THEN entries[pageAsked'] ELSE Summaries(pageAsked', runs')
<1>1. sent # <<>> /\ sent' = Tail(sent) /\ sent \in Seq(ListEvent)
  BY DEF ServeList, Take, ListInv
<1>2. e \in ListEvent /\ sent' \in Seq(ListEvent)
      /\ \A i \in DOMAIN sent' : i + 1 \in DOMAIN sent /\ sent'[i] = sent[i + 1]
  BY <1>1
<1>3. runs' \in [Run -> RunStati] /\ Onward(runs, runs')
  BY <1>2, RunsOnward DEF ServeList, ListInv
<1>4. \A i \in DOMAIN sent' : Covered(sent'[i], runs')
  <2> SUFFICES ASSUME NEW i \in DOMAIN sent' PROVE Covered(sent'[i], runs')
    OBVIOUS
  <2>1. sent'[i] \in ListEvent /\ Covered(sent'[i], runs)
    BY <1>2 DEF ListInv
  <2> QED BY <1>3, <2>1, CoveredStays
<1>5. \A p \in DOMAIN entries : RowsKnown(entries[p].rows, runs')
  BY <1>3, KnownStays DEF ListInv
<1>6. RowsKnown(s.rows, runs')
  BY <1>5, SummariesKnown
<1>7. /\ cache' = [p \in DOMAIN entries \cup {pageAsked'} |-> IF p = pageAsked' THEN s ELSE entries[p]]
      /\ list' = Listed(list, pageAsked', s)
      /\ timers' = RefreshAt(s.rows, timers)
  BY DEF ServeList
<1> HIDE DEF entries, s, e
<1>8. \A p \in DOMAIN cache' : RowsKnown(cache'[p].rows, runs')
  BY <1>5, <1>6, <1>7
<1>9. ListForm(list)' /\ list'.rows = s.rows /\ list'.deleting = list.deleting
  BY <1>7 DEF Listed, ListForm, ListInv
<1>10. RowsKnown(list'.deleting, runs')
  BY <1>3, <1>9, KnownStays DEF ListInv
<1>11. timers' = <<Rate(list'.rows)>>
  BY <1>7, <1>9, OneInterval DEF ListInv
<1> QED BY <1>2, <1>3, <1>4, <1>6, <1>8, <1>9, <1>10, <1>11 DEF ListInv

LEMMA ListsStep == ListInv /\ ListsNext => ListInv'
<1> SUFFICES ASSUME ListInv, ListsNext PROVE ListInv'
  OBVIOUS
<1>1. CASE (TestRuns \/ ProfilingRuns \/ Poll) /\ UNCHANGED <<timers, cache, pageAsked, runs>>
  BY <1>1, ListUserStep DEF TestRuns, ProfilingRuns
<1>2. CASE Remount
  <2>1. ListForm(list)' /\ list'.rows = list.rows /\ list'.deleting = NoRows
    BY <1>2 DEF Remount, Unticked, ListForm
  <2>2. RowsKnown(NoRows, runs)
    BY DEF RowsKnown, NoRows
  <2>3. timers' = <<Rate(list.rows)>>
    BY <1>2, OneInterval DEF Remount
  <2> QED BY <1>2, <2>1, <2>2, <2>3 DEF Remount, ListInv
<1>3. ASSUME NEW r \in Run, Advance(r) PROVE ListInv'
  <2>1. runs' \in [Run -> RunStati] /\ Onward(runs, runs')
    <3>1. PICK s \in ValidTransitions[runs[r]] : runs' = [runs EXCEPT ![r] = s]
      BY <1>3 DEF Advance
    <3>2. runs[r] \in Active /\ s \in JobStatuses
      BY <1>3, <3>1, TransitionTable, ActiveSources DEF Advance, JobStatuses
    <3> QED BY <3>1, <3>2 DEF Onward, ListInv, RunStati, JobStatuses
  <2>2. \A i \in DOMAIN sent : sent[i] \in ListEvent /\ Covered(sent[i], runs')
    <3> SUFFICES ASSUME NEW i \in DOMAIN sent PROVE sent[i] \in ListEvent /\ Covered(sent[i], runs')
      OBVIOUS
    <3>1. sent[i] \in ListEvent /\ Covered(sent[i], runs)
      BY DEF ListInv
    <3> QED BY <2>1, <3>1, CoveredStays
  <2>3. RowsKnown(list.rows, runs') /\ RowsKnown(list.deleting, runs')
        /\ \A p \in DOMAIN cache : RowsKnown(cache[p].rows, runs')
    BY <2>1, KnownStays DEF ListInv
  <2> QED BY <1>3, <2>1, <2>2, <2>3 DEF Advance, ListInv
<1>4. CASE ServeList
  BY <1>4, ServeListStep
<1> QED BY <1>1, <1>2, <1>3, <1>4 DEF ListsNext

LEMMA ListInvImplies == ListInv => OneTimer
BY DEF ListInv, OneTimer

\* What a deletion deletes was confirmed, or is over.
LEMMA DeletionConfirmed ==
  ListInv /\ Take /\ Head(sent).op = "delete" =>
    \A r \in Head(sent).ids : runs[r] \in Active => Head(sent).confirmed
BY DEF ListInv, Take, Covered

-----------------------------------------------------------------------------
(* The tree of the data catalog.                                            *)

TreeField == {"nodes", "ticked", "hidden", "search", "onlyCde", "multi", "chosen", "selected",
              "item", "card", "ask", "detect", "saved"}
TreeForm(d) == d = [f \in TreeField |-> d[f]]

\* What a bulk edit would change is what is ticked, and nothing is ticked
\* while one item is shown.
Chosen(d) ==
  /\ d.multi \in BOOLEAN
  /\ d.chosen = IF d.multi THEN Selection(d) ELSE NoItem
  /\ ~d.multi => d.ticked = {}

TreeInv == TreeForm(tree) /\ Chosen(tree)

LEMMA CatalogInitInv == CatalogInit => TreeInv
<1> SUFFICES ASSUME CatalogInit PROVE TreeInv
  OBVIOUS
<1> DEFINE n == NodesOf(catalog)
<1>1. tree = [nodes |-> n, ticked |-> {}, hidden |-> {}, search |-> NoItem, onlyCde |-> FALSE,
              multi |-> FALSE, chosen |-> NoItem, selected |-> NoItem, item |-> NoItem,
              card |-> NoItem, ask |-> NoItem, detect |-> {"pii"}, saved |-> 0]
  BY DEF CatalogInit
<1> HIDE DEF n
<1>2. TreeForm(tree)
  BY <1>1 DEF TreeForm, TreeField
<1>3. tree.multi = FALSE /\ tree.chosen = NoItem /\ tree.ticked = {}
  BY <1>1
<1> QED BY <1>2, <1>3 DEF TreeInv, Chosen

\* Only a click ticks what was not ticked.
Fewer == tree'.ticked \subseteq tree.ticked
Ticks == (\E c \in Column : TickColumn(c)) \/ (\E t \in Table : TickTable(t))

\* A step that leaves the selection alone.
LEMMA ChosenKept ==
  ASSUME TreeInv, TreeForm(tree'), tree'.multi = tree.multi, tree'.chosen = tree.chosen,
         tree'.ticked = tree.ticked
  PROVE  TreeInv' /\ Fewer
BY DEF TreeInv, Chosen, Selection, Fewer

LEMMA TickedFacts ==
  ASSUME NEW d, NEW n, NEW ticked, TreeForm(d), Chosen(d), d.multi
  PROVE  TreeForm(Ticked(d, n, ticked)) /\ Chosen(Ticked(d, n, ticked))
<1> DEFINE t == IF n \in Table THEN n ELSE TableOf[n]
           now == IF ColumnsOf(t, Known(d)) \subseteq ticked THEN ticked \cup {t} ELSE ticked \ {t}
           e == [d EXCEPT !.ticked = now, !.selected = n, !.chosen = now \cap Column]
<1>1. Ticked(d, n, ticked) = e
  BY DEF Ticked
<1> HIDE DEF now
<1>2. TreeForm(e)
  BY DEF TreeForm
<1>3. e.ticked = now /\ e.chosen = now \cap Column /\ e.multi = d.multi
  BY DEF TreeForm, TreeField
<1> HIDE DEF e
<1> QED BY <1>1, <1>2, <1>3 DEF Chosen, Selection

LEMMA CatalogUserStep == TreeInv /\ CatalogUser => TreeInv' /\ (Fewer \/ Ticks)
<1> SUFFICES ASSUME TreeInv, CatalogUser PROVE TreeInv' /\ (Fewer \/ Ticks)
  OBVIOUS
<1> USE DEF TreeInv
<1>1. ASSUME NEW n, SearchTree(n) PROVE TreeInv' /\ Fewer
  <2> DEFINE d == [tree EXCEPT !.search = n]
             h == HiddenNodes(d)
  <2>1. TreeForm(d) /\ d.multi = tree.multi /\ d.chosen = tree.chosen /\ d.ticked = tree.ticked
    BY DEF TreeForm, TreeField
  <2>2. tree' = [d EXCEPT !.hidden = h]
    BY <1>1 DEF SearchTree
  <2> HIDE DEF d, h
  <2>3. TreeForm(tree') /\ tree'.multi = d.multi /\ tree'.chosen = d.chosen /\ tree'.ticked = d.ticked
    BY <2>1, <2>2 DEF TreeForm, TreeField
  <2> QED BY <2>1, <2>3, ChosenKept
<1>2. ASSUME ApplyFilters PROVE TreeInv' /\ Fewer
  <2> DEFINE d == [tree EXCEPT !.onlyCde = ~@]
             h == HiddenNodes(d)
  <2>1. TreeForm(d) /\ d.multi = tree.multi /\ d.chosen = tree.chosen /\ d.ticked = tree.ticked
    BY DEF TreeForm, TreeField
  <2>2. tree' = [d EXCEPT !.hidden = h]
    BY <1>2 DEF ApplyFilters, FilterChanged
  <2> HIDE DEF d, h
  <2>3. TreeForm(tree') /\ tree'.multi = d.multi /\ tree'.chosen = d.chosen /\ tree'.ticked = d.ticked
    BY <2>1, <2>2 DEF TreeForm, TreeField
  <2> QED BY <2>1, <2>3, ChosenKept
<1>3. ASSUME ToggleEditMultiple PROVE TreeInv' /\ Fewer
  <2>1. CASE tree.multi
    <3> DEFINE c == CardOf(tree.item)
    <3>1. tree' = [tree EXCEPT !.multi = FALSE, !.ticked = {}, !.chosen = NoItem, !.card = c]
      BY <1>3, <2>1 DEF ToggleEditMultiple
    <3> HIDE DEF c
    <3>2. TreeForm(tree')
      BY <3>1 DEF TreeForm
    <3>3. tree'.multi = FALSE /\ tree'.ticked = {} /\ tree'.chosen = NoItem
      BY <3>1 DEF TreeForm, TreeField
    <3> QED BY <3>2, <3>3 DEF Chosen, Fewer
  <2>2. CASE ~tree.multi
    <3>1. tree' = [tree EXCEPT !.multi = TRUE, !.chosen = {}, !.card = NoItem]
      BY <1>3, <2>2 DEF ToggleEditMultiple
    <3>2. TreeForm(tree')
      BY <3>1 DEF TreeForm
    <3>3. tree'.multi = TRUE /\ tree'.ticked = tree.ticked /\ tree'.chosen = {}
      BY <3>1 DEF TreeForm, TreeField
    <3> QED BY <2>2, <3>2, <3>3 DEF Chosen, Selection, Fewer
  <2> QED BY <2>1, <2>2
<1>4. ASSUME NEW n, SelectRow(n) PROVE TreeInv' /\ Fewer
  BY <1>4, ChosenKept DEF SelectRow, TreeForm, TreeField
<1>5. ASSUME NEW c \in Column, TickColumn(c) PROVE TreeInv' /\ Ticks
  BY <1>5, TickedFacts DEF TickColumn, Ticks
<1>6. ASSUME NEW t \in Table, TickTable(t) PROVE TreeInv' /\ Ticks
  BY <1>6, TickedFacts DEF TickTable, Ticks
<1>7. ASSUME NEW e, Save(e) PROVE TreeInv' /\ Fewer
  <2>1. UNCHANGED tree \/ tree' = [tree EXCEPT !.ask = e]
    BY <1>7 DEF Save
  <2> QED BY <2>1, ChosenKept DEF TreeForm, TreeField
<1>8. ASSUME ConfirmWarning \/ CancelWarning PROVE TreeInv' /\ Fewer
  BY <1>8, ChosenKept DEF ConfirmWarning, CancelWarning, TreeForm, TreeField
<1>9. ASSUME EditCard \/ TypeTag \/ CancelCard PROVE TreeInv' /\ Fewer
  <2>1. \E c : tree' = [tree EXCEPT !.card = c]
    BY <1>9 DEF EditCard, TypeTag, CancelCard
  <2> QED BY <2>1, ChosenKept DEF TreeForm, TreeField
<1>10. ASSUME SaveMulti PROVE TreeInv' /\ Fewer
  BY <1>7, <1>10 DEF SaveMulti
<1>11. ASSUME SaveCard PROVE TreeInv' /\ Fewer
  BY <1>7, <1>11 DEF SaveCard
<1> QED BY <1>1, <1>2, <1>3, <1>4, <1>5, <1>6, <1>8, <1>9, <1>10, <1>11 DEF CatalogUser

\* The tree is built anew with nothing ticked, whatever it held.
LEMMA BuiltFacts ==
  ASSUME NEW d, NEW s, TreeForm(d), Chosen(d)
  PROVE  /\ TreeForm(CatalogBuilt(d, s)) /\ Chosen(CatalogBuilt(d, s))
         /\ CatalogBuilt(d, s).ticked \subseteq d.ticked
<1> DEFINE multi == MultiAfter(d, s)
           made == [d EXCEPT !.nodes = NodesOf(s), !.ticked = {}, !.hidden = {}, !.search = NoItem,
                             !.selected = s.selected, !.chosen = IF multi THEN {} ELSE NoItem]
           left == [d EXCEPT !.ticked = {}, !.chosen = NoItem]
           t == IF NodesOf(s) # d.nodes THEN made ELSE IF d.multi /\ ~multi THEN left ELSE d
<1>1. multi \in BOOLEAN /\ (multi => d.multi)
  BY DEF MultiAfter, Chosen
<1>2. TreeMade(d, s) = made
  BY DEF TreeMade
<1> DEFINE item == Item(s)
           formed == NodesOf(s) # d.nodes \/ s.detect # d.detect \/ d.multi # multi
                       \/ (~multi /\ item # d.item)
           card == IF ~formed THEN t.card ELSE IF multi THEN NoItem ELSE CardOf(item)
           ask == IF formed THEN NoItem ELSE t.ask
           e == [t EXCEPT !.multi = multi, !.saved = s.saved, !.detect = s.detect,
                          !.item = item, !.card = card, !.ask = ask]
<1>3. CatalogBuilt(d, s) = e
  <2> HIDE DEF made
  <2> QED BY <1>2 DEF CatalogBuilt
<1> HIDE DEF item, formed, card, ask
<1> HIDE DEF multi
<1>4. TreeForm(made) /\ made.ticked = {} /\ made.chosen = IF multi THEN {} ELSE NoItem
  <2>1. TreeForm(made)
    BY DEF TreeForm
  <2>2. made.ticked = {} /\ made.chosen = IF multi THEN {} ELSE NoItem
    BY DEF TreeForm, TreeField
  <2> QED BY <2>1, <2>2
<1>5. TreeForm(left) /\ left.ticked = {} /\ left.chosen = NoItem
  BY DEF TreeForm, TreeField
<1> HIDE DEF made, left
<1>6. /\ TreeForm(t) /\ t.ticked \subseteq d.ticked
      /\ t.chosen = IF multi THEN t.ticked \cap Column ELSE NoItem
      /\ ~multi => t.ticked = {}
  BY <1>1, <1>4, <1>5 DEF Chosen, Selection
<1> HIDE DEF t
<1>7. TreeForm(e)
  BY <1>6 DEF TreeForm
<1>8. e.multi = multi /\ e.chosen = t.chosen /\ e.ticked = t.ticked
  BY <1>6 DEF TreeForm, TreeField
<1> HIDE DEF e
<1>9. Chosen(e) /\ e.ticked \subseteq d.ticked
  BY <1>1, <1>6, <1>8 DEF Chosen, Selection
<1> QED BY <1>3, <1>7, <1>9

LEMMA CatalogStep == TreeInv /\ CatalogNext => TreeInv'
<1> SUFFICES ASSUME TreeInv, CatalogNext PROVE TreeInv'
  OBVIOUS
<1>1. CASE ServeCatalog
  BY <1>1, BuiltFacts DEF ServeCatalog, TreeInv
<1>2. ASSUME NEW c \in Column, FindColumn(c) PROVE TreeInv'
  BY <1>2 DEF FindColumn, TreeInv, Chosen, Selection
<1> QED BY <1>1, <1>2, CatalogUserStep DEF CatalogNext

LEMMA TreeInvImplies == TreeInv /\ Catalog => SelectionInStep
BY DEF TreeInv, Chosen, SelectionInStep

\* What a click ticks is on the screen; no other step ticks anything.
LEMMA TicksShown ==
  TreeInv /\ CatalogNext => (tree'.ticked \cap Column) \ tree.ticked \subseteq Column \ tree.hidden
<1> DEFINE new == (tree'.ticked \cap Column) \ tree.ticked
<1> SUFFICES ASSUME TreeInv, CatalogNext PROVE new \subseteq Column \ tree.hidden
  OBVIOUS
<1>1. ASSUME Fewer PROVE new \subseteq Column \ tree.hidden
  BY <1>1 DEF Fewer
<1>2. ASSUME NEW n \in Node, NEW ticked, tree' = Ticked(tree, n, ticked)
      PROVE  tree'.ticked \cap Column \subseteq ticked
  <2> DEFINE t == IF n \in Table THEN n ELSE TableOf[n]
             now == IF ColumnsOf(t, Known(tree)) \subseteq ticked THEN ticked \cup {t} ELSE ticked \ {t}
  <2>1. tree' = [tree EXCEPT !.ticked = now, !.selected = n, !.chosen = now \cap Column]
    BY <1>2 DEF Ticked
  <2>2. now \subseteq ticked \cup {t}
    OBVIOUS
  <2>3. t \notin Column
    BY CatalogAssumption DEF Node
  <2> HIDE DEF now, t
  <2>4. tree'.ticked = now
    BY <2>1 DEF TreeForm, TreeField, TreeInv
  <2> QED BY <2>2, <2>3, <2>4
<1>3. ASSUME NEW c \in Column, TickColumn(c) PROVE new \subseteq Column \ tree.hidden
  <2>1. PICK ticked \in {tree.ticked \ {c}, tree.ticked \cup {c}} : tree' = Ticked(tree, c, ticked)
    BY <1>3 DEF TickColumn
  <2>2. c \notin tree.hidden
    BY <1>3 DEF TickColumn, Shown
  <2> QED BY <1>2, <2>1, <2>2 DEF Node
<1>4. ASSUME NEW t \in Table, TickTable(t) PROVE new \subseteq Column \ tree.hidden
  <2>1. ColumnsToTick(tree, t) \subseteq (ColumnsOf(t, Known(tree)) \ tree.hidden)
    BY DEF ColumnsToTick
  <2>2. PICK ticked : /\ tree' = Ticked(tree, t, ticked)
                      /\ ticked \subseteq tree.ticked \cup ColumnsToTick(tree, t)
    BY <1>4 DEF TickTable
  <2>3. tree'.ticked \cap Column \subseteq ticked
    BY <1>2, <2>2 DEF Node
  <2> QED BY <2>1, <2>2, <2>3
<1>5. CASE ServeCatalog
  BY <1>1, <1>5, BuiltFacts DEF ServeCatalog, TreeInv, Fewer
<1>6. ASSUME NEW c \in Column, FindColumn(c) PROVE new \subseteq Column \ tree.hidden
  BY <1>6 DEF FindColumn
<1>7. CASE CatalogUser
  BY <1>1, <1>3, <1>4, <1>7, CatalogUserStep DEF Ticks
<1> QED BY <1>5, <1>6, <1>7 DEF CatalogNext

-----------------------------------------------------------------------------
(* Test suites.                                                             *)

SuiteOps ==
  {"add", "edit", "delete", "run", "generate", "startExport", "save", "closeForm", "deleteConfirmed",
   "dismissDelete", "runTests", "closeRun", "lock", "generateTests", "closeGeneration"}
SessionField ==
  {"there", "setting", "past", "loaded", "copy", "tests", "add", "edit", "delete", "run", "ran", "generate", "generated", "lock"}
DeskField == {"list", "broken", "export", "form", "deletion", "generation", "run"}
SuiteFormField == {"info", "open", "suite", "value", "typed"}
GenerationField == {"info", "open", "set"}

\* Settings are stored for suites that are there, and copied from those; what was
\* ever stored is remembered.
SettingsKept(s) ==
  /\ s.setting = [n \in Suite |-> s.setting[n]]
  /\ s.past = [n \in Suite |-> s.past[n]]
  /\ s.copy = [n \in Suite |-> s.copy[n]]
  /\ s.loaded \subseteq Suite
  /\ \A n \in s.there : s.setting[n] \in s.past[n]
  /\ \A n \in s.loaded : s.copy[n] \in s.past[n]

SuiteSession(s) ==
  /\ s = [f \in SessionField |-> s[f]] /\ s.there \subseteq Suite /\ DOMAIN s.tests = Suite
  /\ SettingsKept(s)

\* t comes after s.
Succeeds(s, t) == SuiteSession(t) /\ \A n \in Suite : s.past[n] \subseteq t.past[n]

SuiteFormOf(x) == x = [f \in SuiteFormField |-> x[f]] /\ x.suite \in Suite \cup {NoSuite}
GenerationOf(g) == g = [f \in GenerationField |-> g[f]]

DeskForm(d) ==
  d = [f \in DeskField |-> d[f]] /\ SuiteFormOf(d.form) /\ GenerationOf(d.generation)

\* The form x, not typed in, shows what its suite was once set to.
FormTold(x, s) ==
  x.info # NoInfo /\ x.info.mode = "edit" /\ ~x.typed =>
    x.suite = x.info.suite /\ x.suite \in Suite /\ x.value \in s.past[x.suite]

\* The dialog g that generates tests was told what the session has, but for an
\* edit of a test since.
GenerationTold(g, s) ==
  /\ s.generate \in Suite \cup {NoSuite}
  /\ s.generate = NoSuite => g.info = NoInfo
  /\ s.generate # NoSuite => g.info.suite = s.generate /\ g.info.lock = s.lock
  /\ s.generate # NoSuite /\ s.tests[s.generate] = "locked" => g.info.tests = "locked"

DeskTold(d, s) == ~d.broken => FormTold(d.form, s) /\ GenerationTold(d.generation, s)

SuiteEvent(e) == e.op \in SuiteOps /\ (e.op = "save" => e.suite \in Suite)

SuitesInv ==
  page \in {"suites", "suiteTests"} =>
    /\ DeskForm(desk) /\ SuiteSession(suites) /\ DeskTold(desk, suites)
    /\ Queue(sent) /\ \A e \in Elements(sent) : SuiteEvent(e)

\* What happens to the rest of the session changes nothing about its settings.
LEMMA RestFacts ==
  ASSUME NEW s, SuiteSession(s), NEW t, t = [f \in SessionField |-> t[f]],
         t.there \subseteq s.there, DOMAIN t.tests = Suite,
         t.setting = s.setting, t.past = s.past, t.loaded = s.loaded, t.copy = s.copy
  PROVE  Succeeds(s, t)
<1>1. SettingsKept(t)
  BY DEF SuiteSession, SettingsKept
<1> QED BY <1>1 DEF Succeeds, SuiteSession

LEMMA SucceedsOn ==
  ASSUME NEW s, NEW t, NEW u, Succeeds(s, t), Succeeds(t, u)
  PROVE  Succeeds(s, u)
<1> QED BY DEF Succeeds

\* A copy is made of a suite that is there, and of the others none.
LEMMA LoadedFacts ==
  ASSUME NEW s, SuiteSession(s), NEW n
  PROVE  LET t == Loaded(s, n)
         IN /\ Succeeds(s, t) /\ t.there = s.there /\ t.edit = s.edit /\ t.add = s.add
            /\ t.tests = s.tests /\ t.past = s.past
            /\ n \in s.there => n \in t.loaded
<1>1. CASE n \in s.there /\ n \notin s.loaded
  <2> DEFINE l == s.loaded \cup {n}
             v == s.setting[n]
             c == [s.copy EXCEPT ![n] = v]
             t == [s EXCEPT !.loaded = l, !.copy = c]
  <2>1. Loaded(s, n) = t
    BY <1>1 DEF Loaded, SuiteSession, SessionField
  <2>2. n \in Suite /\ v \in s.past[n] /\ s.copy = [k \in Suite |-> s.copy[k]]
    BY <1>1 DEF SuiteSession, SettingsKept
  <2> HIDE DEF v
  <2>3. c = [k \in Suite |-> c[k]] /\ c[n] = v /\ \A k \in Suite : k # n => c[k] = s.copy[k]
    BY <2>2
  <2>4. n \in l /\ l \subseteq s.loaded \cup {n} /\ l \subseteq Suite
    BY <2>2 DEF SuiteSession, SettingsKept
  <2> HIDE DEF l, c
  <2>5. /\ t = [f \in SessionField |-> t[f]] /\ t.there = s.there /\ t.tests = s.tests
        /\ t.setting = s.setting /\ t.past = s.past /\ t.loaded = l /\ t.copy = c
        /\ t.edit = s.edit /\ t.add = s.add
    BY DEF SuiteSession, SessionField
  <2> HIDE DEF t
  <2>6. SettingsKept(t)
    BY <2>2, <2>3, <2>4, <2>5 DEF SuiteSession, SettingsKept
  <2>7. Succeeds(s, t)
    BY <2>5, <2>6 DEF SuiteSession, Succeeds
  <2> QED BY <2>1, <2>4, <2>5, <2>7
<1>2. CASE ~(n \in s.there /\ n \notin s.loaded)
  <2>1. Loaded(s, n) = s /\ (n \in s.there => n \in s.loaded)
    BY <1>2 DEF Loaded
  <2> QED BY <2>1 DEF Succeeds
<1> QED BY <1>1, <1>2

LEMMA ClearedFacts ==
  ASSUME NEW s, SuiteSession(s)
  PROVE  LET t == CacheCleared(s)
         IN /\ Succeeds(s, t) /\ t.there = s.there /\ t.tests = s.tests
            /\ t.generate = s.generate /\ t.lock = s.lock
<1> DEFINE c == [n \in Suite |-> BlankSetting]
           t == [s EXCEPT !.loaded = {}, !.copy = c]
<1>1. CacheCleared(s) = t
  BY DEF CacheCleared
<1>2. c = [n \in Suite |-> c[n]]
  OBVIOUS
<1> HIDE DEF c
<1>3. /\ t = [f \in SessionField |-> t[f]] /\ t.there = s.there /\ t.tests = s.tests
      /\ t.setting = s.setting /\ t.past = s.past /\ t.loaded = {} /\ t.copy = c
      /\ t.generate = s.generate /\ t.lock = s.lock
  BY DEF SuiteSession, SessionField
<1> HIDE DEF t
<1>4. SettingsKept(t)
  BY <1>2, <1>3 DEF SuiteSession, SettingsKept
<1>5. Succeeds(s, t)
  BY <1>3, <1>4 DEF SuiteSession, Succeeds
<1> QED BY <1>1, <1>3, <1>5

\* What is stored for a suite is what it is set to from then on.
LEMMA StoredFacts ==
  ASSUME NEW s, SuiteSession(s), NEW n \in Suite, NEW v
  PROVE  LET t == Stored(s, n, v)
         IN /\ Succeeds(s, t) /\ t.there = s.there /\ t.tests = s.tests
            /\ t.setting[n] \in t.past[n]
<1> DEFINE w == [s.setting EXCEPT ![n] = v]
           q == s.past[n] \cup {v}
           p == [s.past EXCEPT ![n] = q]
           t == [s EXCEPT !.setting = w, !.past = p]
<1>1. Stored(s, n, v) = t
  BY DEF Stored, SuiteSession, SessionField
<1>2. w = [k \in Suite |-> w[k]] /\ w[n] = v /\ \A k \in Suite : k # n => w[k] = s.setting[k]
  BY DEF SuiteSession, SettingsKept
<1>3. v \in q /\ s.past[n] \subseteq q
  OBVIOUS
<1> HIDE DEF q
<1>4. p = [k \in Suite |-> p[k]] /\ p[n] = q /\ \A k \in Suite : k # n => p[k] = s.past[k]
  BY DEF SuiteSession, SettingsKept
<1> HIDE DEF w, p
<1>5. /\ t = [f \in SessionField |-> t[f]] /\ t.there = s.there /\ t.tests = s.tests
      /\ t.setting = w /\ t.past = p /\ t.loaded = s.loaded /\ t.copy = s.copy
  BY DEF SuiteSession, SessionField
<1> HIDE DEF t
<1>6. \A k \in Suite : s.past[k] \subseteq t.past[k]
  BY <1>3, <1>4, <1>5
<1>7. SettingsKept(t)
  BY <1>2, <1>3, <1>4, <1>5, <1>6 DEF SuiteSession, SettingsKept
<1>8. Succeeds(s, t)
  BY <1>5, <1>6, <1>7 DEF SuiteSession, Succeeds
<1> QED BY <1>1, <1>2, <1>3, <1>4, <1>5, <1>8

\* The form of a suite shows the copy of it.
LEMMA FilledFacts ==
  ASSUME NEW x, SuiteFormOf(x), NEW s, SuiteSession(s), s.add \/ s.edit \in s.loaded \cup {NoSuite},
         FormTold(x, s)
  PROVE  SuiteFormOf(FormFilled(x, FormInfo(s))) /\ FormTold(FormFilled(x, FormInfo(s)), s)
<1> DEFINE i == FormInfo(s)
           n == [info |-> i, open |-> TRUE, suite |-> i.suite, value |-> i.value, typed |-> FALSE]
           y == FormFilled(x, i)
<1>1. i.suite \in Suite \cup {NoSuite}
  BY DEF FormInfo, NoInfo, SuiteSession, SettingsKept
<1>2. i # NoInfo /\ i.mode = "edit" =>
        i.suite \in Suite /\ i.value \in s.past[i.suite]
  <2>1. CASE s.add
    <3>1. i.mode = "add"
      BY <2>1 DEF FormInfo
    <3> QED BY <3>1
  <2>2. CASE ~s.add /\ s.edit = NoSuite
    BY <2>2 DEF FormInfo
  <2>3. CASE ~s.add /\ s.edit # NoSuite
    <3>1. i.suite = s.edit /\ i.value = s.copy[s.edit]
      BY <2>3 DEF FormInfo
    <3>2. s.edit \in s.loaded
      BY <2>3
    <3> QED BY <3>1, <3>2 DEF SuiteSession, SettingsKept
  <2> QED BY <2>1, <2>2, <2>3
<1>3. y = x \/ y = NoForm \/ y = n
  BY DEF FormFilled
<1>4. SuiteFormOf(NoForm) /\ NoForm.info = NoInfo
  BY DEF SuiteFormOf, SuiteFormField, NoForm
<1> HIDE DEF i
<1>5. SuiteFormOf(n) /\ n.info = i /\ n.value = i.value /\ n.suite = i.suite
  BY <1>1 DEF SuiteFormOf, SuiteFormField
<1> HIDE DEF n, y
<1>6. SuiteFormOf(y) /\ FormTold(y, s)
  BY <1>2, <1>3, <1>4, <1>5 DEF FormTold
<1> QED BY <1>6 DEF y, i

LEMMA ShownFacts ==
  ASSUME NEW g, GenerationOf(g), NEW s, s.generate \in Suite \cup {NoSuite}
  PROVE  LET h == GenerationShown(g, GenerateInfo(s))
         IN /\ GenerationOf(h) /\ GenerationTold(h, s) /\ h.info = GenerateInfo(s)
            /\ g.info # NoInfo /\ h.info.suite = g.info.suite => h.set = g.set
<1> DEFINE i == GenerateInfo(s)
           n == [info |-> i, open |-> TRUE, set |-> StandardSet]
           k == [g EXCEPT !.info = i]
           h == GenerationShown(g, i)
<1>1. /\ s.generate = NoSuite => i = NoInfo
      /\ s.generate # NoSuite => i.suite = s.generate /\ i.lock = s.lock /\ i.tests = s.tests[s.generate]
  BY DEF GenerateInfo
<1>2. h = k \/ (h = n /\ ~(g.info # NoInfo /\ g.info.suite = i.suite))
  BY DEF GenerationShown
<1> HIDE DEF i
<1>3. GenerationOf(n) /\ n.info = i
  BY DEF GenerationOf, GenerationField
<1>4. GenerationOf(k) /\ k.info = i /\ k.set = g.set
  BY DEF GenerationOf, GenerationField
<1> HIDE DEF n, k, h
<1>5. GenerationOf(h) /\ h.info = i /\ (g.info # NoInfo /\ h.info.suite = g.info.suite => h.set = g.set)
  BY <1>2, <1>3, <1>4
<1>6. GenerationTold(h, s)
  BY <1>1, <1>5 DEF GenerationTold
<1> QED BY <1>5, <1>6 DEF h, i

LEMMA SuitesInitInv == sent = <<>> /\ SuitesInit => SuitesInv
<1> SUFFICES ASSUME sent = <<>>, SuitesInit PROVE SuitesInv
  OBVIOUS
<1>1. PICK n \in Suite \cup {NoSuite} :
        /\ suites = [there |-> Suite \ {n}, setting |-> [s \in Suite |-> BlankSetting],
                 past |-> [s \in Suite |-> IF s = n THEN {} ELSE {BlankSetting}],
                 loaded |-> {}, copy |-> [s \in Suite |-> BlankSetting],
                 tests |-> [s \in Suite |-> IF s = n THEN "none" ELSE "edited"], add |-> FALSE, edit |-> NoSuite,
                 delete |-> NoInfo, run |-> NoSuite, ran |-> "none",
                 generate |-> NoSuite, generated |-> "none", lock |-> "none"]
        /\ desk = [list |-> Suite \ {n}, broken |-> FALSE, export |-> NoSuite, form |-> NoForm,
               deletion |-> [info |-> NoInfo, open |-> FALSE, agreed |-> FALSE],
               generation |-> [info |-> NoInfo, open |-> FALSE, set |-> StandardSet],
               run |-> [open |-> FALSE, suite |-> NoSuite, result |-> "none"]]
  BY DEF SuitesInit
<1>2. /\ suites = [f \in SessionField |-> suites[f]] /\ suites.there = Suite \ {n}
      /\ suites.generate = NoSuite /\ suites.loaded = {}
      /\ suites.setting = [s \in Suite |-> BlankSetting] /\ suites.copy = [s \in Suite |-> BlankSetting]
      /\ suites.past = [s \in Suite |-> IF s = n THEN {} ELSE {BlankSetting}]
      /\ suites.tests = [s \in Suite |-> IF s = n THEN "none" ELSE "edited"]
  BY <1>1 DEF SessionField
<1>3. /\ desk = [f \in DeskField |-> desk[f]] /\ desk.form = NoForm
      /\ desk.generation = [info |-> NoInfo, open |-> FALSE, set |-> StandardSet]
  BY <1>1 DEF DeskField
<1>4. SuiteFormOf(desk.form) /\ GenerationOf(desk.generation)
      /\ desk.form.info = NoInfo /\ desk.generation.info = NoInfo
  BY <1>3 DEF SuiteFormOf, SuiteFormField, GenerationOf, GenerationField, NoForm
<1>5. SuiteSession(suites)
  <2>1. ASSUME NEW k \in suites.there PROVE suites.setting[k] \in suites.past[k]
    <3>1. k \in Suite /\ k # n
      BY <1>2, <2>1
    <3>2. suites.setting[k] = BlankSetting /\ suites.past[k] = {BlankSetting}
      BY <1>2, <3>1
    <3> QED BY <3>2
  <2>2. SettingsKept(suites)
    BY <1>2, <2>1 DEF SettingsKept
  <2> QED BY <1>2, <2>2 DEF SuiteSession
<1>6. DeskTold(desk, suites)
  BY <1>2, <1>4 DEF DeskTold, FormTold, GenerationTold
<1> QED BY <1>3, <1>4, <1>5, <1>6, NoEvents DEF SuitesInv, DeskForm

\* A handler in the browser.
LEMMA DeskStep ==
  ASSUME SuitesInv, page \in {"suites", "suiteTests"}, ~desk.broken, UNCHANGED <<page, suites>>,
         desk' = [f \in DeskField |-> desk'[f]], desk'.broken = desk.broken,
         SuiteFormOf(desk'.form), GenerationOf(desk'.generation),
         desk'.generation.info = desk.generation.info, FormTold(desk'.form, suites),
         sent' = sent \/ \E e : SuiteEvent(e) /\ sent' = Append(sent, e)
  PROVE  SuitesInv'
<1>1. Queue(sent') /\ \A e \in Elements(sent') : SuiteEvent(e)
  <2>1. Queue(sent) /\ \A e \in Elements(sent) : SuiteEvent(e)
    BY DEF SuitesInv
  <2>2. ASSUME NEW x, SuiteEvent(x), sent' = Append(sent, x)
        PROVE  Queue(sent') /\ \A e \in Elements(sent') : SuiteEvent(e)
    BY <2>1, <2>2, QueueSteps
  <2>3. ASSUME sent' = sent PROVE Queue(sent') /\ \A e \in Elements(sent') : SuiteEvent(e)
    BY <2>1, <2>3
  <2> QED BY <2>2, <2>3
<1>2. DeskTold(desk', suites) /\ DeskForm(desk')
  BY DEF SuitesInv, DeskTold, GenerationTold, DeskForm
<1> QED BY <1>1, <1>2 DEF SuitesInv

\* A form whose suite and settings stay is told as much as before.
LEMMA SuitesUserStep ==
  ASSUME SuitesInv, page \in {"suites", "suiteTests"}, UNCHANGED <<page, suites>>, SuitesUser
  PROVE  SuitesInv'
<1>1. /\ desk = [f \in DeskField |-> desk[f]] /\ SuiteFormOf(desk.form) /\ GenerationOf(desk.generation)
      /\ Queue(sent)
      /\ ~desk.broken => FormTold(desk.form, suites)
  BY DEF SuitesInv, DeskForm, DeskTold
<1>2. ASSUME NEW op \in SuiteOps \ {"save"}, NEW s, Emit([op |-> op, suite |-> s])
      PROVE  \E e : SuiteEvent(e) /\ sent' = Append(sent, e)
  <2> DEFINE e == [op |-> op, suite |-> s]
  <2>1. sent' = Append(sent, e) /\ e.op = op
    BY <1>2 DEF Emit
  <2> HIDE DEF e
  <2> QED BY <2>1 DEF SuiteEvent
<1>3. ASSUME ~desk.broken, UNCHANGED desk,
             sent' = sent \/ \E e : SuiteEvent(e) /\ sent' = Append(sent, e)
      PROVE  SuitesInv'
  BY <1>1, <1>3, DeskStep
<1>4. ASSUME NEW op \in SuiteOps \ {"save"}, NEW s, DialogAsked(op, s) PROVE SuitesInv'
  <2>1. ~desk.broken /\ UNCHANGED desk /\ Emit([op |-> op, suite |-> s])
    BY <1>4 DEF DialogAsked, AtList, Suites
  <2>2. \E e : SuiteEvent(e) /\ sent' = Append(sent, e)
    BY <1>2, <2>1
  <2> QED BY <1>3, <2>1, <2>2
<1>5. CASE AddClicked \/ EditClicked \/ DeleteClicked \/ RunClicked \/ GenerateClicked
  <2>1. PICK op, s : op \in SuiteOps \ {"save"} /\ DialogAsked(op, s)
    BY <1>5 DEF AddClicked, EditClicked, DeleteClicked, RunClicked, GenerateClicked, SuiteOps
  <2> QED BY <1>4, <2>1
\* One of the parts of the page that hold no form.
<1>6. ASSUME ~desk.broken, NEW part \in {"export", "deletion", "run"}, NEW v, desk' = [desk EXCEPT ![part] = v],
             sent' = sent \/ \E e : SuiteEvent(e) /\ sent' = Append(sent, e)
      PROVE  SuitesInv'
  <2>1. /\ desk' = [f \in DeskField |-> desk'[f]] /\ desk'.broken = desk.broken /\ desk'.form = desk.form
        /\ desk'.generation = desk.generation
    BY <1>1, <1>6 DEF DeskField
  <2> QED BY <1>1, <1>6, <2>1, DeskStep
<1>7. CASE ExportClicked
  <2>1. PICK s : desk' = [desk EXCEPT !.export = s] /\ UNCHANGED sent /\ ~desk.broken
    BY <1>7 DEF ExportClicked, AtList, Suites
  <2> QED BY <1>6, <2>1
<1>8. CASE StartExport \/ CloseExport
  <2>1. desk' = [desk EXCEPT !.export = NoSuite] /\ ~desk.broken
    BY <1>8 DEF StartExport, CloseExport, Suites
  <2>2. sent' = sent \/ \E e : SuiteEvent(e) /\ sent' = Append(sent, e)
    BY <1>2, <1>8 DEF StartExport, CloseExport, SuiteOps
  <2> QED BY <1>6, <2>1, <2>2
<1>9. CASE AgreeToDelete \/ DeleteSuite \/ DismissDelete
  <2>1. PICK v : desk' = [desk EXCEPT !["deletion"] = v]
    <3> DEFINE a == ~desk.deletion.agreed
               p == [desk.deletion EXCEPT !.agreed = a]
               q == [desk.deletion EXCEPT !.open = FALSE, !.agreed = FALSE]
    <3>1. desk' = [desk EXCEPT !.deletion = p] \/ desk' = [desk EXCEPT !.deletion = q]
      BY <1>1, <1>9 DEF AgreeToDelete, DeleteSuite, DismissDelete, DeskField
    <3> QED BY <3>1
  <2>2. ~desk.broken
    BY <1>9 DEF AgreeToDelete, DeleteSuite, DismissDelete, Suites
  <2>3. sent' = sent \/ \E e : SuiteEvent(e) /\ sent' = Append(sent, e)
    BY <1>2, <1>9 DEF AgreeToDelete, DeleteSuite, DismissDelete, SuiteOps
  <2> QED BY <1>6, <2>1, <2>2, <2>3
<1>10. CASE RunTests
  BY <1>2, <1>3, <1>10 DEF RunTests, Suites, SuiteOps
<1>11. CASE CloseRun
  <2> DEFINE v == [desk.run EXCEPT !.open = FALSE]
  <2>1. desk' = [desk EXCEPT !.run = v] /\ ~desk.broken
    BY <1>1, <1>11 DEF CloseRun, Suites, DeskField
  <2>2. \E e : SuiteEvent(e) /\ sent' = Append(sent, e)
    BY <1>2, <1>11 DEF CloseRun, SuiteOps
  <2> HIDE DEF v
  <2> QED BY <1>6, <2>1, <2>2
<1>12. ASSUME ~desk.broken, NEW x, desk' = [desk EXCEPT !.form = x], SuiteFormOf(x), FormTold(x, suites),
              sent' = sent \/ \E e : SuiteEvent(e) /\ sent' = Append(sent, e)
       PROVE  SuitesInv'
  <2>1. /\ desk' = [f \in DeskField |-> desk'[f]] /\ desk'.broken = desk.broken /\ desk'.form = x
        /\ desk'.generation = desk.generation
    BY <1>1, <1>12 DEF DeskField
  <2> QED BY <1>1, <1>12, <2>1, DeskStep
<1>13. CASE TypeSetting
  <2>1. PICK v : desk' = [desk EXCEPT !.form.value = v, !.form.typed = TRUE] /\ UNCHANGED sent /\ ~desk.broken
    BY <1>13 DEF TypeSetting, Suites
  <2> DEFINE x == [desk.form EXCEPT !.value = v, !.typed = TRUE]
  <2>2. desk' = [desk EXCEPT !.form = x]
    BY <1>1, <2>1 DEF DeskField
  <2>3. SuiteFormOf(x) /\ x.info = desk.form.info /\ x.typed = TRUE
    BY <1>1 DEF SuiteFormOf, SuiteFormField
  <2> HIDE DEF x
  <2>4. FormTold(x, suites)
    BY <1>1, <2>1, <2>3 DEF FormTold
  <2> QED BY <1>12, <2>1, <2>2, <2>3, <2>4
<1>14. CASE TypeSuite
  <2>1. PICK s \in Suite : /\ desk' = [desk EXCEPT !.form.suite = s] /\ UNCHANGED sent /\ ~desk.broken
                           /\ desk.form.info.mode = "add"
    BY <1>14 DEF TypeSuite, Suites
  <2> DEFINE x == [desk.form EXCEPT !.suite = s]
  <2>2. desk' = [desk EXCEPT !.form = x]
    BY <1>1, <2>1 DEF DeskField
  <2>3. SuiteFormOf(x) /\ x.info = desk.form.info /\ x.typed = desk.form.typed /\ x.value = desk.form.value
    BY <1>1 DEF SuiteFormOf, SuiteFormField
  <2> HIDE DEF x
  <2>4. FormTold(x, suites)
    BY <1>1, <2>1, <2>3 DEF FormTold
  <2> QED BY <1>12, <2>1, <2>2, <2>3, <2>4
<1>15. CASE SaveForm
  <2> DEFINE e == [op |-> "save", mode |-> desk.form.info.mode, suite |-> desk.form.suite,
                   value |-> desk.form.value]
  <2>1. sent' = Append(sent, e) /\ UNCHANGED desk /\ e.op = "save" /\ e.suite = desk.form.suite
        /\ desk.form.suite # NoSuite /\ ~desk.broken
    BY <1>15 DEF SaveForm, Emit, Suites
  <2> HIDE DEF e
  <2>2. SuiteEvent(e)
    BY <1>1, <2>1 DEF SuiteEvent, SuiteOps, SuiteFormOf
  <2> QED BY <1>3, <2>1, <2>2
<1>16. CASE CloseForm
  <2> DEFINE x == [desk.form EXCEPT !.open = FALSE]
  <2>1. desk' = [desk EXCEPT !.form = x] /\ ~desk.broken
    BY <1>1, <1>16 DEF CloseForm, Suites, DeskField
  <2>2. /\ SuiteFormOf(x) /\ x.info = desk.form.info /\ x.typed = desk.form.typed /\ x.value = desk.form.value
        /\ x.suite = desk.form.suite
    BY <1>1 DEF SuiteFormOf, SuiteFormField
  <2> HIDE DEF x
  <2>3. FormTold(x, suites)
    BY <1>1, <2>1, <2>2 DEF FormTold
  <2>4. \E e : SuiteEvent(e) /\ sent' = Append(sent, e)
    BY <1>2, <1>16 DEF CloseForm, SuiteOps
  <2> QED BY <1>12, <2>1, <2>2, <2>3, <2>4
<1>17. ASSUME ~desk.broken, NEW g, desk' = [desk EXCEPT !.generation = g], GenerationOf(g),
              g.info = desk.generation.info,
              sent' = sent \/ \E e : SuiteEvent(e) /\ sent' = Append(sent, e)
       PROVE  SuitesInv'
  <2>1. /\ desk' = [f \in DeskField |-> desk'[f]] /\ desk'.broken = desk.broken /\ desk'.form = desk.form
        /\ desk'.generation = g
    BY <1>1, <1>17 DEF DeskField
  <2> QED BY <1>1, <1>17, <2>1, DeskStep
<1>18. CASE PickSet
  <2>1. PICK s : desk' = [desk EXCEPT !.generation.set = s] /\ UNCHANGED sent /\ ~desk.broken
    BY <1>18 DEF PickSet, Suites
  <2> DEFINE g == [desk.generation EXCEPT !.set = s]
  <2>2. desk' = [desk EXCEPT !.generation = g]
    BY <1>1, <2>1 DEF DeskField
  <2>3. GenerationOf(g) /\ g.info = desk.generation.info
    BY <1>1 DEF GenerationOf, GenerationField
  <2> HIDE DEF g
  <2> QED BY <1>17, <2>1, <2>2, <2>3
<1>19. CASE LockEdited
  BY <1>2, <1>3, <1>19 DEF LockEdited, Suites, SuiteOps
<1>20. CASE GenerateTests
  <2> DEFINE e == [op |-> "generateTests", suite |-> desk.generation.info.suite, set |-> desk.generation.set]
  <2>1. sent' = Append(sent, e) /\ UNCHANGED desk /\ e.op = "generateTests" /\ ~desk.broken
    BY <1>20 DEF GenerateTests, Emit, Suites
  <2> HIDE DEF e
  <2>2. SuiteEvent(e)
    BY <2>1 DEF SuiteEvent, SuiteOps
  <2> QED BY <1>3, <2>1, <2>2
<1>21. CASE CloseGeneration
  <2> DEFINE g == [desk.generation EXCEPT !.open = FALSE]
  <2>1. desk' = [desk EXCEPT !.generation = g] /\ ~desk.broken
    BY <1>1, <1>21 DEF CloseGeneration, Suites, DeskField
  <2>2. GenerationOf(g) /\ g.info = desk.generation.info
    BY <1>1 DEF GenerationOf, GenerationField
  <2> HIDE DEF g
  <2>3. \E e : SuiteEvent(e) /\ sent' = Append(sent, e)
    BY <1>2, <1>21 DEF CloseGeneration, SuiteOps
  <2> QED BY <1>17, <2>1, <2>2, <2>3
<1> QED
  BY <1>5, <1>7, <1>8, <1>9, <1>10, <1>11, <1>13, <1>14, <1>15, <1>16, <1>18, <1>19, <1>20, <1>21
  DEF SuitesUser

\* A callback keeps the form of the session, and stores settings that are
\* remembered.
LEMMA SavedFacts ==
  ASSUME NEW s, SuiteSession(s), NEW e, e.suite \in Suite
  PROVE  Succeeds(s, SuiteSaved(s, e))
<1> DEFINE n == e.suite
           a == s.there \cup {n}
<1>1. ASSUME NEW t, Succeeds(s, t), t.there = s.there PROVE Succeeds(s, [t EXCEPT !.edit = NoSuite])
  <2> DEFINE u == [t EXCEPT !.edit = NoSuite]
  <2>1. /\ u = [f \in SessionField |-> u[f]] /\ u.there = t.there /\ u.tests = t.tests
        /\ u.setting = t.setting /\ u.past = t.past /\ u.loaded = t.loaded /\ u.copy = t.copy
    BY <1>1 DEF Succeeds, SuiteSession, SessionField
  <2> HIDE DEF u
  <2>2. SuiteSession(t) /\ DOMAIN u.tests = Suite
    BY <1>1, <2>1 DEF Succeeds, SuiteSession
  <2>3. Succeeds(t, u)
    BY <2>1, <2>2, RestFacts
  <2>4. Succeeds(s, u)
    BY <1>1, <2>3, SucceedsOn
  <2> QED BY <2>4 DEF u
<1>2. CASE e.mode = "edit"
  <2> DEFINE t == FormStored(s, e)
             l == Loaded(s, n)
             v == e.value
  <2>1. SuiteSaved(s, e) = [t EXCEPT !.edit = NoSuite]
    BY <1>2 DEF SuiteSaved
  <2>2. t = l \/ t = Stored(l, n, v)
    BY DEF FormStored
  <2>3. Succeeds(s, l) /\ SuiteSession(l) /\ l.there = s.there
    BY LoadedFacts DEF Succeeds
  <2> HIDE DEF l, v, t
  <2>4. Succeeds(l, Stored(l, n, v)) /\ Stored(l, n, v).there = l.there
    BY <2>3, StoredFacts
  <2>5. Succeeds(s, Stored(l, n, v))
    BY <2>3, <2>4, SucceedsOn
  <2>6. Succeeds(s, t) /\ t.there = s.there
    BY <2>2, <2>3, <2>4, <2>5
  <2> QED BY <1>1, <2>1, <2>6
<1>3. CASE e.mode # "edit" /\ e.suite \in s.there
  <2> DEFINE t == [s EXCEPT !.add = FALSE]
  <2>1. SuiteSaved(s, e) = t
    BY <1>3 DEF SuiteSaved
  <2>2. /\ t = [f \in SessionField |-> t[f]] /\ t.there = s.there /\ t.tests = s.tests
        /\ t.setting = s.setting /\ t.past = s.past /\ t.loaded = s.loaded /\ t.copy = s.copy
    BY DEF SuiteSession, SessionField
  <2> HIDE DEF t
  <2>3. DOMAIN t.tests = Suite
    BY <2>2 DEF SuiteSession
  <2> QED BY <2>1, <2>2, <2>3, RestFacts
<1>4. CASE e.mode # "edit" /\ e.suite \notin s.there
  <2> DEFINE v == e.value
             t == Stored(s, n, v)
             b == t.there \cup {n}
             u == [t EXCEPT !.there = b, !.add = FALSE]
  <2>1. SuiteSaved(s, e) = u
    BY <1>4 DEF SuiteSaved, Stored
  <2> HIDE DEF v
  <2>2. Succeeds(s, t) /\ SuiteSession(t) /\ t.setting[n] \in t.past[n]
    BY StoredFacts DEF Succeeds
  <2> HIDE DEF t
  <2>3. b \subseteq Suite /\ b \subseteq t.there \cup {n}
    BY <2>2 DEF SuiteSession
  <2> HIDE DEF b
  <2>4. /\ u = [f \in SessionField |-> u[f]] /\ u.there = b /\ u.tests = t.tests
        /\ u.setting = t.setting /\ u.past = t.past /\ u.loaded = t.loaded /\ u.copy = t.copy
    BY <2>2 DEF SuiteSession, SessionField
  <2> HIDE DEF u
  <2>5. SettingsKept(u)
    BY <2>2, <2>3, <2>4 DEF SuiteSession, SettingsKept
  <2>6. Succeeds(t, u)
    BY <2>2, <2>3, <2>4, <2>5 DEF SuiteSession, Succeeds
  <2> QED BY <2>1, <2>2, <2>6, SucceedsOn
<1> QED BY <1>2, <1>3, <1>4

LEMMA CalledSession ==
  ASSUME NEW s, SuiteSession(s), NEW e, SuiteEvent(e), NEW fails
  PROVE  Succeeds(s, Called(s, e, fails))
<1> DEFINE t == Called(s, e, fails)
           n == e.suite
           Same(x) == /\ x.there = s.there /\ x.setting = s.setting /\ x.past = s.past
                      /\ x.loaded = s.loaded /\ x.copy = s.copy
           Plain(x) == x = [f \in SessionField |-> x[f]] /\ Same(x) /\ x.tests = s.tests
<1>1. s = [f \in SessionField |-> s[f]] /\ s.there \subseteq Suite /\ DOMAIN s.tests = Suite
  BY DEF SuiteSession
<1>2. ASSUME NEW x, x = [f \in SessionField |-> x[f]], Same(x), DOMAIN x.tests = Suite
      PROVE  Succeeds(s, x)
  BY <1>2, RestFacts
<1> HIDE DEF n
<1>3. CASE e.op \in {"add", "edit", "delete", "run", "generate"}
  <2> DEFINE d == [suite |-> n, inUse |-> s.tests[n] # "none"]
  <2>1. \/ t = [s EXCEPT !.add = TRUE] \/ t = [s EXCEPT !.edit = n] \/ t = [s EXCEPT !.delete = d]
        \/ t = [s EXCEPT !.run = n] \/ t = [s EXCEPT !.generate = n]
    BY <1>3 DEF Called, n
  <2> HIDE DEF t, d
  <2>2. Plain(t)
    BY <1>1, <2>1 DEF SessionField
  <2> QED BY <1>1, <1>2, <2>2 DEF t
<1>4. CASE e.op \in {"startExport", "closeForm", "dismissDelete", "runTests", "closeRun", "closeGeneration"}
  <2> DEFINE r == IF fails THEN "failed" ELSE "started"
  <2>1. \/ t = s \/ t = [s EXCEPT !.add = FALSE, !.edit = NoSuite] \/ t = [s EXCEPT !.delete = NoInfo]
        \/ t = [s EXCEPT !.ran = r] \/ t = [s EXCEPT !.run = NoSuite, !.ran = "none"]
        \/ t = [s EXCEPT !.generate = NoSuite, !.generated = "none", !.lock = "none"]
    BY <1>4 DEF Called
  <2> HIDE DEF t, r
  <2>2. Plain(t)
    BY <1>1, <2>1 DEF SessionField
  <2> QED BY <1>1, <1>2, <2>2 DEF t
<1>5. CASE e.op = "save"
  <2>1. t = SuiteSaved(s, e) /\ e.suite \in Suite
    BY <1>5 DEF Called, SuiteEvent
  <2> HIDE DEF t
  <2> QED BY <2>1, SavedFacts DEF t
<1>7. CASE e.op = "deleteConfirmed"
  <2> DEFINE u == [s EXCEPT !.delete = NoInfo]
             there == s.there \ {n}
             y == [s.tests EXCEPT ![n] = "none"]
             w == [s.setting EXCEPT ![n] = BlankSetting]
  <2>1. t = Deleted(s, n, fails)
    BY <1>7 DEF Called, n
  <2>2. Plain(u)
    BY <1>1 DEF SessionField
  <2>3. t = u \/ t = [u EXCEPT !.there = u.there \ {n}, !.tests[n] = "none", !.setting[n] = BlankSetting]
    BY <2>1 DEF Deleted
  <2> HIDE DEF u
  <2>4. t = u \/ t = [u EXCEPT !.there = there, !.tests = y, !.setting = w]
    BY <2>2, <2>3 DEF SessionField
  <2>5. DOMAIN y = Suite /\ there \subseteq s.there /\ n \notin there
    BY <1>1
  <2>6. w = [k \in Suite |-> w[k]] /\ \A k \in Suite : k # n => w[k] = s.setting[k]
    BY DEF SuiteSession, SettingsKept
  <2> HIDE DEF there, y, w, t
  <2>7. CASE t = u
    BY <1>1, <1>2, <2>2, <2>7 DEF t
  <2>8. CASE t = [u EXCEPT !.there = there, !.tests = y, !.setting = w]
    <3>1. /\ t = [f \in SessionField |-> t[f]] /\ t.there = there /\ t.tests = y /\ t.setting = w
          /\ t.past = s.past /\ t.loaded = s.loaded /\ t.copy = s.copy
      BY <2>2, <2>8 DEF SessionField
    <3>2. SettingsKept(t)
      BY <1>1, <2>5, <2>6, <3>1 DEF SuiteSession, SettingsKept
    <3>3. Succeeds(s, t)
      BY <1>1, <2>5, <3>1, <3>2 DEF SuiteSession, Succeeds
    <3> QED BY <3>3 DEF t
  <2> QED BY <2>4, <2>7, <2>8
<1>8. CASE e.op = "lock"
  <2> DEFINE v == IF s.tests[s.generate] = "edited" THEN "locked" ELSE s.tests[s.generate]
             y == [s.tests EXCEPT ![s.generate] = v]
             u == IF s.generate = NoSuite THEN s ELSE [s EXCEPT !.tests = y]
  <2>1. t = [u EXCEPT !.lock = "locked"]
    BY <1>1, <1>8 DEF Called, EditsLocked, SessionField
  <2>2. DOMAIN y = Suite
    BY <1>1
  <2> HIDE DEF y, v
  <2>3. u = [f \in SessionField |-> u[f]] /\ Same(u) /\ u.tests \in {s.tests, y}
    BY <1>1 DEF SessionField
  <2> HIDE DEF u, t
  <2>4. t = [f \in SessionField |-> t[f]] /\ Same(t) /\ t.tests \in {s.tests, y}
    BY <2>1, <2>3 DEF SessionField
  <2>5. Succeeds(s, t)
    BY <1>1, <1>2, <2>2, <2>4
  <2> QED BY <2>5 DEF t
<1>9. CASE e.op = "generateTests"
  <2> DEFINE c == CacheCleared(s)
             v == IF c.tests[n] = "locked" THEN c.tests[n] ELSE "auto"
             y == [c.tests EXCEPT ![n] = v]
             u == [c EXCEPT !.tests = y, !.generate = NoSuite, !.generated = "none", !.lock = "none"]
             x == [s EXCEPT !.generated = "failed"]
  <2>1. Succeeds(s, c) /\ SuiteSession(c)
    BY ClearedFacts DEF Succeeds
  <2> HIDE DEF c
  <2>2. t = x \/ t = u
    BY <1>9, <2>1 DEF Called, TestsGenerated, SuiteSession, SessionField, n, c
  <2>3. Plain(x)
    BY <1>1 DEF SessionField
  <2>4. DOMAIN y = Suite
    BY <2>1 DEF SuiteSession
  <2> HIDE DEF y, v, t, x
  <2>5. /\ u = [f \in SessionField |-> u[f]] /\ u.there = c.there /\ u.tests = y
        /\ u.setting = c.setting /\ u.past = c.past /\ u.loaded = c.loaded /\ u.copy = c.copy
    BY <2>1 DEF SuiteSession, SessionField
  <2> HIDE DEF u
  <2>6. Succeeds(c, u)
    BY <2>1, <2>4, <2>5, RestFacts
  <2>7. Succeeds(s, u)
    BY <2>1, <2>6, SucceedsOn
  <2>8. Succeeds(s, x)
    BY <1>1, <1>2, <2>3
  <2> QED BY <2>2, <2>7, <2>8 DEF t
<1> QED BY <1>3, <1>4, <1>5, <1>7, <1>8, <1>9 DEF SuiteEvent, SuiteOps

\* What a run of the script makes of the page.
LEMMA RenderedFacts ==
  ASSUME SuitesInv, page \in {"suites", "suiteTests"}, ServeSuites
  PROVE  LET g == desk.generation
             h == desk'.generation
         IN /\ SuiteSession(suites') /\ DeskForm(desk') /\ DeskTold(desk', suites')
            /\ g.info # NoInfo /\ h.info.suite = g.info.suite => h.set = g.set
<1>1. /\ DeskForm(desk) /\ SuiteSession(suites) /\ DeskTold(desk, suites) /\ ~desk.broken
      /\ SuiteEvent(Head(sent))
  BY QueueSteps DEF SuitesInv, ServeSuites, Suites, Take
<1>2. PICK fails \in BOOLEAN, cached \in {{}, Gone(suites, Head(sent))}, s \in {suites, CacheCleared(suites)} :
        /\ suites' = Read(IF CallbackFails(s, Head(sent), cached) THEN s ELSE Called(s, Head(sent), fails))
        /\ desk' = IF ~Renders(suites', cached) THEN [desk EXCEPT !.broken = TRUE]
                  ELSE [desk EXCEPT
            !.list = suites'.there,
            !.form = FormFilled(@, FormInfo(suites')),
            !.deletion = DeleteAsked(@, suites'.delete),
            !.generation = GenerationShown(@, GenerateInfo(suites')),
            !.run = RunShown(@, suites')]
  BY DEF ServeSuites
<1>3. /\ Succeeds(suites, suites') /\ SuiteSession(suites')
      /\ ~suites'.add /\ suites'.edit \in suites'.there => suites'.edit \in suites'.loaded
  <2> DEFINE u == IF CallbackFails(s, Head(sent), cached) THEN s ELSE Called(s, Head(sent), fails)
  <2>1. Succeeds(suites, s) /\ SuiteSession(s)
    BY <1>1, <1>2, ClearedFacts DEF Succeeds
  <2>2. Succeeds(s, s) /\ Succeeds(s, Called(s, Head(sent), fails))
    BY <1>1, <2>1, CalledSession DEF Succeeds
  <2>3. Succeeds(s, u)
    BY <2>2
  <2>4. suites' = Read(u)
    BY <1>2
  <2> HIDE DEF u
  <2>5. Succeeds(suites, u) /\ SuiteSession(u)
    BY <2>1, <2>3, SucceedsOn DEF Succeeds
  <2>6. CASE u.add \/ u.edit = NoSuite
    <3>1. suites' = u
      BY <2>4, <2>6 DEF Read
    <3> QED BY <2>5, <2>6, <3>1, SuitesAssumption DEF SuiteSession
  <2>7. CASE ~(u.add \/ u.edit = NoSuite)
    <3> DEFINE t == Loaded(u, u.edit)
    <3>1. suites' = t
      BY <2>4, <2>7 DEF Read
    <3>2. /\ Succeeds(u, t) /\ t.there = u.there /\ t.edit = u.edit
          /\ u.edit \in u.there => u.edit \in t.loaded
      BY <2>5, LoadedFacts
    <3> HIDE DEF t
    <3>3. Succeeds(suites, t) /\ SuiteSession(t)
      BY <2>5, <3>2, SucceedsOn DEF Succeeds
    <3> QED BY <3>1, <3>2, <3>3
  <2> QED BY <2>6, <2>7
<1>4. FormTold(desk.form, suites')
  BY <1>1, <1>3 DEF DeskTold, FormTold, Succeeds
<1>5. CASE ~Renders(suites', cached)
  <2>1. desk' = [desk EXCEPT !.broken = TRUE]
    BY <1>2, <1>5
  <2>2. /\ desk' = [f \in DeskField |-> desk'[f]] /\ desk'.form = desk.form /\ desk'.generation = desk.generation
        /\ desk'.broken
    BY <1>1, <2>1 DEF DeskForm, DeskField
  <2> QED BY <1>1, <1>3, <2>2 DEF DeskForm, DeskTold
<1>6. CASE Renders(suites', cached)
  <2> DEFINE l == suites'.there
             x == FormFilled(desk.form, FormInfo(suites'))
             d == DeleteAsked(desk.deletion, suites'.delete)
             h == GenerationShown(desk.generation, GenerateInfo(suites'))
             r == RunShown(desk.run, suites')
  <2>1. desk' = [desk EXCEPT !.list = l, !.form = x, !.deletion = d, !.generation = h, !.run = r]
    BY <1>2, <1>6
  <2>2. SuiteFormOf(x) /\ FormTold(x, suites')
    <3>1. suites'.add \/ suites'.edit \in suites'.loaded \cup {NoSuite}
      BY <1>3, <1>6 DEF Renders
    <3>2. SuiteFormOf(desk.form)
      BY <1>1 DEF DeskForm
    <3> QED BY <1>3, <1>4, <3>1, <3>2, FilledFacts
  <2>3. /\ GenerationOf(h) /\ GenerationTold(h, suites')
        /\ desk.generation.info # NoInfo /\ h.info.suite = desk.generation.info.suite => h.set = desk.generation.set
    <3>1. GenerationOf(desk.generation) /\ suites'.generate \in Suite \cup {NoSuite}
      <4>1. cached \subseteq Suite
        BY <1>2 DEF Gone
      <4> QED BY <1>1, <1>3, <1>6, <4>1 DEF DeskForm, Renders, SuiteSession
    <3> QED BY <3>1, ShownFacts
  <2> HIDE DEF l, x, d, h, r
  <2>4. desk' = [f \in DeskField |-> desk'[f]] /\ desk'.form = x /\ desk'.generation = h
    BY <1>1, <2>1 DEF DeskForm, DeskField
  <2> QED BY <1>3, <2>2, <2>3, <2>4 DEF DeskForm, DeskTold
<1> QED BY <1>5, <1>6

LEMMA SuitesStep == SuitesInv /\ SuitesNext => SuitesInv'
<1> SUFFICES ASSUME SuitesInv, SuitesNext, page \in {"suites", "suiteTests"} PROVE SuitesInv'
  BY DEF SuitesInv, SuitesNext
<1>1. UNCHANGED page
  BY DEF SuitesNext
<1>2. CASE SuitesUser /\ UNCHANGED suites
  BY <1>1, <1>2, SuitesUserStep
<1>3. CASE ServeSuites
  <2>1. Queue(sent') /\ \A e \in Elements(sent') : SuiteEvent(e)
    BY <1>3, QueueSteps DEF SuitesInv, ServeSuites, Take
  <2> QED BY <1>1, <1>3, <2>1, RenderedFacts DEF SuitesInv
<1>4. CASE TestEdited
  <2>1. PICK s \in suites.there : suites' = [suites EXCEPT !.tests[s] = "edited"]
    BY <1>4 DEF TestEdited
  <2> DEFINE y == [suites.tests EXCEPT ![s] = "edited"]
  <2>2. UNCHANGED <<sent, desk>> /\ ~desk.broken
    BY <1>4 DEF TestEdited, Suites
  <2>3. suites' = [suites EXCEPT !.tests = y]
    BY <2>1 DEF SuitesInv, SuiteSession, SessionField
  <2>4. DOMAIN y = Suite /\ \A n \in Suite : y[n] = "locked" => suites.tests[n] = "locked"
    BY DEF SuitesInv, SuiteSession
  <2> HIDE DEF y
  <2>5. /\ suites' = [f \in SessionField |-> suites'[f]] /\ suites'.tests = y /\ suites'.there = suites.there
        /\ suites'.generate = suites.generate /\ suites'.lock = suites.lock
        /\ suites'.setting = suites.setting /\ suites'.past = suites.past
        /\ suites'.loaded = suites.loaded /\ suites'.copy = suites.copy
    BY <2>3 DEF SuitesInv, SuiteSession, SessionField
  <2>6. SuiteSession(suites')
    BY <2>4, <2>5, RestFacts DEF SuitesInv, Succeeds
  <2>7. FormTold(desk.form, suites')
    BY <2>2, <2>5 DEF SuitesInv, DeskTold, FormTold
  <2>8. GenerationTold(desk.generation, suites')
    BY <2>2, <2>4, <2>5 DEF SuitesInv, DeskTold, GenerationTold
  <2> QED BY <1>1, <2>2, <2>6, <2>7, <2>8 DEF SuitesInv, DeskTold
<1> QED BY <1>2, <1>3, <1>4 DEF SuitesNext

LEMMA SuitesInvImplies == SuitesInv => OwnSettingsShown /\ LockTold
<1>1. SuitesInv => OwnSettingsShown
  BY DEF SuitesInv, OwnSettingsShown, Suites, FormOpen, DeskTold, FormTold
<1>2. SuitesInv => LockTold
  BY DEF SuitesInv, LockTold, Suites, GenerateOpen, DeskTold, GenerationTold
<1> QED BY <1>1, <1>2

\* An answer keeps the generation set of a dialog that stays for its suite.
LEMMA SetStays ==
  SuitesInv /\ SuitesNext /\ Take /\ Suites /\ GenerateOpen
    /\ desk'.generation.info.suite = desk.generation.info.suite =>
  desk'.generation.set = desk.generation.set
<1> SUFFICES ASSUME SuitesInv, SuitesNext, Take, Suites, GenerateOpen,
                    desk'.generation.info.suite = desk.generation.info.suite
             PROVE  desk'.generation.set = desk.generation.set
  OBVIOUS
<1>1. CASE ServeSuites
  BY <1>1, RenderedFacts DEF Suites, GenerateOpen
<1>2. CASE ~ServeSuites
  <2>1. sent' = sent \/ \E e : sent' = Append(sent, e)
    BY <1>2 DEF SuitesNext, TestEdited, SuitesUser, AddClicked, EditClicked, DeleteClicked, RunClicked, GenerateClicked,
      DialogAsked, ExportClicked, StartExport, CloseExport, TypeSetting, TypeSuite, SaveForm, CloseForm,
      AgreeToDelete, DeleteSuite, DismissDelete, RunTests, CloseRun, PickSet, LockEdited, GenerateTests,
      CloseGeneration, Emit
  <2>2. Queue(sent) /\ sent # <<>> /\ sent' = Tail(sent)
    BY DEF SuitesInv, Suites, Take
  <2> QED BY <2>1, <2>2, TailFacts, AppendFacts
<1> QED BY <1>1, <1>2

-----------------------------------------------------------------------------
(* The dashboard of the monitors.                                           *)

BoardField == {"group", "suite", "data", "open", "form", "removing"}
MonitorField == {"chosen", "keys", "left", "made", "suite", "config"}

\* What is stored: suites are numbered as they are made, and those to come are
\* not there.
MonitorsForm(m) ==
  /\ m = [f \in MonitorField |-> m[f]]
  /\ m.chosen \in Watched /\ m.keys \subseteq Dialog
  /\ m.made \in 0..MaxSuites /\ m.suite \in [Watched -> 0..m.made] /\ m.left.on \in 0..m.made
  /\ m.config = [k \in 0..MaxSuites |-> m.config[k]]
  /\ \A k \in 0..MaxSuites : k > m.made => m.config[k] = Unmade

\* A dialog that is asked for exists, and so do a group and the suite of a form.
BoardEvent(e, made) ==
  /\ e.op = "open" => e.dialog \in Dialog
  /\ e.op = "group" => e.group \in Watched
  /\ e.op = "save" => e.on \in 0..made

\* That the dialog d is closed is on its way.
Closing(q, d) == \E i \in DOMAIN q : q[i].op = "close" /\ q[i].dialog = d

\* The dialogs that have data are those the session holds open, and one of them
\* that is not on the screen was closed there.
BoardAgrees(b, m, q) ==
  /\ b = [f \in BoardField |-> b[f]]
  /\ \A d \in Dialog : b.data[d] # NoPanel <=> d \in m.keys
  /\ b.open \subseteq m.keys
  /\ \A d \in m.keys \ b.open : Closing(q, d)

FormOf(form, made) ==
  form = [on |-> form.on, shown |-> form.shown, saved |-> form.saved] /\ form.on \in 0..made

MonitorsInv ==
  page = "monitors" =>
    /\ MonitorsForm(monitors)
    /\ Queue(sent) /\ \A e \in Elements(sent) : BoardEvent(e, monitors.made)
    /\ BoardAgrees(board, monitors, sent) /\ FormOf(board.form, monitors.made)

LEMMA ClosingGrows ==
  ASSUME NEW q, Queue(q), NEW e, NEW d, Closing(q, d) \/ (e.op = "close" /\ e.dialog = d)
  PROVE  Closing(Append(q, e), d)
<1> DEFINE r == Append(q, e)
<1>1. /\ Len(q) \in Nat /\ DOMAIN q = 1..Len(q) /\ DOMAIN r = 1..(Len(q) + 1)
      /\ \A j \in DOMAIN q : r[j] = q[j]
      /\ r[Len(q) + 1] = e
  BY AppendFacts
<1> HIDE DEF r
<1>2. CASE Closing(q, d)
  <2>1. PICK i \in DOMAIN q : q[i].op = "close" /\ q[i].dialog = d
    BY <1>2 DEF Closing
  <2>2. i \in DOMAIN r /\ r[i] = q[i]
    BY <1>1
  <2> QED BY <2>1, <2>2 DEF Closing, r
<1>3. CASE e.op = "close" /\ e.dialog = d
  <2>1. Len(q) + 1 \in DOMAIN r
    BY <1>1
  <2> QED BY <1>1, <1>3, <2>1 DEF Closing, r
<1> QED BY <1>2, <1>3

LEMMA ClosingServed ==
  ASSUME NEW q, Queue(q), q # <<>>, NEW d, Closing(q, d)
  PROVE  Closing(Tail(q), d) \/ (Head(q).op = "close" /\ Head(q).dialog = d)
<1> DEFINE r == Tail(q)
           e == Head(q)
<1>1. /\ Len(q) \in Nat /\ DOMAIN q = 1..Len(q) /\ Len(q) > 0 /\ q[1] = e
      /\ DOMAIN r = 1..(Len(q) - 1) /\ \A j \in DOMAIN r : r[j] = q[j + 1]
  BY TailFacts
<1> HIDE DEF r, e
<1>2. PICK i \in DOMAIN q : q[i].op = "close" /\ q[i].dialog = d
  BY DEF Closing
<1>3. CASE i = 1
  BY <1>1, <1>2, <1>3 DEF e
<1>4. CASE i > 1
  <2>1. i - 1 \in DOMAIN r /\ r[i - 1] = q[i]
    BY <1>1, <1>4
  <2> QED BY <1>2, <2>1 DEF Closing, r
<1> QED BY <1>1, <1>3, <1>4

\* A run of the script shows the dialogs that the session holds open.
LEMMA BoardBuiltFollows ==
  ASSUME NEW b, b = [f \in BoardField |-> b[f]], NEW m, MonitorsForm(m), FormOf(b.form, m.made),
         NEW once
  PROVE  LET n == BoardBuilt(b, m, once)
         IN /\ n = [f \in BoardField |-> n[f]]
            /\ \A d \in Dialog : n.data[d] # NoPanel <=> d \in m.keys
            /\ n.open \subseteq m.keys /\ FormOf(n.form, m.made)
            /\ \A d \in m.keys \ n.open : b.data[d] # NoPanel /\ d \notin b.open
<1> DEFINE data == [d \in Dialog |-> PanelData(m, d, once)]
           open == {d \in Dialog : data[d] # NoPanel /\ (data[d] # b.data[d] \/ d \in b.open)}
           form == SettingsShown(b.form, data["settings"])
           group == m.chosen
           suite_ == SuiteOfGroup(m)
           n == BoardBuilt(b, m, once)
<1>1. n = [b EXCEPT !.group = group, !.suite = suite_, !.data = data, !.open = open, !.form = form]
  BY DEF BoardBuilt
<1>2. \A d \in Dialog : data[d] # NoPanel <=> d \in m.keys
  <2> SUFFICES ASSUME NEW d \in Dialog PROVE PanelData(m, d, once) # NoPanel <=> d \in m.keys
    OBVIOUS
  <2>1. CASE d \notin m.keys
    BY <2>1 DEF PanelData
  <2>2. CASE d \in m.keys
    <3> DEFINE c == m.config[SuiteOfGroup(m)]
               o == (once = d)
    <3>1. PanelData(m, d, once) = [group |-> group, suite |-> suite_, config |-> c, once |-> o]
      BY <2>2 DEF PanelData
    <3> HIDE DEF c, o, group, suite_
    <3>2. "suite" \in DOMAIN PanelData(m, d, once)
      BY <3>1
    <3>3. "suite" \notin DOMAIN NoPanel
      BY DEF NoPanel
    <3> QED BY <2>2, <3>2, <3>3
  <2> QED BY <2>1, <2>2
<1>3. /\ open \subseteq Dialog
      /\ \A d \in Dialog : d \in open <=> data[d] # NoPanel /\ (data[d] # b.data[d] \/ d \in b.open)
  OBVIOUS
<1>5. FormOf(form, m.made)
  <2>1. suite_ \in 0..m.made
    BY DEF MonitorsForm, SuiteOfGroup
  <2> DEFINE panel == data["settings"]
  <2>2. panel = NoPanel \/ panel.suite = suite_
    <3>1. panel = PanelData(m, "settings", once)
      BY DEF Dialog
    <3> HIDE DEF panel
    <3>2. "settings" \in m.keys => panel.suite = suite_
      BY <3>1 DEF PanelData
    <3> QED BY <3>1, <3>2 DEF PanelData
  <2> HIDE DEF panel, suite_
  <2>3. FormOf(NoSettings, m.made)
    BY MonitorsAssumption DEF FormOf, NoSettings, MonitorsForm
  <2>4. panel # NoPanel => FormOf(SettingsMounted(panel), m.made)
    BY <2>1, <2>2 DEF FormOf, SettingsMounted
  <2>5. form = SettingsShown(b.form, panel)
    BY DEF panel
  <2> HIDE DEF form
  <2> QED BY <2>3, <2>4, <2>5 DEF SettingsShown
<1> HIDE DEF data, open, form, group, suite_
<1>4. n = [f \in BoardField |-> n[f]] /\ n.data = data /\ n.open = open /\ n.form = form
  BY <1>1 DEF BoardField
<1> HIDE DEF n
<1>6. open \subseteq m.keys
  BY <1>2, <1>3
<1>7. \A d \in m.keys \ open : b.data[d] # NoPanel /\ d \notin b.open
  BY <1>2, <1>3 DEF MonitorsForm
<1> QED BY <1>2, <1>4, <1>5, <1>6, <1>7 DEF n

LEMMA DroppedForm ==
  ASSUME NEW m, MonitorsForm(m), NEW k
  PROVE  LET n == MonitorsDropped(m, k)
         IN /\ MonitorsForm(n) /\ n.keys = m.keys /\ n.made = m.made /\ n.left = m.left
            /\ \A j \in 0..MaxSuites : n.config[j] # m.config[j] => j = k /\ n.config[j] = Unmade
<1> DEFINE config == [m.config EXCEPT ![k] = Unmade]
           suite_ == [g \in Watched |-> IF m.suite[g] = k THEN 0 ELSE m.suite[g]]
           n == MonitorsDropped(m, k)
<1>1. n = [m EXCEPT !.config = config, !.suite = suite_]
  BY DEF MonitorsDropped
<1>2. /\ config = [j \in 0..MaxSuites |-> config[j]]
      /\ \A j \in 0..MaxSuites : config[j] = IF j = k THEN Unmade ELSE m.config[j]
  BY DEF MonitorsForm
<1>3. suite_ \in [Watched -> 0..m.made]
  BY MonitorsAssumption DEF MonitorsForm
<1> HIDE DEF config, suite_
<1>4. /\ n = [f \in MonitorField |-> n[f]] /\ n.config = config /\ n.suite = suite_
      /\ n.chosen = m.chosen /\ n.keys = m.keys /\ n.made = m.made /\ n.left = m.left
  BY <1>1 DEF MonitorsForm, MonitorField
<1> HIDE DEF n
<1> QED BY <1>2, <1>3, <1>4 DEF MonitorsForm, n

\* A callback opens and closes dialogs, chooses a group, or deletes monitors.
LEMMA BoardCalledForm ==
  ASSUME MonitorsForm(monitors), NEW e, BoardEvent(e, monitors.made)
  PROVE  LET m == MonitorsCalled(e)
         IN /\ MonitorsForm(m) /\ m.made = monitors.made
            /\ e.op = "close" /\ BoardHears(e.dialog) => e.dialog \notin m.keys
            /\ \A j \in 0..MaxSuites : m.config[j] # monitors.config[j] =>
                 e.op = "delete" /\ j = board.suite /\ j # 0 /\ m.config[j] = Unmade
            /\ m.left = monitors.left
                 \/ (e.op = "save" /\ m.left = [on |-> e.on, shown |-> e.shown])
<1> DEFINE m == MonitorsCalled(e)
           closed == monitors.keys \ {e.dialog}
           opened == monitors.keys \cup {e.dialog}
           p == [on |-> e.on, shown |-> e.shown]
<1>0. monitors = [f \in MonitorField |-> monitors[f]]
  BY DEF MonitorsForm
<1>1. CASE m = monitors /\ ~(e.op = "close" /\ BoardHears(e.dialog))
  BY <1>1
<1>2. CASE e.op = "group" /\ m = [monitors EXCEPT !.chosen = e.group]
  <2>1. /\ m = [f \in MonitorField |-> m[f]] /\ m.chosen = e.group /\ m.keys = monitors.keys
        /\ m.left = monitors.left /\ m.made = monitors.made /\ m.suite = monitors.suite
        /\ m.config = monitors.config
    BY <1>0, <1>2 DEF MonitorField
  <2> HIDE DEF m
  <2> QED BY <1>2, <2>1 DEF MonitorsForm, BoardEvent, m
<1>3. CASE e.op = "open" /\ m = [monitors EXCEPT !.keys = opened]
  <2> HIDE DEF opened
  <2>1. /\ m = [f \in MonitorField |-> m[f]] /\ m.chosen = monitors.chosen /\ m.keys = opened
        /\ m.left = monitors.left /\ m.made = monitors.made /\ m.suite = monitors.suite
        /\ m.config = monitors.config
    BY <1>0, <1>3 DEF MonitorField
  <2> HIDE DEF m
  <2> QED BY <1>3, <2>1 DEF MonitorsForm, BoardEvent, opened, m
<1>4. CASE m = [monitors EXCEPT !.keys = closed]
  <2> HIDE DEF closed
  <2>1. /\ m = [f \in MonitorField |-> m[f]] /\ m.chosen = monitors.chosen /\ m.keys = closed
        /\ m.left = monitors.left /\ m.made = monitors.made /\ m.suite = monitors.suite
        /\ m.config = monitors.config
    BY <1>0, <1>4 DEF MonitorField
  <2> HIDE DEF m
  <2> QED BY <2>1 DEF MonitorsForm, closed, m
<1>5. CASE e.op = "save" /\ m = [monitors EXCEPT !.left = p]
  <2> HIDE DEF p
  <2>1. /\ m = [f \in MonitorField |-> m[f]] /\ m.chosen = monitors.chosen /\ m.left = p
        /\ m.keys = monitors.keys /\ m.made = monitors.made /\ m.suite = monitors.suite
        /\ m.config = monitors.config
    BY <1>0, <1>5 DEF MonitorField
  <2>2. p.on \in 0..monitors.made
    BY <1>5 DEF BoardEvent, p
  <2> HIDE DEF m
  <2>3. MonitorsForm(m)
    BY <2>1, <2>2 DEF MonitorsForm
  <2> QED BY <1>5, <2>1, <2>3 DEF p, m
<1>6. CASE e.op = "delete" /\ board.suite # 0 /\ m = MonitorsDropped(monitors, board.suite)
  <2> HIDE DEF m
  <2> QED BY <1>6, DroppedForm DEF m
<1> QED
  <2>1. \/ m = monitors /\ ~(e.op = "close" /\ BoardHears(e.dialog))
        \/ e.op = "group" /\ m = [monitors EXCEPT !.chosen = e.group]
        \/ e.op = "open" /\ m = [monitors EXCEPT !.keys = opened]
        \/ m = [monitors EXCEPT !.keys = closed]
        \/ e.op = "save" /\ m = [monitors EXCEPT !.left = p]
        \/ e.op = "delete" /\ board.suite # 0 /\ m = MonitorsDropped(monitors, board.suite)
    BY DEF MonitorsCalled
  <2> HIDE DEF m, opened, closed, p
  <2> QED BY <1>1, <1>2, <1>3, <1>4, <1>5, <1>6, <2>1

\* A save changes the settings of one suite, which its form was filled from or
\* which was not there, and closes its dialog.
LEMMA SavedForm ==
  ASSUME NEW m, MonitorsForm(m), NEW p, p.on \in 0..m.made, ~SaveRefused(m, p),
         NewSuite(m, p) => m.made < MaxSuites
  PROVE  LET n == SettingsSaved(m, p)
         IN /\ MonitorsForm(n) /\ n.keys \subseteq m.keys /\ n.made >= m.made
            /\ \A j \in 0..MaxSuites : n.config[j] # m.config[j] =>
                 m.config[j] = Unmade
                   \/ (SuiteOfGroup(m) # 0 /\ j = p.on /\ n.config[j] = p.shown)
<1> DEFINE k == IF NewSuite(m, p) THEN m.made + 1 ELSE WrittenTo(m, p)
           config == [m.config EXCEPT ![k] = p.shown]
           keys == m.keys \ {"settings"}
           left == IF SuiteOfGroup(m) = 0 THEN NoSaved ELSE m.left
           s == [m EXCEPT !.config = config, !.keys = keys, !.left = left]
           suite_ == [m.suite EXCEPT ![m.chosen] = k]
           n == SettingsSaved(m, p)
<1>0. /\ m.made \in Nat /\ MaxSuites \in Nat /\ m.made <= MaxSuites
      /\ p.on \in Nat /\ p.on <= m.made /\ m.left.on \in 0..m.made
  BY MonitorsAssumption DEF MonitorsForm
<1>10. \A j \in 0..MaxSuites : j > m.made => m.config[j] = Unmade
  BY DEF MonitorsForm
<1>1. n = IF NewSuite(m, p) THEN [s EXCEPT !.made = k, !.suite = suite_] ELSE s
  BY DEF SettingsSaved
<1>2. /\ config = [j \in 0..MaxSuites |-> config[j]]
      /\ \A j \in 0..MaxSuites : config[j] = IF j = k THEN p.shown ELSE m.config[j]
  BY DEF MonitorsForm
<1>3. keys \subseteq m.keys /\ keys \subseteq Dialog
  BY DEF MonitorsForm
<1>4. NewSuite(m, p) => /\ k \in 1..MaxSuites /\ k = m.made + 1
                        /\ suite_ \in [Watched -> 0..k] /\ SuiteOfGroup(m) = 0
  <2>1. ASSUME NewSuite(m, p) PROVE k \in 1..MaxSuites /\ k = m.made + 1 /\ SuiteOfGroup(m) = 0
    BY <1>0, <2>1 DEF NewSuite
  <2>2. NewSuite(m, p) => suite_ \in [Watched -> 0..k]
    <3> HIDE DEF k
    <3> QED BY <1>0, <2>1 DEF MonitorsForm
  <2> QED BY <2>1, <2>2
<1>5. ~NewSuite(m, p) => /\ k = p.on
                         /\ SuiteOfGroup(m) = 0 => m.config[k] = Unmade
  BY DEF NewSuite, SaveRefused, WrittenTo
<1>6. left.on \in 0..m.made
  BY <1>0 DEF NoSaved
<1> HIDE DEF k, config, keys, left, suite_
<1>7. /\ s = [f \in MonitorField |-> s[f]] /\ s.config = config /\ s.keys = keys
      /\ s.suite = m.suite /\ s.made = m.made /\ s.chosen = m.chosen /\ s.left = left
  BY DEF MonitorsForm, MonitorField
<1> HIDE DEF s
<1>8. CASE NewSuite(m, p)
  <2>1. /\ n = [f \in MonitorField |-> n[f]] /\ n.config = config /\ n.keys = keys
        /\ n.suite = suite_ /\ n.made = k /\ n.chosen = m.chosen /\ n.left = left
    BY <1>1, <1>7, <1>8 DEF MonitorField
  <2> HIDE DEF n
  <2>2. k \in 0..MaxSuites /\ k > m.made /\ m.config[k] = Unmade
    BY <1>0, <1>4, <1>8, <1>10
  <2>3. \A j \in 0..MaxSuites : j > k => config[j] = Unmade
    BY <1>0, <1>2, <1>4, <1>8, <1>10
  <2>4. left.on \in 0..k
    BY <1>0, <1>4, <1>6, <1>8
  <2>5. MonitorsForm(n)
    BY <1>2, <1>3, <1>4, <1>8, <2>1, <2>2, <2>3, <2>4 DEF MonitorsForm
  <2>6. \A j \in 0..MaxSuites : n.config[j] # m.config[j] => m.config[j] = Unmade
    BY <1>2, <2>1, <2>2
  <2>7. n.made >= m.made
    BY <1>0, <1>4, <1>8, <2>1
  <2> QED BY <1>3, <2>1, <2>5, <2>6, <2>7 DEF n
<1>9. CASE ~NewSuite(m, p)
  <2>1. n = s
    BY <1>1, <1>9
  <2> HIDE DEF n
  <2>2. \A j \in 0..MaxSuites : j > m.made => config[j] = Unmade
    <3> SUFFICES ASSUME NEW j \in 0..MaxSuites, j > m.made PROVE config[j] = Unmade
      OBVIOUS
    <3>1. j # k
      BY <1>0, <1>5, <1>9
    <3> QED BY <1>2, <1>10, <3>1
  <2>3. MonitorsForm(n)
    BY <1>2, <1>3, <1>6, <1>7, <2>1, <2>2 DEF MonitorsForm
  <2>4. \A j \in 0..MaxSuites : config[j] # m.config[j] =>
          m.config[j] = Unmade \/ (SuiteOfGroup(m) # 0 /\ j = p.on /\ config[j] = p.shown)
    BY <1>2, <1>5, <1>9
  <2> QED BY <1>0, <1>3, <1>7, <2>1, <2>3, <2>4 DEF n
<1> QED BY <1>8, <1>9

\* The save that a run finds is about a suite that was made.
LEMMA FoundForm ==
  ASSUME MonitorsForm(monitors), NEW e, BoardEvent(e, monitors.made),
         SaveFound(MonitorsCalled(e), e) # NoSaved
  PROVE  LET m == MonitorsCalled(e)
             p == SaveFound(m, e)
         IN /\ p.on \in 0..m.made
            /\ SuiteOfGroup(m) # 0 => e.op = "save" /\ p.on = e.on /\ p.shown = e.shown
<1> DEFINE m == MonitorsCalled(e)
           p == SaveFound(m, e)
<1>1. MonitorsForm(m) /\ m.made = monitors.made
  BY BoardCalledForm
<1> HIDE DEF m
<1>2. \/ SuiteOfGroup(m) = 0 /\ p = m.left
      \/ e.op = "save" /\ p = [on |-> e.on, shown |-> e.shown]
  BY DEF SaveFound, m
<1> HIDE DEF p
<1> QED BY <1>1, <1>2 DEF MonitorsForm, BoardEvent, m, p

\* The two ways a run ends.
LEMMA BoardServed ==
  ASSUME MonitorsInv, ServeMonitors, UNCHANGED page
  PROVE  /\ MonitorsInv'
         /\ \A k \in Made :
              monitors.config[k] # Unmade /\ monitors'.config[k] # monitors.config[k] =>
                \/ Head(sent).op = "save" /\ Head(sent).on = k /\ monitors'.config[k] = Head(sent).shown
                \/ Head(sent).op = "delete" /\ board.suite = k
<1> DEFINE e == Head(sent)
           m == MonitorsCalled(e)
           p == SaveFound(m, e)
<1>1. /\ page = "monitors" /\ sent # <<>> /\ MonitorsForm(monitors) /\ Queue(sent)
      /\ \A x \in Elements(sent) : BoardEvent(x, monitors.made)
      /\ BoardAgrees(board, monitors, sent) /\ FormOf(board.form, monitors.made)
  BY DEF MonitorsInv, ServeMonitors
<1>2. /\ e \in Elements(sent) /\ BoardEvent(e, monitors.made)
      /\ Queue(Tail(sent)) /\ Elements(Tail(sent)) \subseteq Elements(sent)
  BY <1>1, QueueSteps
<1>3. /\ MonitorsForm(m) /\ m.made = monitors.made
      /\ e.op = "close" /\ BoardHears(e.dialog) => e.dialog \notin m.keys
      /\ \A j \in 0..MaxSuites : m.config[j] # monitors.config[j] =>
           e.op = "delete" /\ j = board.suite /\ j # 0 /\ m.config[j] = Unmade
  BY <1>1, <1>2, BoardCalledForm
<1>4. p # NoSaved =>
        /\ p.on \in 0..m.made
        /\ SuiteOfGroup(m) # 0 => e.op = "save" /\ p.on = e.on /\ p.shown = e.shown
  BY <1>1, <1>2, FoundForm
<1>5. /\ (p # NoSaved /\ NewSuite(m, p)) => m.made < MaxSuites
      /\ IF p # NoSaved /\ SaveRefused(m, p)
           THEN /\ monitors' = BoardReloaded(monitors)
                /\ board' = BoardBuilt(NoBoard, monitors', "none")
                /\ sent' = <<>>
           ELSE /\ monitors' = IF p = NoSaved THEN m ELSE SettingsSaved(m, p)
                /\ board' = BoardBuilt(board, monitors', ShownOnce(e))
                /\ sent' = IF board.form = NoSettings /\ board'.form # NoSettings
                             THEN Append(Tail(sent), [op |-> "sample"]) ELSE Tail(sent)
  BY DEF ServeMonitors
<1> HIDE DEF p, m, e
<1>6. CASE p # NoSaved /\ SaveRefused(m, p)
  <2> DEFINE keys == {}
             left == NoSaved
  <2>1. monitors' = [monitors EXCEPT !.keys = keys, !.left = left]
    BY <1>5, <1>6 DEF BoardReloaded
  <2>2. left.on \in 0..monitors.made
    BY <1>1, MonitorsAssumption DEF NoSaved, MonitorsForm
  <2>3. keys = {}
    OBVIOUS
  <2> HIDE DEF keys, left
  <2>4. /\ monitors' = [f \in MonitorField |-> monitors'[f]]
        /\ monitors'.keys = keys /\ monitors'.left = left /\ monitors'.chosen = monitors.chosen
        /\ monitors'.made = monitors.made /\ monitors'.suite = monitors.suite
        /\ monitors'.config = monitors.config
    BY <1>1, <2>1 DEF MonitorField, MonitorsForm
  <2>5. MonitorsForm(monitors')
    BY <1>1, <2>2, <2>3, <2>4 DEF MonitorsForm
  <2>6. /\ NoBoard = [f \in BoardField |-> NoBoard[f]] /\ NoBoard.form = NoSettings
    BY DEF NoBoard, BoardField
  <2>7. FormOf(NoBoard.form, monitors'.made)
    BY <2>5, <2>6, MonitorsAssumption DEF FormOf, NoSettings, MonitorsForm
  <2>8. BoardAgrees(board', monitors', sent') /\ FormOf(board'.form, monitors'.made)
    BY <1>5, <1>6, <2>3, <2>4, <2>5, <2>6, <2>7, BoardBuiltFollows DEF BoardAgrees
  <2>9. Queue(sent') /\ Elements(sent') = {}
    BY <1>5, <1>6, NoEvents
  <2> QED BY <2>4, <2>5, <2>8, <2>9 DEF MonitorsInv
<1>7. CASE ~(p # NoSaved /\ SaveRefused(m, p))
  <2>1. /\ MonitorsForm(monitors') /\ monitors'.keys \subseteq m.keys
        /\ monitors'.made >= monitors.made
        /\ \A j \in 0..MaxSuites : monitors'.config[j] # m.config[j] =>
             m.config[j] = Unmade \/ (e.op = "save" /\ j = e.on /\ monitors'.config[j] = e.shown)
    <3>1. CASE p = NoSaved
      <4>1. monitors' = m
        BY <1>5, <1>7, <3>1
      <4>2. m.made >= monitors.made
        BY <1>1, <1>3, MonitorsAssumption DEF MonitorsForm
      <4> QED BY <1>3, <4>1, <4>2
    <3>2. CASE p # NoSaved
      BY <1>3, <1>4, <1>5, <1>7, <3>2, SavedForm
    <3> QED BY <3>1, <3>2
  <2>2. monitors.made \in Nat /\ monitors'.made \in Nat
    BY <1>1, <2>1, MonitorsAssumption DEF MonitorsForm
  <2>3. board = [f \in BoardField |-> board[f]] /\ FormOf(board.form, monitors'.made)
    BY <1>1, <2>1, <2>2 DEF BoardAgrees, FormOf
  <2>4. /\ board' = [f \in BoardField |-> board'[f]]
        /\ \A d \in Dialog : board'.data[d] # NoPanel <=> d \in monitors'.keys
        /\ board'.open \subseteq monitors'.keys /\ FormOf(board'.form, monitors'.made)
        /\ \A d \in monitors'.keys \ board'.open : board.data[d] # NoPanel /\ d \notin board.open
    BY <1>5, <1>7, <2>1, <2>3, BoardBuiltFollows
  <2> DEFINE s == [op |-> "sample"]
  <2>5. sent' = Tail(sent) \/ sent' = Append(Tail(sent), s)
    BY <1>5, <1>7
  <2>6. BoardEvent(s, monitors'.made)
    BY DEF BoardEvent
  <2> HIDE DEF s
  <2>7. Queue(sent') /\ \A x \in Elements(sent') : BoardEvent(x, monitors'.made)
    <3>1. \A x \in Elements(sent) : BoardEvent(x, monitors'.made)
      BY <1>1, <2>1, <2>2 DEF BoardEvent
    <3>2. CASE sent' = Tail(sent)
      BY <1>2, <3>1, <3>2
    <3>3. CASE sent' = Append(Tail(sent), s)
      <4>1. Queue(sent') /\ Elements(sent') \subseteq Elements(Tail(sent)) \cup {s}
        BY <1>2, <3>3, QueueSteps
      <4> QED BY <1>2, <2>6, <3>1, <4>1
    <3> QED BY <2>5, <3>2, <3>3
  <2>8. ASSUME NEW d \in monitors'.keys \ board'.open PROVE Closing(sent', d)
    <3>1. d \in Dialog /\ d \in m.keys
      BY <2>1 DEF MonitorsForm
    <3>2. board.data[d] # NoPanel /\ d \notin board.open
      BY <2>4
    <3>3. Closing(sent, d)
      BY <1>1, <3>1, <3>2 DEF BoardAgrees
    <3>4. Closing(Tail(sent), d)
      BY <1>1, <1>3, <3>1, <3>2, <3>3, ClosingServed DEF BoardHears, e
    <3> QED BY <1>2, <2>5, <3>4, ClosingGrows
  <2>9. MonitorsInv'
    BY <2>1, <2>4, <2>7, <2>8 DEF MonitorsInv, BoardAgrees
  <2>10. ASSUME NEW k \in Made, monitors.config[k] # Unmade, monitors'.config[k] # monitors.config[k]
         PROVE  \/ e.op = "save" /\ e.on = k /\ monitors'.config[k] = e.shown
                \/ e.op = "delete" /\ board.suite = k
    <3>1. k \in 0..MaxSuites
      BY MonitorsAssumption DEF Made
    <3> QED BY <1>3, <2>1, <2>10, <3>1
  <2> QED BY <2>9, <2>10 DEF e
<1> QED BY <1>6, <1>7

\* A step of the user sends at most one event, which is a proper one, and closes
\* a dialog only with the event that says so.
LEMMA BoardUserStep ==
  ASSUME MonitorsInv, page = "monitors", UNCHANGED page, BoardUser, UNCHANGED monitors
  PROVE  MonitorsInv'
<1>1. /\ MonitorsForm(monitors) /\ Queue(sent)
      /\ \A x \in Elements(sent) : BoardEvent(x, monitors.made)
      /\ BoardAgrees(board, monitors, sent) /\ FormOf(board.form, monitors.made)
  BY DEF MonitorsInv
<1>f. board = [f \in BoardField |-> board[f]]
  BY <1>1 DEF BoardAgrees
\* An event joins the others.
<1>2. ASSUME NEW e, Emit(e), BoardEvent(e, monitors.made)
      PROVE  /\ Queue(sent') /\ \A x \in Elements(sent') : BoardEvent(x, monitors.made)
             /\ \A d \in monitors.keys \ board.open : Closing(sent', d)
             /\ \A d : e.op = "close" /\ e.dialog = d => Closing(sent', d)
  <2>1. sent' = Append(sent, e)
    BY <1>2 DEF Emit
  <2>2. Queue(sent') /\ Elements(sent') \subseteq Elements(sent) \cup {e}
    BY <1>1, <2>1, QueueSteps
  <2>3. \A d : Closing(sent, d) \/ (e.op = "close" /\ e.dialog = d) => Closing(sent', d)
    BY <1>1, <2>1, ClosingGrows
  <2> QED BY <1>1, <1>2, <2>2, <2>3 DEF BoardAgrees
<1>3. ASSUME NEW e, Emit(e), BoardEvent(e, monitors.made), UNCHANGED board PROVE MonitorsInv'
  BY <1>1, <1>2, <1>3 DEF MonitorsInv, BoardAgrees
<1>4. ASSUME NEW form, FormOf(form, monitors.made), board' = [board EXCEPT !.form = form],
             UNCHANGED sent \/ \E e : Emit(e) /\ BoardEvent(e, monitors.made)
      PROVE  MonitorsInv'
  <2>1. /\ board' = [f \in BoardField |-> board'[f]] /\ board'.form = form
        /\ board'.open = board.open /\ board'.data = board.data
    BY <1>f, <1>4 DEF BoardField
  <2>2. /\ Queue(sent') /\ \A x \in Elements(sent') : BoardEvent(x, monitors.made)
        /\ \A d \in monitors.keys \ board.open : Closing(sent', d)
    <3>1. CASE UNCHANGED sent
      BY <1>1, <3>1 DEF BoardAgrees, Closing, Queue, Elements
    <3> QED BY <1>2, <1>4, <3>1
  <2> QED BY <1>1, <1>4, <2>1, <2>2 DEF MonitorsInv, BoardAgrees
<1>5. ASSUME NEW r, board' = [board EXCEPT !.removing = r],
             UNCHANGED sent \/ \E e : Emit(e) /\ BoardEvent(e, monitors.made)
      PROVE  MonitorsInv'
  <2>1. /\ board' = [f \in BoardField |-> board'[f]] /\ board'.form = board.form
        /\ board'.open = board.open /\ board'.data = board.data
    BY <1>f, <1>5 DEF BoardField
  <2>2. /\ Queue(sent') /\ \A x \in Elements(sent') : BoardEvent(x, monitors.made)
        /\ \A d \in monitors.keys \ board.open : Closing(sent', d)
    <3>1. CASE UNCHANGED sent
      BY <1>1, <3>1 DEF BoardAgrees, Closing, Queue, Elements
    <3> QED BY <1>2, <1>5, <3>1
  <2> QED BY <1>1, <2>1, <2>2 DEF MonitorsInv, BoardAgrees
<1>6. ASSUME NEW d \in Dialog, CloseDialog(d) PROVE MonitorsInv'
  <2> DEFINE open == board.open \ {d}
             e == [op |-> "close", dialog |-> d]
  <2>1. board' = [board EXCEPT !.open = open] /\ Emit(e)
    BY <1>6 DEF CloseDialog
  <2>2. open \subseteq monitors.keys /\ \A c \in monitors.keys \ open : c \in monitors.keys \ board.open \/ c = d
    BY <1>1 DEF BoardAgrees
  <2>3. BoardEvent(e, monitors.made) /\ e.op = "close" /\ e.dialog = d
    BY DEF BoardEvent
  <2> HIDE DEF open, e
  <2>4. /\ board' = [f \in BoardField |-> board'[f]] /\ board'.form = board.form
        /\ board'.open = open /\ board'.data = board.data
    BY <1>f, <2>1 DEF BoardField
  <2>5. /\ Queue(sent') /\ \A x \in Elements(sent') : BoardEvent(x, monitors.made)
        /\ \A c \in monitors.keys \ open : Closing(sent', c)
    BY <1>2, <2>1, <2>2, <2>3
  <2> QED BY <1>1, <2>2, <2>4, <2>5 DEF MonitorsInv, BoardAgrees
<1>7. ASSUME NEW c, SettingsChanged(c) PROVE /\ FormOf([board.form EXCEPT !.shown = c], monitors.made)
                                             /\ board' = [board EXCEPT !.form = [board.form EXCEPT !.shown = c]]
  BY <1>1, <1>7, <1>f DEF SettingsChanged, FormOf, BoardField
<1>8. ASSUME NEW c, ChangeSchedule(c) \/ ChangeOptions(c) PROVE MonitorsInv'
  <2> DEFINE form == [board.form EXCEPT !.shown = c]
             e == [op |-> "sample"]
  <2>1. FormOf(form, monitors.made) /\ board' = [board EXCEPT !.form = form]
    BY <1>7, <1>8 DEF ChangeSchedule, ChangeOptions
  <2>2. UNCHANGED sent \/ Emit(e)
    BY <1>8 DEF ChangeSchedule, ChangeOptions
  <2>3. BoardEvent(e, monitors.made)
    BY DEF BoardEvent
  <2> HIDE DEF form, e
  <2> QED BY <1>4, <2>1, <2>2, <2>3
<1>9. ASSUME NEW g \in Watched, ChooseGroup(g) PROVE MonitorsInv'
  BY <1>3, <1>9 DEF ChooseGroup, BoardEvent
<1>10. CASE ChangeView
  BY <1>3, <1>10 DEF ChangeView, BoardEvent
<1>11. ASSUME NEW d \in Dialog, OpenDialog(d) PROVE MonitorsInv'
  BY <1>3, <1>11 DEF OpenDialog, BoardEvent
<1>12. CASE SaveSettings
  <2> DEFINE e == [op |-> "save", on |-> board.form.on, shown |-> board.form.shown]
  <2>1. Emit(e) /\ UNCHANGED board
    BY <1>12 DEF SaveSettings
  <2>2. BoardEvent(e, monitors.made)
    BY <1>1 DEF BoardEvent, FormOf
  <2> HIDE DEF e
  <2> QED BY <1>3, <2>1, <2>2
<1>13. ASSUME NEW d, NEW close, AskPanel(d, close) PROVE MonitorsInv'
  BY <1>3, <1>13 DEF AskPanel, BoardEvent
<1>14. CASE AskRemoval \/ LeaveRemoval
  BY <1>5, <1>14 DEF AskRemoval, LeaveRemoval
<1>15. CASE ConfirmRemoval
  <2> DEFINE e == [op |-> "delete"]
  <2>1. Emit(e) /\ BoardEvent(e, monitors.made) /\ board' = [board EXCEPT !.removing = FALSE]
    BY <1>15 DEF ConfirmRemoval, BoardEvent
  <2> HIDE DEF e
  <2> QED BY <1>5, <2>1
<1> QED BY <1>6, <1>8, <1>9, <1>10, <1>11, <1>12, <1>13, <1>14, <1>15 DEF BoardUser

\* Another user changes what is stored.
LEMMA ElsewhereStep ==
  ASSUME MonitorsInv, page = "monitors", UNCHANGED page, NEW g \in Watched, Elsewhere(g)
  PROVE  MonitorsInv'
<1>1. /\ MonitorsForm(monitors) /\ Queue(sent)
      /\ \A x \in Elements(sent) : BoardEvent(x, monitors.made)
      /\ BoardAgrees(board, monitors, sent) /\ FormOf(board.form, monitors.made)
      /\ UNCHANGED <<sent, board>>
  BY DEF MonitorsInv, Elsewhere
<1> DEFINE k == monitors.suite[g]
           n == monitors.made + 1
<1>2. /\ monitors = [f \in MonitorField |-> monitors[f]]
      /\ monitors.made \in Nat /\ MaxSuites \in Nat /\ monitors.made <= MaxSuites
      /\ k \in Nat /\ k <= monitors.made /\ monitors.left.on \in 0..monitors.made
  BY <1>1, MonitorsAssumption DEF MonitorsForm
<1>3. /\ monitors.config = [j \in 0..MaxSuites |-> monitors.config[j]]
      /\ \A j \in 0..MaxSuites : j > monitors.made => monitors.config[j] = Unmade
  BY <1>1 DEF MonitorsForm
<1>4. ASSUME MonitorsForm(monitors'), monitors'.keys = monitors.keys, monitors'.made >= monitors.made
      PROVE  MonitorsInv'
  <2>1. monitors'.made \in Nat
    BY <1>4, MonitorsAssumption DEF MonitorsForm
  <2>2. \A i : i \in 0..monitors.made => i \in 0..monitors'.made
    BY <1>2, <1>4, <2>1
  <2>3. \A x \in Elements(sent') : BoardEvent(x, monitors'.made)
    BY <1>1, <2>2 DEF BoardEvent
  <2>4. FormOf(board'.form, monitors'.made)
    BY <1>1, <2>2 DEF FormOf
  <2>5. BoardAgrees(board', monitors', sent')
    BY <1>1, <1>4 DEF BoardAgrees
  <2> QED BY <1>1, <1>4, <2>3, <2>4, <2>5 DEF MonitorsInv
<1>5. ASSUME n <= MaxSuites, NEW c,
             monitors' = [monitors EXCEPT !.made = n, !.suite = [monitors.suite EXCEPT ![g] = n],
                                          !.config = [monitors.config EXCEPT ![n] = c]]
      PROVE  MonitorsInv'
  <2> DEFINE suite_ == [monitors.suite EXCEPT ![g] = n]
             config == [monitors.config EXCEPT ![n] = c]
  <2>1. suite_ \in [Watched -> 0..n]
    BY <1>1, <1>2 DEF MonitorsForm
  <2>2. /\ config = [j \in 0..MaxSuites |-> config[j]]
        /\ \A j \in 0..MaxSuites : config[j] = IF j = n THEN c ELSE monitors.config[j]
    BY <1>3
  <2>3. monitors' = [monitors EXCEPT !.made = n, !.suite = suite_, !.config = config]
    BY <1>5
  <2>4. /\ n \in 0..MaxSuites /\ n >= monitors.made /\ monitors.left.on \in 0..n
        /\ \A j \in 0..MaxSuites : j > n => j > monitors.made /\ j # n
    BY <1>2, <1>5
  <2>5. \A j \in 0..MaxSuites : j > n => config[j] = Unmade
    BY <1>3, <2>2, <2>4
  <2> HIDE DEF suite_, config, n
  <2>6. /\ monitors' = [f \in MonitorField |-> monitors'[f]]
        /\ monitors'.made = n /\ monitors'.suite = suite_ /\ monitors'.config = config
        /\ monitors'.keys = monitors.keys /\ monitors'.chosen = monitors.chosen
        /\ monitors'.left = monitors.left
    BY <1>2, <2>3 DEF MonitorField
  <2>7. MonitorsForm(monitors')
    BY <1>1, <2>1, <2>2, <2>4, <2>5, <2>6 DEF MonitorsForm
  <2> QED BY <1>4, <2>4, <2>6, <2>7
<1>6. ASSUME k # 0, NEW c, monitors' = [monitors EXCEPT !.config = [monitors.config EXCEPT ![k] = c]]
      PROVE  MonitorsInv'
  <2> DEFINE config == [monitors.config EXCEPT ![k] = c]
  <2>1. /\ config = [j \in 0..MaxSuites |-> config[j]]
        /\ \A j \in 0..MaxSuites : config[j] = IF j = k THEN c ELSE monitors.config[j]
    BY <1>3
  <2>2. \A j \in 0..MaxSuites : j > monitors.made => j # k
    BY <1>2
  <2>3. \A j \in 0..MaxSuites : j > monitors.made => config[j] = Unmade
    BY <1>3, <2>1, <2>2
  <2>4. monitors' = [monitors EXCEPT !.config = config]
    BY <1>6
  <2> HIDE DEF config, k
  <2>5. /\ monitors' = [f \in MonitorField |-> monitors'[f]]
        /\ monitors'.made = monitors.made /\ monitors'.suite = monitors.suite
        /\ monitors'.config = config /\ monitors'.left = monitors.left
        /\ monitors'.keys = monitors.keys /\ monitors'.chosen = monitors.chosen
    BY <1>2, <2>4 DEF MonitorField
  <2>6. MonitorsForm(monitors')
    BY <1>1, <2>1, <2>3, <2>5 DEF MonitorsForm
  <2> QED BY <1>2, <1>4, <2>5, <2>6
<1>7. CASE monitors' = MonitorsDropped(monitors, k)
  BY <1>1, <1>2, <1>4, <1>7, DroppedForm
<1> QED BY <1>5, <1>6, <1>7 DEF Elsewhere

LEMMA MonitorsStep == MonitorsInv /\ page = "monitors" /\ MonitorsNext => MonitorsInv'
BY BoardServed, BoardUserStep, ElsewhereStep DEF MonitorsNext

LEMMA MonitorsInitInv == page = "monitors" /\ sent = <<>> /\ MonitorsInit => MonitorsInv
<1> SUFFICES ASSUME page = "monitors", sent = <<>>, MonitorsInit PROVE MonitorsInv
  OBVIOUS
<1>1. PICK g \in Watched, h \in Watched, c \in Config :
        monitors = [chosen |-> g, keys |-> {}, left |-> NoSaved, made |-> 1,
                    suite |-> [i \in Watched |-> IF i = h THEN 1 ELSE 0],
                    config |-> [k \in 0..MaxSuites |-> IF k = 1 THEN c ELSE Unmade]]
  BY DEF MonitorsInit
<1>2. MonitorsForm(monitors) /\ monitors.keys = {}
  <2> DEFINE suite_ == [i \in Watched |-> IF i = h THEN 1 ELSE 0]
             config == [k \in 0..MaxSuites |-> IF k = 1 THEN c ELSE Unmade]
  <2>1. suite_ \in [Watched -> 0..1] /\ NoSaved.on \in 0..1
    BY DEF NoSaved
  <2>2. /\ config = [k \in 0..MaxSuites |-> config[k]]
        /\ \A k \in 0..MaxSuites : k > 1 => config[k] = Unmade
    BY MonitorsAssumption
  <2>3. 1 \in 0..MaxSuites
    BY MonitorsAssumption
  <2> HIDE DEF suite_, config
  <2>4. /\ monitors = [f \in MonitorField |-> monitors[f]]
        /\ monitors.chosen = g /\ monitors.keys = {} /\ monitors.left = NoSaved
        /\ monitors.made = 1 /\ monitors.suite = suite_ /\ monitors.config = config
    BY <1>1 DEF MonitorField, suite_, config
  <2> QED BY <2>1, <2>2, <2>3, <2>4 DEF MonitorsForm
<1>3. board = BoardBuilt(NoBoard, monitors, "none")
  BY DEF MonitorsInit
<1>4. NoBoard = [f \in BoardField |-> NoBoard[f]] /\ FormOf(NoBoard.form, monitors.made)
  <2>1. 0 \in 0..monitors.made
    BY <1>2, MonitorsAssumption DEF MonitorsForm
  <2>2. NoBoard.form = NoSettings /\ NoBoard = [f \in BoardField |-> NoBoard[f]]
    BY DEF NoBoard, BoardField
  <2> QED BY <2>1, <2>2 DEF FormOf, NoSettings
<1>5. BoardAgrees(board, monitors, sent) /\ FormOf(board.form, monitors.made)
  BY <1>2, <1>3, <1>4, BoardBuiltFollows DEF BoardAgrees
<1> QED BY <1>2, <1>5, NoEvents DEF MonitorsInv

LEMMA MonitorsInvImplies == MonitorsInv => DialogsFollow
<1> SUFFICES ASSUME MonitorsInv, page = "monitors", sent = <<>> PROVE board.open = monitors.keys
  BY DEF DialogsFollow, Quiet
<1>1. DOMAIN sent = {}
  BY NoEvents DEF Elements
<1> QED BY <1>1 DEF MonitorsInv, BoardAgrees, Closing

LEMMA SettingsStayOwn ==
  ASSUME MonitorsInv, page = "monitors", MonitorsNext, sent # <<>>, sent' # sent
  PROVE  \A k \in Made :
           monitors.config[k] # Unmade /\ monitors'.config[k] # monitors.config[k] =>
             \/ Head(sent).op = "save" /\ Head(sent).on = k /\ monitors'.config[k] = Head(sent).shown
             \/ Head(sent).op = "delete" /\ board.suite = k
<1>1. CASE ServeMonitors
  BY <1>1, BoardServed DEF MonitorsNext
<1> QED BY <1>1 DEF MonitorsNext, Elsewhere

-----------------------------------------------------------------------------
(* The dialogs of the data catalog.                                         *)

BoxField == {"group", "data", "open", "blank", "timers"}
KeptField == {"chosen", "of", "answer", "import", "uploads", "imports"}

\* What was parsed last is numbered, and was not imported.
KeptForm(s) ==
  /\ s = [f \in KeptField |-> s[f]]
  /\ s.of = [d \in Box |-> s.of[d]]
  /\ s.import = [preview |-> s.import.preview, result |-> s.import.result]
  /\ s.uploads \in Nat /\ s.imports = [n \in 1..MaxUploads |-> s.imports[n]]
  /\ \A n \in 1..MaxUploads : s.imports[n] \in {0, 1} /\ (n > s.uploads => s.imports[n] = 0)
  /\ s.import.preview # NoBox =>
       /\ s.import.preview.no \in 1..s.uploads
       /\ s.import.preview.no \in 1..MaxUploads => s.imports[s.import.preview.no] = 0

\* The dialogs that have data are those the session holds open, and one of them
\* that is not on the screen was closed there.
BoxesAgree(b, s, q) ==
  /\ b = [f \in BoxField |-> b[f]]
  /\ \A d \in Box : b.data[d] # NoBoxData <=> s.of[d] # NoBox
  /\ b.open \subseteq Box
  /\ \A d \in b.open : d = "import" \/ s.of[d] # NoBox
  /\ \A d \in Box \ b.open : s.of[d] # NoBox => Closing(q, d)

BoxesInv ==
  page = "catalogDialogs" => KeptForm(kept) /\ Queue(sent) /\ BoxesAgree(boxes, kept, sent)

LEMMA WithBoxForm ==
  ASSUME NEW s, KeptForm(s), NEW d, NEW g
  PROVE  LET n == WithBox(s, d, g)
         IN KeptForm(n) /\ (d \in Box => n.of[d] = g)
<1> DEFINE of == [s.of EXCEPT ![d] = g]
           n == WithBox(s, d, g)
<1>1. n = [s EXCEPT !.of = of]
  BY DEF WithBox
<1>2. of = [c \in Box |-> of[c]] /\ (d \in Box => of[d] = g)
  BY DEF KeptForm
<1> HIDE DEF of, n
<1>3. /\ n = [f \in KeptField |-> n[f]] /\ n.of = of /\ n.import = s.import
      /\ n.uploads = s.uploads /\ n.imports = s.imports
  BY <1>1 DEF KeptForm, KeptField
<1>4. KeptForm(n)
  BY <1>2, <1>3 DEF KeptForm
<1> QED BY <1>2, <1>3, <1>4 DEF n

LEMMA WithAnswerForm ==
  ASSUME NEW s, KeptForm(s), NEW d, NEW a
  PROVE  LET n == WithAnswer(s, d, a)
         IN KeptForm(n) /\ n.of = s.of
<1> DEFINE answer == [s.answer EXCEPT ![d] = a]
           n == WithAnswer(s, d, a)
<1>1. n = [s EXCEPT !.answer = answer]
  BY DEF WithAnswer
<1> HIDE DEF answer, n
<1>2. /\ n = [f \in KeptField |-> n[f]] /\ n.of = s.of /\ n.import = s.import
      /\ n.uploads = s.uploads /\ n.imports = s.imports
  BY <1>1 DEF KeptForm, KeptField
<1>3. KeptForm(n)
  BY <1>2 DEF KeptForm
<1> QED BY <1>2, <1>3 DEF n

\* There is nothing to import, or what there was.
LEMMA ImportForm ==
  ASSUME NEW s, KeptForm(s), NEW import, import \in {NoImport, s.import}
  PROVE  LET n == [s EXCEPT !.import = import]
         IN KeptForm(n) /\ n.of = s.of
<1> DEFINE n == [s EXCEPT !.import = import]
<1>1. /\ n = [f \in KeptField |-> n[f]] /\ n.of = s.of /\ n.import = import
      /\ n.uploads = s.uploads /\ n.imports = s.imports
  BY DEF KeptForm, KeptField
<1> HIDE DEF n
<1>2. /\ import = [preview |-> import.preview, result |-> import.result]
      /\ import.preview # NoBox => import = s.import
  BY DEF KeptForm, NoImport
<1>3. KeptForm(n)
  BY <1>1, <1>2 DEF KeptForm
<1> QED BY <1>1, <1>3 DEF n

LEMMA ParsedForm ==
  ASSUME NEW s, KeptForm(s), NEW blank, NEW as
  PROVE  LET n == FileParsed(s, blank, as)
         IN KeptForm(n) /\ n.of = s.of
<1> DEFINE uploads == s.uploads + 1
           preview == [no |-> uploads, blank |-> blank, as |-> as]
           import == [s.import EXCEPT !.preview = preview]
           n == FileParsed(s, blank, as)
<1>1. n = s \/ n = [s EXCEPT !.uploads = uploads, !.import = import]
  BY DEF FileParsed
<1>2. /\ uploads \in Nat /\ uploads \in 1..uploads /\ preview.no = uploads
      /\ \A k \in 1..MaxUploads : (k > uploads => k > s.uploads) /\ (k = uploads => k > s.uploads)
  BY CatalogDialogsAssumption DEF KeptForm
<1> HIDE DEF preview
<1>3. import = [preview |-> preview, result |-> s.import.result]
  BY DEF KeptForm
<1> HIDE DEF import, uploads, n
<1>4. CASE n = [s EXCEPT !.uploads = uploads, !.import = import]
  <2>1. /\ n = [f \in KeptField |-> n[f]] /\ n.of = s.of /\ n.import = import
        /\ n.uploads = uploads /\ n.imports = s.imports
    BY <1>4 DEF KeptForm, KeptField
  <2>2. /\ import = [preview |-> import.preview, result |-> import.result]
        /\ import.preview = preview
    BY <1>3
  <2>3. \A k \in 1..MaxUploads : s.imports[k] \in {0, 1} /\ (k > s.uploads => s.imports[k] = 0)
    BY DEF KeptForm
  <2>4. s.of = [d \in Box |-> s.of[d]] /\ s.imports = [k \in 1..MaxUploads |-> s.imports[k]]
    BY DEF KeptForm
  <2>5. KeptForm(n)
    BY <1>2, <2>1, <2>2, <2>3, <2>4 DEF KeptForm
  <2> QED BY <2>1, <2>5 DEF n
<1> QED BY <1>1, <1>4 DEF n

LEMMA ImportedForm ==
  ASSUME NEW s, KeptForm(s), NEW result
  PROVE  LET n == Imported(s, result)
         IN KeptForm(n) /\ n.of = s.of
<1> DEFINE no == s.import.preview.no
           imports == [s.imports EXCEPT ![no] = s.imports[no] + 1]
           import == [preview |-> NoBox, result |-> result]
           n == Imported(s, result)
<1>1. n = s \/ (s.import.preview # NoBox /\ n = [s EXCEPT !.imports = imports, !.import = import])
  BY DEF Imported
<1>2. ASSUME s.import.preview # NoBox
      PROVE  /\ imports = [k \in 1..MaxUploads |-> imports[k]]
             /\ \A k \in 1..MaxUploads : imports[k] \in {0, 1} /\ (k > s.uploads => imports[k] = 0)
  <2>1. /\ no \in 1..s.uploads /\ (no \in 1..MaxUploads => s.imports[no] = 0)
        /\ s.uploads \in Nat
    BY <1>2 DEF KeptForm
  <2>2. /\ s.imports = [k \in 1..MaxUploads |-> s.imports[k]]
        /\ \A k \in 1..MaxUploads : s.imports[k] \in {0, 1} /\ (k > s.uploads => s.imports[k] = 0)
    BY DEF KeptForm
  <2> HIDE DEF no
  <2>3. /\ imports = [k \in 1..MaxUploads |-> imports[k]]
        /\ \A k \in 1..MaxUploads : imports[k] = IF k = no THEN s.imports[no] + 1 ELSE s.imports[k]
    BY <2>2
  <2>4. \A k \in 1..MaxUploads : k > s.uploads => k # no
    BY <2>1
  <2> HIDE DEF imports
  <2> QED BY <2>1, <2>2, <2>3, <2>4
<1>3. import = [preview |-> import.preview, result |-> import.result] /\ import.preview = NoBox
  OBVIOUS
<1> HIDE DEF imports, import, n
<1>4. CASE s.import.preview # NoBox /\ n = [s EXCEPT !.imports = imports, !.import = import]
  <2>1. /\ n = [f \in KeptField |-> n[f]] /\ n.of = s.of /\ n.import = import
        /\ n.uploads = s.uploads /\ n.imports = imports
    BY <1>4 DEF KeptForm, KeptField
  <2>2. s.of = [d \in Box |-> s.of[d]] /\ s.uploads \in Nat
    BY DEF KeptForm
  <2>3. KeptForm(n)
    BY <1>2, <1>3, <1>4, <2>1, <2>2 DEF KeptForm
  <2> QED BY <2>1, <2>3 DEF n
<1> QED BY <1>1, <1>4 DEF n

LEMMA BoxCallsForm ==
  ASSUME KeptForm(kept), NEW e, NEW s \in BoxCalls(e)
  PROVE  KeptForm(s) /\ (e.op = "close" /\ e.dialog \in Box => s.of[e.dialog] = NoBox)
<1>1. ASSUME NEW d PROVE KeptForm(BoxClosed(kept, d)) /\ (d \in Box => BoxClosed(kept, d).of[d] = NoBox)
  <2> DEFINE t == WithBox(kept, d, NoBox)
             u == WithAnswer(t, d, NoBox)
             import == IF d = "import" THEN NoImport ELSE kept.import
             n == BoxClosed(kept, d)
  <2>1. KeptForm(t) /\ (d \in Box => t.of[d] = NoBox)
    BY WithBoxForm
  <2>2. n = [u EXCEPT !.import = import]
    BY DEF BoxClosed
  <2>3. u.import = kept.import
    BY DEF WithAnswer, WithBox, KeptForm, KeptField
  <2> HIDE DEF t
  <2>4. KeptForm(u) /\ u.of = t.of
    BY <2>1, WithAnswerForm
  <2> HIDE DEF u
  <2>5. import \in {NoImport, u.import}
    BY <2>3
  <2> HIDE DEF import, n
  <2>6. KeptForm(n) /\ n.of = u.of
    BY <2>2, <2>4, <2>5, ImportForm
  <2> QED BY <2>1, <2>4, <2>6 DEF n
<1>2. CASE e.op = "close"
  BY <1>1, <1>2 DEF BoxCalls
<1>3. CASE e.op = "group"
  <2> DEFINE g == e.of
  <2>1. s = [kept EXCEPT !.chosen = g]
    BY <1>3 DEF BoxCalls
  <2> HIDE DEF g
  <2>2. /\ s = [f \in KeptField |-> s[f]] /\ s.of = kept.of /\ s.import = kept.import
        /\ s.uploads = kept.uploads /\ s.imports = kept.imports
    BY <2>1 DEF KeptForm, KeptField
  <2> QED BY <1>3, <2>2 DEF KeptForm
<1>4. CASE e.op = "import"
  <2> DEFINE t == WithBox(kept, "import", kept.chosen)
             import == NoImport
  <2>1. s = [t EXCEPT !.import = import]
    BY <1>4 DEF BoxCalls
  <2>2. KeptForm(t)
    BY WithBoxForm
  <2> HIDE DEF t
  <2>3. import \in {NoImport, t.import}
    OBVIOUS
  <2> HIDE DEF import
  <2> QED BY <1>4, <2>1, <2>2, <2>3, ImportForm
<1>5. CASE e.op \in {"profile", "detail", "ask", "run"}
  <2>1. CASE e.op = "profile"
    BY <2>1, WithBoxForm DEF BoxCalls
  <2>2. CASE e.op = "detail"
    <3> DEFINE t == WithBox(kept, e.dialog, e.of)
    <3>1. s = WithAnswer(t, e.dialog, NoBox)
      BY <2>2 DEF BoxCalls
    <3>2. KeptForm(t)
      BY WithBoxForm
    <3> HIDE DEF t
    <3> QED BY <2>2, <3>1, <3>2, WithAnswerForm
  <2>3. CASE e.op = "ask"
    <3>1. s = kept \/ s = WithAnswer(kept, e.dialog, e.run)
      BY <2>3 DEF BoxCalls
    <3> QED BY <2>3, <3>1, WithAnswerForm
  <2>4. CASE e.op = "run"
    <3>1. PICK r : s = WithAnswer(kept, "profiling", r)
      BY <2>4 DEF BoxCalls
    <3> QED BY <2>4, <3>1, WithAnswerForm
  <2> QED BY <1>5, <2>1, <2>2, <2>3, <2>4
<1>6. CASE e.op = "upload"
  <2>1. PICK as : s = FileParsed(kept, e.blank, as)
    BY <1>6 DEF BoxCalls
  <2> QED BY <1>6, <2>1, ParsedForm
<1>7. CASE e.op = "confirm"
  <2>1. PICK r : s = Imported(kept, r)
    BY <1>7 DEF BoxCalls
  <2> QED BY <1>7, <2>1, ImportedForm
<1>8. CASE e.op \notin {"group", "import", "profile", "detail", "ask", "run", "upload", "confirm", "close"}
  BY <1>8 DEF BoxCalls
<1> QED BY <1>2, <1>3, <1>4, <1>5, <1>6, <1>7, <1>8

LEMMA BoxesServed ==
  ASSUME BoxesInv, page = "catalogDialogs", UNCHANGED page, ServeBoxes
  PROVE  BoxesInv'
<1>1. KeptForm(kept) /\ Queue(sent) /\ BoxesAgree(boxes, kept, sent)
  BY DEF BoxesInv
<1> DEFINE e == Head(sent)
           data == [d \in Box |-> BoxData(kept', d)]
           open == BoxesShown(boxes, data)
           group == kept'.chosen
           blank == IF data["import"] # boxes.data["import"] THEN "keep" ELSE boxes.blank
           clocks == IF data["import"] # boxes.data["import"] /\ data["import"] # NoBoxData
                          /\ data["import"].answer.result = "success"
                       THEN boxes.timers + 1 ELSE boxes.timers
<1>2. sent # <<>> /\ sent' = Tail(sent) /\ kept' \in BoxCalls(e) /\ boxes' = BoxesBuilt(boxes, kept')
  BY DEF ServeBoxes, Take
<1>3. KeptForm(kept') /\ (e.op = "close" /\ e.dialog \in Box => kept'.of[e.dialog] = NoBox)
  BY <1>1, <1>2, BoxCallsForm
<1>4. \A d \in Box : data[d] # NoBoxData <=> kept'.of[d] # NoBox
  <2> SUFFICES ASSUME NEW d \in Box PROVE BoxData(kept', d) # NoBoxData <=> kept'.of[d] # NoBox
    OBVIOUS
  <2>1. CASE kept'.of[d] = NoBox
    BY <2>1 DEF BoxData
  <2>2. CASE kept'.of[d] # NoBox
    <3> DEFINE o == kept'.of[d]
               a == IF d = "import" THEN kept'.import ELSE kept'.answer[d]
    <3>1. BoxData(kept', d) = [of |-> o, answer |-> a]
      BY <2>2 DEF BoxData
    <3> HIDE DEF o, a
    <3>2. "answer" \in DOMAIN BoxData(kept', d) /\ "answer" \notin DOMAIN NoBoxData
      BY <3>1 DEF NoBoxData
    <3> QED BY <2>2, <3>2
  <2> QED BY <2>1, <2>2
<1>5. /\ open \subseteq Box
      /\ \A d \in open : d = "import" \/ data[d] # NoBoxData
      /\ \A d \in Box \ open : data[d] # NoBoxData => data[d] = boxes.data[d] /\ d \notin boxes.open
  BY <1>1 DEF BoxesShown, BoxesAgree
<1>6. boxes' = [[boxes EXCEPT !.blank = blank, !.timers = clocks]
                  EXCEPT !.group = group, !.data = data, !.open = open]
  BY <1>2 DEF BoxesBuilt, ImportShown
<1> HIDE DEF e, data, open, group, blank, clocks
<1>7. boxes' = [f \in BoxField |-> boxes'[f]] /\ boxes'.data = data /\ boxes'.open = open
  BY <1>1, <1>6 DEF BoxesAgree, BoxField
<1>8. ASSUME NEW d \in Box \ open, kept'.of[d] # NoBox PROVE Closing(sent', d)
  <2>1. boxes.data[d] # NoBoxData /\ d \notin boxes.open
    BY <1>4, <1>5, <1>8
  <2>2. Closing(sent, d)
    BY <1>1, <2>1 DEF BoxesAgree
  <2> QED BY <1>1, <1>2, <1>3, <1>8, <2>2, ClosingServed DEF e
<1>9. Queue(sent')
  BY <1>1, <1>2, QueueSteps
<1> QED BY <1>3, <1>4, <1>5, <1>7, <1>8, <1>9 DEF BoxesInv, BoxesAgree

LEMMA BoxUserStep ==
  ASSUME BoxesInv, page = "catalogDialogs", UNCHANGED page, BoxUser, UNCHANGED kept
  PROVE  BoxesInv'
<1>1. KeptForm(kept) /\ Queue(sent) /\ BoxesAgree(boxes, kept, sent)
  BY DEF BoxesInv
<1>f. boxes = [f \in BoxField |-> boxes[f]]
  BY <1>1 DEF BoxesAgree
<1>2. ASSUME NEW e, Emit(e)
      PROVE  /\ Queue(sent')
             /\ \A d \in Box \ boxes.open : kept.of[d] # NoBox => Closing(sent', d)
             /\ \A d : e.op = "close" /\ e.dialog = d => Closing(sent', d)
  <2>1. sent' = Append(sent, e)
    BY <1>2 DEF Emit
  <2>2. \A d : Closing(sent, d) \/ (e.op = "close" /\ e.dialog = d) => Closing(sent', d)
    BY <1>1, <2>1, ClosingGrows
  <2> QED BY <1>1, <2>1, <2>2, QueueSteps DEF BoxesAgree
<1>3. ASSUME NEW e, Emit(e), UNCHANGED boxes PROVE BoxesInv'
  BY <1>1, <1>2, <1>3 DEF BoxesInv, BoxesAgree, KeptForm
\* What is typed and chosen in a dialog.
<1>4. ASSUME NEW blank, NEW clocks, UNCHANGED sent \/ \E e : Emit(e),
             boxes' = [boxes EXCEPT !.blank = blank, !.timers = clocks]
      PROVE  BoxesInv'
  <2>1. boxes' = [f \in BoxField |-> boxes'[f]] /\ boxes'.open = boxes.open /\ boxes'.data = boxes.data
    BY <1>f, <1>4 DEF BoxField
  <2>2. Queue(sent') /\ \A d \in Box \ boxes.open : kept.of[d] # NoBox => Closing(sent', d)
    <3>1. CASE UNCHANGED sent
      BY <1>1, <3>1 DEF BoxesAgree, Closing, Queue, Elements
    <3> QED BY <1>2, <1>4, <3>1
  <2> QED BY <1>1, <2>1, <2>2 DEF BoxesInv, BoxesAgree, KeptForm
<1>5. ASSUME NEW d, NEW clocks, Emit([op |-> "close", dialog |-> d]),
             boxes' = [boxes EXCEPT !.open = boxes.open \ {d}, !.timers = clocks]
      PROVE  BoxesInv'
  <2> DEFINE open == boxes.open \ {d}
             e == [op |-> "close", dialog |-> d]
  <2>1. Emit(e) /\ e.op = "close" /\ e.dialog = d /\ boxes' = [boxes EXCEPT !.open = open, !.timers = clocks]
    BY <1>5
  <2>2. /\ open \subseteq Box /\ \A c \in open : c = "import" \/ kept.of[c] # NoBox
        /\ \A c \in Box \ open : c \in Box \ boxes.open \/ c = d
    BY <1>1 DEF BoxesAgree
  <2> HIDE DEF open, e
  <2>3. boxes' = [f \in BoxField |-> boxes'[f]] /\ boxes'.open = open /\ boxes'.data = boxes.data
    BY <1>f, <2>1 DEF BoxField
  <2>4. Queue(sent') /\ \A c \in Box \ open : kept.of[c] # NoBox => Closing(sent', c)
    BY <1>2, <2>1, <2>2
  <2> QED BY <1>1, <2>2, <2>3, <2>4 DEF BoxesInv, BoxesAgree, KeptForm
<1>6. CASE UploadFile
  <2>1. PICK e : Emit(e)
    BY <1>6 DEF UploadFile, FileChosen
  <2> DEFINE clocks == IF boxes.data["import"].answer.result = "success" THEN boxes.timers + 1
                       ELSE boxes.timers
  <2>2. boxes' = [boxes EXCEPT !.blank = "keep", !.timers = clocks]
    BY <1>6 DEF UploadFile
  <2> HIDE DEF clocks
  <2> QED BY <1>4, <2>1, <2>2
<1>7. ASSUME NEW b, ChooseBlank(b) PROVE BoxesInv'
  <2>1. UNCHANGED sent /\ boxes' = [boxes EXCEPT !.blank = b]
    BY <1>7 DEF ChooseBlank
  <2>2. boxes' = [boxes EXCEPT !.blank = b, !.timers = boxes.timers]
    BY <1>f, <2>1 DEF BoxField
  <2> QED BY <1>4, <2>1, <2>2
<1>8. ASSUME NEW d, CloseBox(d) PROVE BoxesInv'
  <2> DEFINE open == boxes.open \ {d}
  <2>1. Emit([op |-> "close", dialog |-> d]) /\ boxes' = [boxes EXCEPT !.open = open]
    BY <1>8 DEF CloseBox
  <2> HIDE DEF open
  <2>2. boxes' = [boxes EXCEPT !.open = open, !.timers = boxes.timers]
    BY <1>f, <2>1 DEF BoxField
  <2> QED BY <1>5, <2>1, <2>2 DEF open
<1>9. CASE AutoClose
  <2> DEFINE open == boxes.open \ {"import"}
             clocks == boxes.timers - 1
  <2>1. Emit([op |-> "close", dialog |-> "import"]) /\ boxes' = [boxes EXCEPT !.open = open, !.timers = clocks]
    BY <1>9 DEF AutoClose
  <2> HIDE DEF clocks
  <2> QED BY <1>5, <2>1
<1>10. CASE UNCHANGED boxes /\ \E e : Emit(e)
  BY <1>3, <1>10
<1> QED
  BY <1>6, <1>7, <1>8, <1>9, <1>10
  DEF BoxUser, ChooseCatalog, ExportColumns, OpenImport, OfferProfiling, OpenDetail, AskDetail,
      RunProfiling, ConfirmImport

LEMMA BoxesStep == BoxesInv /\ page = "catalogDialogs" /\ BoxesNext => BoxesInv'
BY BoxesServed, BoxUserStep DEF BoxesNext

LEMMA BoxesInitInv == page = "catalogDialogs" /\ sent = <<>> /\ BoxesInit => BoxesInv
<1> SUFFICES ASSUME page = "catalogDialogs", sent = <<>>, BoxesInit PROVE BoxesInv
  OBVIOUS
<1>1. PICK g : kept = [chosen |-> g, of |-> [d \in Box |-> NoBox], answer |-> [d \in Box |-> NoBox],
                       import |-> NoImport, uploads |-> 0, imports |-> [n \in 1..MaxUploads |-> 0]]
  BY DEF BoxesInit
<1>2. KeptForm(kept) /\ \A d \in Box : kept.of[d] = NoBox
  <2> DEFINE of == [d \in Box |-> NoBox]
             imports == [n \in 1..MaxUploads |-> 0]
             import == NoImport
  <2>1. of = [d \in Box |-> of[d]] /\ \A d \in Box : of[d] = NoBox
    OBVIOUS
  <2>2. imports = [n \in 1..MaxUploads |-> imports[n]] /\ \A n \in 1..MaxUploads : imports[n] = 0
    OBVIOUS
  <2>3. import = [preview |-> import.preview, result |-> import.result] /\ import.preview = NoBox
    BY DEF NoImport
  <2>4. /\ kept = [f \in KeptField |-> kept[f]]
        /\ kept.of = of /\ kept.import = import /\ kept.uploads = 0 /\ kept.imports = imports
    BY <1>1 DEF KeptField
  <2> HIDE DEF of, imports, import
  <2>5. \A d \in Box : kept.of[d] = NoBox
    BY <2>1, <2>4
  <2>6. kept.of = [d \in Box |-> kept.of[d]] /\ kept.imports = [n \in 1..MaxUploads |-> kept.imports[n]]
    BY <2>1, <2>2, <2>4
  <2>7. \A n \in 1..MaxUploads : kept.imports[n] \in {0, 1} /\ (n > kept.uploads => kept.imports[n] = 0)
    BY <2>2, <2>4
  <2>8. KeptForm(kept)
    BY <2>3, <2>4, <2>6, <2>7 DEF KeptForm
  <2> QED BY <2>5, <2>8
<1>3. /\ boxes = [f \in BoxField |-> boxes[f]] /\ boxes.open = {}
      /\ \A d \in Box : boxes.data[d] = NoBoxData
  BY DEF BoxesInit, BoxField
<1> QED BY <1>2, <1>3, NoEvents DEF BoxesInv, BoxesAgree

LEMMA BoxesInvImplies == BoxesInv => BoxesFollow /\ ImportedOnce
<1> SUFFICES ASSUME BoxesInv, page = "catalogDialogs" PROVE BoxesFollow /\ ImportedOnce
  BY DEF BoxesFollow, ImportedOnce, OnCatalog
<1>1. sent = <<>> => DOMAIN sent = {}
  BY NoEvents DEF Elements
<1>2. BoxesFollow
  BY <1>1 DEF BoxesInv, BoxesAgree, Closing, BoxesFollow, Quiet
<1>3. ImportedOnce
  <2>1. KeptForm(kept)
    BY DEF BoxesInv
  <2>2. DOMAIN kept.imports = 1..MaxUploads
    BY <2>1 DEF KeptForm
  <2>3. \A n \in 1..MaxUploads : kept.imports[n] \in {0, 1}
    BY <2>1 DEF KeptForm
  <2> QED BY <2>2, <2>3 DEF ImportedOnce
<1> QED BY <1>2, <1>3
=============================================================================
