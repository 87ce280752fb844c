---------------------------- MODULE DataCatalog ----------------------------
(***************************************************************************)
(* The data catalog (pages/data_catalog.js): the tree of tables and columns   *)
(* (components/tree.js), where several can be ticked behind a search and a    *)
(* filter, the tags of what is ticked or selected (metadata_tags.js), and the *)
(* callbacks of views/data_catalog.py. Two tags stand for all of them: cde,   *)
(* which a column inherits from its table while it has none, and pii, which   *)
(* columns have. The columns come from a cache that saving tags clears.      *)
(***************************************************************************)
EXTENDS Browser, FiniteSets

CONSTANTS
  Table, Column,
  TableOf,      \* the table of each column
  Late,         \* the columns that a profiling finds while the page is open
  MaxSaves,     \* bound on the tags saved
  NoItem

ASSUME CatalogAssumption ==
  /\ TableOf \in [Column -> Table] /\ Table \cap Column = {} /\ Late \subseteq Column
  /\ MaxSaves \in Nat

VARIABLES
  tree,     \* the tree and the details beside it
  catalog   \* the catalog on the server

catalogVars == <<tree, catalog>>

Node == Table \cup Column

ColumnsOf(t, columns) == {c \in columns : TableOf[c] = t}

OfColumn(n, cde) == IF n \in Column /\ cde[n] = "unset" THEN cde[TableOf[n]] ELSE cde[n]

Catalog == page = "catalog"

\* The columns of the tree.
Known(d) == DOMAIN d.nodes.pii

-----------------------------------------------------------------------------
(* The tree.                                                                *)

\* What a search for one name and the filter for critical data keep out.
NodeOut(d, n) ==
  \/ d.search # NoItem /\ n # d.search
  \/ d.onlyCde /\ OfColumn(n, d.nodes.cde) # "yes"

\* A table stays while one of its columns does.
HiddenNodes(d) ==
  {n \in Table \cup Known(d) :
     NodeOut(d, n) /\ (n \in Table => \A c \in ColumnsOf(n, Known(d)) : NodeOut(d, c))}

SearchTree(n) ==
  /\ Catalog /\ n # tree.search
  /\ LET d == [tree EXCEPT !.search = n] IN tree' = [d EXCEPT !.hidden = HiddenNodes(d)]
  /\ UNCHANGED sent

\* What is ticked in the filters takes effect when they are applied.
FilterChanged(d) == [d EXCEPT !.onlyCde = ~@]

ApplyFilters ==
  /\ Catalog
  /\ LET d == FilterChanged(tree) IN tree' = [d EXCEPT !.hidden = HiddenNodes(d)]
  /\ UNCHANGED sent

\* The card of the tags of the item selected. What is not set is "no", where
\* the user sees no other choice.
CardOf(item) ==
  IF item = NoItem THEN NoItem
  ELSE [editing |-> FALSE,
        cde |-> IF item.node \in Table /\ item.cde = "unset" THEN "no" ELSE item.cde,
        pii |-> IF item.pii = "none" THEN "no" ELSE item.pii]

\* getMultiSelection
Selection(d) == d.ticked \cap Column

\* The switch "Edit multiple". Without it nothing is ticked, and what is
\* selected is shown.
ToggleEditMultiple ==
  /\ Catalog /\ tree.ask = NoItem
  /\ IF tree.multi
       THEN /\ tree' = [tree EXCEPT !.multi = FALSE, !.ticked = {}, !.chosen = NoItem, !.card = CardOf(tree.item)]
            /\ Emit([op |-> "select", node |-> tree.selected])
       ELSE tree' = [tree EXCEPT !.multi = TRUE, !.chosen = {}, !.card = NoItem] /\ UNCHANGED sent

Shown(n) == n \in (Table \cup Known(tree)) \ tree.hidden

\* A click on a row, one at a time or to tick it.
SelectRow(n) ==
  /\ Catalog /\ Shown(n) /\ ~tree.multi /\ tree.ask = NoItem /\ n # tree.selected
  /\ tree' = [tree EXCEPT !.selected = n]
  /\ Emit([op |-> "select", node |-> n])

\* The tree after ticking: a table is ticked with all its columns.
Ticked(d, n, ticked) ==
  LET t == IF n \in Table THEN n ELSE TableOf[n]
      full == ColumnsOf(t, Known(d)) \subseteq ticked
      now == IF full THEN ticked \cup {t} ELSE ticked \ {t}
  IN [d EXCEPT !.ticked = now, !.selected = n, !.chosen = now \cap Column]

TickColumn(c) ==
  /\ Catalog /\ Shown(c) /\ tree.multi /\ tree.ask = NoItem
  /\ tree' = Ticked(tree, c, IF c \in tree.ticked THEN tree.ticked \ {c} ELSE tree.ticked \cup {c})
  /\ UNCHANGED sent

\* What a click on a table ticks: its columns on the screen, or nothing if
\* they all are ticked, or the table is.
ColumnsToTick(d, t) ==
  LET open == ColumnsOf(t, Known(d)) \ d.hidden
  IN IF t \in d.ticked \/ open \subseteq d.ticked THEN {} ELSE open

\* selectTree keeps the hidden ones that are ticked, and clears them with all.
TickTable(t) ==
  /\ Catalog /\ Shown(t) /\ tree.multi /\ tree.ask = NoItem
  /\ LET add == ColumnsToTick(tree, t)
     IN tree' = Ticked(tree, t, IF add = {} THEN tree.ticked \ ColumnsOf(t, Known(tree))
                                            ELSE tree.ticked \cup add)
  /\ UNCHANGED sent

-----------------------------------------------------------------------------
(* Tags. Saving those that are detected automatically asks first.           *)

CanTag == catalog.saved + Cardinality({i \in DOMAIN sent : sent[i].op = "tags"}) < MaxSaves

\* The tags go to the server at once, or after the warning.
Save(e) ==
  /\ CanTag
  /\ IF e.disable = {} THEN Emit(e) /\ UNCHANGED tree
     ELSE tree' = [tree EXCEPT !.ask = e] /\ UNCHANGED sent

ConfirmWarning ==
  /\ Catalog /\ tree.ask # NoItem
  /\ tree' = [tree EXCEPT !.ask = NoItem]
  /\ Emit(tree.ask)

CancelWarning ==
  /\ Catalog /\ tree.ask # NoItem
  /\ tree' = [tree EXCEPT !.ask = NoItem]
  /\ UNCHANGED sent

\* The items of a bulk edit: each ticked column, and its table.
ItemsOf(columns) == columns \cup {TableOf[c] : c \in columns}

MultiTags == [cde : {"yes", "no"}] \cup [pii : {"none", "MANUAL"}]

SaveMulti ==
  /\ Catalog /\ tree.multi /\ tree.ask = NoItem /\ tree.chosen # {}
  /\ \E tags \in MultiTags :
       Save([op |-> "tags", bulk |-> TRUE, ids |-> ItemsOf(tree.chosen),
             tags |-> tags, disable |-> DOMAIN tags \cap tree.detect])

CardShown == Catalog /\ ~tree.multi /\ tree.card # NoItem /\ tree.ask = NoItem

EditCard ==
  /\ CardShown /\ ~tree.card.editing
  /\ tree' = [tree EXCEPT !.card.editing = TRUE]
  /\ UNCHANGED sent

TypeTag ==
  /\ CardShown /\ tree.card.editing
  /\ \/ \E v \in {"yes", "no"} \cup (IF tree.item.node \in Column THEN {"unset"} ELSE {}) :
          tree' = [tree EXCEPT !.card.cde = v]
     \/ \E v \in {"none", "MANUAL"} : tree.item.node \in Column /\ tree' = [tree EXCEPT !.card.pii = v]
  /\ UNCHANGED sent

CardCanceled(card, item) == [editing |-> FALSE, cde |-> item.cde, pii |-> item.pii]

CancelCard ==
  /\ CardShown /\ tree.card.editing
  /\ tree' = [tree EXCEPT !.card = CardCanceled(@, tree.item)]
  /\ UNCHANGED sent

\* All the tags of the card are saved.
SaveCard ==
  /\ CardShown /\ tree.card.editing
  /\ LET item == tree.item
         c == tree.card
         changed == {k \in {"cde", "pii"} : k \in DOMAIN item /\ c[k] # item[k]} \ (IF item.node \in Table THEN {"pii"} ELSE {})
     IN /\ changed # {}
        /\ Save([op |-> "tags", bulk |-> FALSE, ids |-> {item.node}, disable |-> changed \cap tree.detect,
                 tags |-> IF item.node \in Table THEN [cde |-> c.cde] ELSE [cde |-> c.cde, pii |-> c.pii]])

-----------------------------------------------------------------------------
(* The server.                                                              *)

\* The flag of a column is text to the database, and false becomes "false",
\* which is a flag.
StoredFlag(v) == IF v = "no" THEN "false" ELSE v

TagsSaved(s, e) ==
  [s EXCEPT
    !.cde = [n \in Node |-> IF n \in e.ids /\ "cde" \in DOMAIN e.tags THEN e.tags.cde ELSE @[n]],
    !.pii = [c \in Column |-> IF c \in e.ids /\ "pii" \in DOMAIN e.tags THEN StoredFlag(e.tags.pii) ELSE @[c]],
    !.detect = @ \ e.disable, !.saved = @ + 1, !.cached = s.columns]

Item(s) ==
  IF s.selected = NoItem THEN NoItem
  ELSE [node |-> s.selected, cde |-> s.cde[s.selected],
        pii |-> IF s.selected \in Column THEN s.pii[s.selected] ELSE "none"]

\* What the tree is made of.
NodesOf(s) == [cde |-> [n \in s.cached \cup Table |-> s.cde[n]], pii |-> [c \in s.cached |-> s.pii[c]]]

\* "Reset to false after saving"
MultiAfter(d, s) == d.multi /\ s.saved = d.saved

\* Mutant: what was ticked is still to be edited.
TreeMadeKeeping(d, s) ==
  [d EXCEPT !.nodes = NodesOf(s), !.ticked = {}, !.hidden = {}, !.search = NoItem,
            !.selected = s.selected]

\* The tree of new nodes, unticked and all shown, whatever the filter is.
TreeMade(d, s) ==
  [d EXCEPT !.nodes = NodesOf(s), !.ticked = {}, !.hidden = {}, !.search = NoItem,
            !.selected = s.selected, !.chosen = IF MultiAfter(d, s) THEN {} ELSE NoItem]

\* The tree is made again of other nodes, and the card of another item. What
\* asked is gone with the form it asked for.
CatalogBuilt(d, s) ==
  LET anew == NodesOf(s) # d.nodes
      item == Item(s)
      multi == MultiAfter(d, s)
      formed == anew \/ s.detect # d.detect \/ d.multi # multi \/ (~multi /\ item # d.item)
      t == IF anew THEN TreeMade(d, s)
           ELSE IF d.multi /\ ~multi THEN [d EXCEPT !.ticked = {}, !.chosen = NoItem] ELSE d
  IN [t EXCEPT !.multi = multi, !.saved = s.saved, !.detect = s.detect, !.item = item,
               !.card = IF ~formed THEN @ ELSE IF multi THEN NoItem ELSE CardOf(item),
               !.ask = IF formed THEN NoItem ELSE @]

\* A callback and the run of the script after it. The tree tells what is
\* selected when it is made, and when it is left to select one item.
ServeCatalog ==
  /\ Catalog /\ sent # <<>>
  /\ LET e == Head(sent)
     IN catalog' = CASE e.op = "select" -> [catalog EXCEPT !.selected = e.node]
                     [] e.op = "tags" -> TagsSaved(catalog, e)
  /\ tree' = CatalogBuilt(tree, catalog')
  /\ sent' = IF ~tree'.multi /\ (tree'.nodes # tree.nodes \/ tree.multi)
               THEN Append(Tail(sent), [op |-> "select", node |-> tree'.selected])
               ELSE Tail(sent)

\* A profiling run finds a column.
FindColumn(c) ==
  /\ Catalog /\ c \in Late \ catalog.columns
  /\ catalog' = [catalog EXCEPT !.columns = @ \cup {c}]
  /\ UNCHANGED <<sent, tree>>

-----------------------------------------------------------------------------
CatalogInit ==
  /\ catalog = [columns |-> Column \ Late, cached |-> Column \ Late, cde |-> [n \in Node |-> "unset"],
                pii |-> [c \in Column |-> "none"], detect |-> {"pii"}, selected |-> NoItem, saved |-> 0]
  /\ tree = [nodes |-> NodesOf(catalog), ticked |-> {}, hidden |-> {}, search |-> NoItem, onlyCde |-> FALSE, multi |-> FALSE,
             chosen |-> NoItem, selected |-> NoItem, item |-> NoItem, card |-> NoItem, ask |-> NoItem,
             detect |-> {"pii"}, saved |-> 0]

CatalogUser ==
  \/ \E n \in Node \cup {NoItem} : SearchTree(n)
  \/ ApplyFilters \/ ToggleEditMultiple
  \/ \E n \in Node : SelectRow(n)
  \/ \E c \in Column : TickColumn(c)
  \/ \E t \in Table : TickTable(t)
  \/ SaveMulti \/ ConfirmWarning \/ CancelWarning
  \/ EditCard \/ TypeTag \/ CancelCard \/ SaveCard

CatalogNext ==
  /\ (CatalogUser /\ UNCHANGED catalog) \/ ServeCatalog \/ \E c \in Column : FindColumn(c)
  /\ UNCHANGED page

-----------------------------------------------------------------------------
(* Properties.                                                              *)

\* What a bulk edit would change is what is ticked in the tree, whatever is
\* hidden, saved or read again meanwhile.
SelectionInStep == Catalog => tree.chosen = IF tree.multi THEN Selection(tree) ELSE NoItem

\* A click on a table never ticks a column that is not on the screen.
HiddenUntouched ==
  [][Catalog /\ UNCHANGED sent => (tree'.ticked \cap Column) \ tree.ticked \subseteq Column \ tree.hidden
    ]_<<page, sent, catalogVars>>

=============================================================================
