--------------------------- MODULE ScoreExplorer ---------------------------
(***************************************************************************)
(* The score explorer (pages/score_explorer.js), where a score card is put   *)
(* together from filters and named, with the callbacks of                    *)
(* views/score_explorer.py. The toolbar sends its settings when nothing was   *)
(* changed for a while; the server keeps them as query parameters, and hands  *)
(* them back as the definition that the page shows. Saving stores what the   *)
(* query parameters say.                                                    *)
(*                                                                          *)
(* Filters are by the values of fields, or by columns chosen in a dialog.    *)
(* The name stands for the checkboxes too, which are sent with it; the score  *)
(* and its breakdown follow from the definition and are left out.            *)
(***************************************************************************)
EXTENDS Browser, FiniteSets, SequencesExt

CONSTANTS
  Field, Value,  \* fields to filter by, and what they may be
  Picks,         \* lists of columns that the dialog may hand over
  Card,          \* score cards stored before: [name, filters, by]
  CardName,
  MaxChanges,    \* bound on what the user does
  Nothing        \* no value, no name, nothing pending

\* Filters that have a value each.
Filters(s) ==
  /\ s \in Seq({s[i] : i \in DOMAIN s})
  /\ \A i \in DOMAIN s : s[i] = [field |-> s[i].field, value |-> s[i].value] /\ s[i].value # Nothing

ASSUME ExplorerAssumption ==
  /\ MaxChanges \in Nat /\ Nothing \notin Value \cup CardName
  /\ \A p \in Picks : Filters(p)
  /\ \A c \in Card :
       /\ c = [name |-> c.name, filters |-> c.filters, by |-> c.by]
       /\ c.name \in CardName /\ c.filters # <<>> /\ Filters(c.filters) /\ c.by \in {"fields", "columns"}

VARIABLES
  explorer,  \* the page in the browser
  params,    \* the query parameters
  stored     \* the score card in the database, or Nothing

explorerVars == <<explorer, params, stored>>

Unnamed == [name |-> Nothing, filters |-> <<>>, by |-> "unset"]
NotDue == [name |-> Nothing, filters |-> <<>>, by |-> "none"]

-----------------------------------------------------------------------------
(* The toolbar. A filter keeps the position at which it was drawn first,     *)
(* which its buttons act on; one drawn as a column has none.                 *)

Drawn(filters, by) ==
  [i \in DOMAIN filters |->
     [field |-> filters[i].field, value |-> filters[i].value, at |-> IF by = "columns" THEN 0 ELSE i]]

Bare(filters) == [i \in DOMAIN filters |-> [field |-> filters[i].field, value |-> filters[i].value]]

\* Those that have a value.
Given(filters) ==
  LET given[n \in 0..Len(filters)] ==
        IF n = 0 THEN <<>>
        ELSE IF filters[n].value = Nothing THEN given[n - 1]
        ELSE Append(given[n - 1], Bare(filters)[n])
  IN given[Len(filters)]

\* What the toolbar sends.
Current(d) == [name |-> d.name, filters |-> Given(d.filters), by |-> d.by]

\* What follows from a change. Filters drawn anew have new keys and differ from
\* those before. Another way to filter sends nothing itself, and does not stop
\* what is about to be sent.
Derived(d, next, redrawn) ==
  IF Current(next) = Current(d) /\ ~(redrawn /\ Given(next.filters) # <<>>)
    THEN [d |-> next, emits |-> <<>>]
  ELSE IF next.by = "columns" /\ d.by # "columns"
    THEN [d |-> next, emits |-> <<[op |-> "openColumns"]>>]
  ELSE IF next.by # "columns" /\ d.by = "columns"
    THEN [d |-> [next EXCEPT !.selector = TRUE], emits |-> <<>>]
  ELSE [d |-> [next EXCEPT !.due = Current(next)], emits |-> <<>>]

Explorer == page = "explorer"

\* A change by the user; changes are counted to bound them.
Changed(next) ==
  /\ Explorer /\ explorer.changes < MaxChanges
  /\ explorer' = [Derived(explorer, next, FALSE).d EXCEPT !.changes = @ + 1]
  /\ UNCHANGED sent

OpenSelector ==
  /\ Explorer /\ explorer.by # "columns" /\ ~explorer.selector
  /\ explorer' = [explorer EXCEPT !.selector = TRUE]
  /\ UNCHANGED sent

\* addEmptyFilter.
AddFilter(field) ==
  /\ explorer.selector
  /\ Changed([explorer EXCEPT
       !.filters = Append(@, [field |-> field, value |-> Nothing,
                              at |-> IF explorer.by = "columns" THEN 0 ELSE Len(@) + 1]),
       !.selector = FALSE])

\* The button of the i-th filter shown.
RemoveClicked(i) ==
  /\ explorer.filters[i].at # 0
  /\ Changed([explorer EXCEPT
       !.filters = LET at == explorer.filters[i].at IN IF at <= Len(@) THEN RemoveAt(@, at) ELSE @])

\* setFilterValue: with a position past the end the handler fails half-way.
ValueChosen(i, v) ==
  /\ explorer.filters[i].at # 0
  /\ LET at == explorer.filters[i].at
     IN Changed([explorer EXCEPT
          !.by = "fields",
          !.filters = IF at <= Len(@) THEN [@ EXCEPT ![at].value = v] ELSE @])

TypeCardName ==
  \E n \in (CardName \cup {Nothing}) \ {explorer.typed} :
    Changed([explorer EXCEPT !.typed = n, !.typing = TRUE])

\* The debounced handler of the name.
NameSettles ==
  /\ Explorer /\ explorer.typing
  /\ explorer' = Derived(explorer, [explorer EXCEPT !.name = explorer.typed, !.typing = FALSE], FALSE).d
  /\ UNCHANGED sent

\* refresh, when its time is over.
SendUpdate ==
  /\ Explorer /\ explorer.due # NotDue
  /\ Emit([op |-> "update", card |-> explorer.due])
  /\ explorer' = [explorer EXCEPT !.due = NotDue]

SwitchFilters ==
  /\ Explorer /\ explorer.by # "unset" /\ explorer.changes < MaxChanges
  /\ Emit([op |-> "mode", by |-> IF explorer.by = "columns" THEN "fields" ELSE "columns"])
  /\ explorer' = [explorer EXCEPT !.changes = @ + 1]

SelectColumns ==
  /\ Explorer /\ explorer.changes < MaxChanges
  /\ explorer.by = "columns" \/ (explorer.by = "unset" /\ explorer.filters = <<>>)
  /\ Emit([op |-> "openColumns"])
  /\ explorer' = [explorer EXCEPT !.changes = @ + 1]

\* The dialog stays until the server has answered. Only another selection can
\* be applied.
ApplyColumns ==
  /\ Explorer /\ explorer.dialog /\ explorer.changes < MaxChanges
  /\ \E p \in Picks \cup {<<>>} :
       /\ Range(p) # explorer.columns
       /\ Emit([op |-> "columns", filters |-> p])
  /\ explorer' = [explorer EXCEPT !.changes = @ + 1]

CloseColumns ==
  /\ Explorer /\ explorer.dialog
  /\ Emit([op |-> "closeColumns"])
  /\ explorer' = [explorer EXCEPT !.dialog = FALSE]

SaveScore ==
  /\ Explorer /\ explorer.changes < MaxChanges
  /\ explorer.name # Nothing /\ Given(explorer.filters) # <<>>
  /\ Emit([op |-> "save"])
  /\ explorer' = [explorer EXCEPT !.changes = @ + 1]

-----------------------------------------------------------------------------
(* The server.                                                              *)

\* set_score_definition; a way to filter that is not chosen yet is by fields.
ParamsOf(card, dialog) ==
  [card |-> [card EXCEPT !.by = IF @ = "columns" THEN @ ELSE "fields"], given |-> TRUE, dialog |-> dialog]

\* Saving reads the query parameters, and fails without a name or a filter.
CardComplete(p) == p.given /\ p.card.name # Nothing /\ p.card.filters # <<>>

\* The filters of a stored card come in any order.
Shuffled(card) ==
  {[card EXCEPT !.filters = [i \in DOMAIN @ |-> @[order[i]]]] : order \in SetToSeqs(DOMAIN card.filters)}

\* The definition that a run of the script shows.
Definition(p) == p.card

\* Query parameters that are none are read from the stored card.
ExplorerCalled(e, next) ==
  CASE e.op = "update" -> next = ParamsOf(e.card, params.dialog) /\ UNCHANGED stored
    [] e.op = "mode" ->
         next = [params EXCEPT !.card.filters = <<>>, !.card.by = e.by] /\ UNCHANGED stored
    [] e.op = "openColumns" -> next = [params EXCEPT !.dialog = TRUE] /\ UNCHANGED stored
    [] e.op = "closeColumns" -> next = [params EXCEPT !.dialog = FALSE] /\ UNCHANGED stored
    [] e.op = "columns" ->
         /\ next = ParamsOf([Definition(params) EXCEPT
                     !.filters = e.filters,
                     !.by = IF e.filters = <<>> THEN "fields" ELSE "columns"], FALSE)
         /\ UNCHANGED stored
    [] e.op = "save" ->
         IF CardComplete(params)
           THEN /\ stored' = params.card
                /\ \E card \in Shuffled(params.card) : next = ParamsOf(card, params.dialog)
           ELSE next = params /\ UNCHANGED stored

\* The columns ticked when the dialog is built.
ColumnsShown(p) ==
  IF p.dialog THEN IF Definition(p).by = "columns" THEN Range(Definition(p).filters) ELSE {} ELSE Nothing

\* Mutant: filters that are equal are taken for a definition that is.
TakenUpByFilters(d, p) ==
  LET card == Definition(p)
  IN IF Bare(d.filters) = card.filters THEN d
     ELSE [d EXCEPT !.filters = Drawn(card.filters, card.by), !.by = card.by]

\* A definition other than the last one replaces what the toolbar has.
TakenUp(d, p) ==
  LET card == Definition(p)
  IN IF [filters |-> card.filters, by |-> card.by] = d.taken THEN d
     ELSE [d EXCEPT !.filters = IF Bare(@) = card.filters THEN @ ELSE Drawn(card.filters, card.by),
                    !.by = card.by]

\* The properties of the next run reach the browser.
Redefined(d, p) ==
  LET card == Definition(p)
      next == [TakenUp(d, p) EXCEPT !.taken = [filters |-> card.filters, by |-> card.by],
                 !.dialog = IF ColumnsShown(p) = d.columns THEN @ ELSE p.dialog,
                 !.columns = ColumnsShown(p)]
  IN Derived(d, next, Bare(next.filters) # Bare(d.filters))

ServeExplorer ==
  /\ Explorer /\ sent # <<>>
  /\ ExplorerCalled(Head(sent), params')
  /\ LET r == Redefined(explorer, params')
     IN explorer' = r.d /\ sent' = Tail(sent) \o r.emits

-----------------------------------------------------------------------------
Opened(card) ==
  [name |-> card.name, typed |-> card.name, typing |-> FALSE, filters |-> Drawn(card.filters, card.by),
   by |-> card.by, due |-> NotDue, taken |-> [filters |-> card.filters, by |-> card.by],
   selector |-> FALSE, dialog |-> FALSE, columns |-> Nothing, changes |-> 0]

\* A new card, or one that was stored.
ExplorerInit ==
  /\ stored \in Card \cup {Nothing}
  /\ params = IF stored = Nothing THEN [card |-> Unnamed, given |-> FALSE, dialog |-> FALSE]
              ELSE ParamsOf(stored, FALSE)
  /\ explorer = Opened(params.card)

ExplorerUser ==
  \/ OpenSelector \/ \E f \in Field : AddFilter(f)
  \/ \E i \in DOMAIN explorer.filters : RemoveClicked(i) \/ \E v \in Value : ValueChosen(i, v)
  \/ TypeCardName \/ NameSettles \/ SendUpdate
  \/ SwitchFilters \/ SelectColumns \/ ApplyColumns \/ CloseColumns \/ SaveScore

ExplorerNext ==
  /\ \/ ExplorerUser /\ UNCHANGED <<params, stored>>
     \/ ServeExplorer
  /\ UNCHANGED page

-----------------------------------------------------------------------------
(* Properties.                                                              *)

\* Once nothing is on its way, what a save would store is what the toolbar
\* shows, although answers to earlier settings replace the later ones in it.
ToolbarInStep ==
  Explorer /\ Quiet /\ explorer.due = NotDue /\ ~explorer.typing =>
    /\ params.card.name = explorer.name
    /\ params.card.filters = Given(explorer.filters)
    /\ params.card.by = explorer.by

\* What ToolbarInStep needs: a selection of columns is told from filters by fields. A
\* whole table group is not, since it is selected by the field that names it.
ColumnsTold ==
  /\ \A p \in Picks : \A i \in DOMAIN p : p[i].field \notin Field
  /\ \A c \in Card : \A i \in DOMAIN c.filters : c.filters[i].field \in Field <=> c.by = "fields"

\* The button of a filter removes this filter: it is drawn in it, with the
\* test id "explorer-filter-remove".
RemovesItsOwn ==
  [][Explorer => \A i \in DOMAIN explorer.filters :
       RemoveClicked(i) => explorer'.filters = RemoveAt(explorer.filters, i)]_<<page, sent, explorerVars>>
=============================================================================
