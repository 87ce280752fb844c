------------------------------ MODULE RunLists ------------------------------
(***************************************************************************)
(* The lists of test runs (pages/test_runs.js) and of profiling runs         *)
(* (pages/profiling_runs.js), with the callbacks of their views. A list      *)
(* polls the server at a rate that depends on the statuses it shows; the      *)
(* server answers from a cache of the pages of the list. The engine moves     *)
(* the runs on meanwhile.                                                    *)
(*                                                                          *)
(* Runs are numbered in the order they were submitted, and listed the latest *)
(* first.                                                                    *)
(***************************************************************************)
EXTENDS Browser, JobStatus, FiniteSets

CONSTANTS
  Run,       \* the runs there may be, numbers
  PerPage    \* page_size

ASSUME ListsAssumption == Run \subseteq Nat /\ IsFiniteSet(Run) /\ PerPage \in Nat \ {0}

VARIABLES
  list,    \* the page's state in the browser
  timers,  \* the intervals set and not cleared, by their rate
  cache,   \* the pages of the list cached on the server
  pageAsked,   \* the query parameter: the page of the list
  runs     \* the status of each run, or none before it is submitted, gone once deleted

listVars == <<list, timers, cache, pageAsked, runs>>

ListPage == {"testRuns", "profilingRuns"}

\* Mutant: a run that has not started counts as one that is over.
ActiveStarted == {"running", "cancel_requested"}

Starting == {"pending", "claimed"}
Active == Starting \cup {"running", "cancel_requested"}
Cancelable == {"pending", "claimed", "running"}

\* How soon the list is asked for again.
Rate(rows) ==
  LET shown == {rows[r] : r \in DOMAIN rows}
  IN CASE shown \cap Starting # {} -> 6000
       [] shown \cap Starting = {} /\ shown \cap Active # {} -> 30000
       [] OTHER -> 60000

\* Page p of the list, in the database.
StoredRuns(db) == {r \in Run : db[r] \in JobStatuses}

Summaries(p, db) ==
  LET rank(r) == Cardinality({q \in StoredRuns(db) : q > r})
  IN [rows |-> [r \in {s \in StoredRuns(db) : rank(s) \div PerPage = p - 1} |-> db[r]],
      total |-> Cardinality(StoredRuns(db))]

LastPage(total) == IF total = 0 THEN 1 ELSE ((total - 1) \div PerPage) + 1

NoRows == [r \in {} |-> "none"]

-----------------------------------------------------------------------------
(* The browser.                                                             *)

\* Mutant: the interval of the old rate goes on.
RefreshKeptAt(rows, old) ==
  IF old # <<>> /\ old[Len(old)] = Rate(rows) THEN old ELSE Append(old, Rate(rows))

\* One interval, at the rate of the rows that are shown.
RefreshAt(rows, old) ==
  IF old # <<>> /\ old[Len(old)] = Rate(rows) THEN old
  ELSE Append(SubSeq(old, 1, Len(old) - 1), Rate(rows))

Listed(l, p, s) == [l EXCEPT !.rows = s.rows, !.total = s.total, !.pg = p]

\* Mounted, also when the page before it was not torn down: the signal of the
\* old intervals aborts.
Unticked == [ticked |-> {}, deleting |-> NoRows, confirmed |-> FALSE, rows |-> NoRows,
             total |-> 0, pg |-> 1]

ListOpened(s) ==
  /\ list = Listed(Unticked, 1, s)
  /\ timers = RefreshAt(s.rows, <<>>)

Selected == list.ticked \cap DOMAIN list.rows

Tick(r) ==
  /\ r \in DOMAIN list.rows /\ DOMAIN list.deleting = {}
  /\ list' = [list EXCEPT !.ticked = IF r \in @ THEN @ \ {r} ELSE @ \cup {r}]
  /\ UNCHANGED sent

TickAll ==
  /\ DOMAIN list.deleting = {} /\ DOMAIN list.rows # {}
  /\ list' = [list EXCEPT !.ticked = IF Selected = DOMAIN list.rows THEN @ \ DOMAIN list.rows
                                     ELSE @ \cup DOMAIN list.rows]
  /\ UNCHANGED sent

\* The dialog keeps the runs as they were shown when it was opened.
OpenDelete ==
  /\ Selected # {} /\ DOMAIN list.deleting = {}
  /\ list' = [list EXCEPT !.deleting = [r \in Selected |-> list.rows[r]]]
  /\ UNCHANGED sent

HasActive == \E r \in DOMAIN list.deleting : list.deleting[r] \in Active

ConfirmActive ==
  /\ HasActive
  /\ list' = [list EXCEPT !.confirmed = ~@]
  /\ UNCHANGED sent

DeleteClosed(l) == [l EXCEPT !.deleting = NoRows, !.confirmed = FALSE]

CloseDelete ==
  /\ DOMAIN list.deleting # {}
  /\ list' = DeleteClosed(list)
  /\ UNCHANGED sent

ConfirmDelete ==
  /\ DOMAIN list.deleting # {} /\ (HasActive => list.confirmed)
  /\ Emit([op |-> "delete", ids |-> DOMAIN list.deleting, confirmed |-> list.confirmed])
  /\ list' = DeleteClosed(list)

CancelRun(r) ==
  /\ r \in DOMAIN list.rows /\ list.rows[r] \in Cancelable /\ DOMAIN list.deleting = {}
  /\ Emit([op |-> "cancel", run |-> r])
  /\ UNCHANGED list

TurnTo(p) ==
  /\ p # list.pg /\ DOMAIN list.deleting = {}
  /\ Emit([op |-> "page", pg |-> p])
  /\ UNCHANGED list

\* Filters lead back to the first page.
ApplyFilter ==
  /\ DOMAIN list.deleting = {}
  /\ Emit([op |-> "page", pg |-> 1])
  /\ UNCHANGED list

\* The dialog to run tests or a profiling, and its confirmation.
StartRun ==
  /\ DOMAIN list.deleting = {}
  /\ Emit([op |-> "run"])
  /\ UNCHANGED list

\* An interval fires, or the refresh button is pressed.
Poll == timers # <<>> /\ Emit([op |-> "refresh"]) /\ UNCHANGED list

ListUser ==
  \/ \E r \in Run : Tick(r) \/ CancelRun(r)
  \/ TickAll \/ OpenDelete \/ ConfirmActive \/ CloseDelete \/ ConfirmDelete
  \/ \E p \in {1, list.pg - 1, list.pg + 1, LastPage(list.total)} \cap 1..LastPage(list.total) :
       TurnTo(p)
  \/ ApplyFilter \/ StartRun

TestRuns == page = "testRuns" /\ ListUser
ProfilingRuns == page = "profilingRuns" /\ ListUser

-----------------------------------------------------------------------------
(* The server and the engine.                                               *)

\* The run submitted next, while there are any left.
NextRun == {r \in Run : runs[r] = "none" /\ \A q \in Run : q < r => runs[q] # "none"}

\* Deleting cancels what is active; a run cancels if its status allows it.
RunsAfter(e) ==
  CASE e.op = "delete" -> [r \in Run |-> IF r \in e.ids THEN "gone" ELSE runs[r]]
    [] e.op = "cancel" -> [runs EXCEPT ![e.run] = Transition(@, CancelAsked)]
    [] e.op = "run"    -> [r \in Run |-> IF r \in NextRun THEN "pending" ELSE runs[r]]
    [] OTHER -> runs

ClearsCache(e) ==
  \/ e.op \in {"refresh", "delete", "run"}
  \/ e.op = "cancel" /\ RunsAfter(e) # runs

\* A callback, and the run of the script after it.
ServeList ==
  /\ page \in ListPage /\ Take
  /\ LET e == Head(sent)
     IN /\ runs' = RunsAfter(e)
        /\ pageAsked' = (IF e.op = "page" THEN e.pg ELSE IF e.op \in {"delete", "run"} THEN 1 ELSE pageAsked)
        /\ LET kept == IF ClearsCache(e) THEN [p \in {} |-> NoRows] ELSE cache
               s == IF pageAsked' \in DOMAIN kept THEN kept[pageAsked'] ELSE Summaries(pageAsked', runs')
           IN /\ cache' = [p \in DOMAIN kept \cup {pageAsked'} |-> IF p = pageAsked' THEN s ELSE kept[p]]
              /\ list' = Listed(list, pageAsked', s)
              /\ timers' = RefreshAt(s.rows, timers)

\* The engine takes a run on. (JobEngine says how.)
Advance(r) ==
  /\ page \in ListPage
  /\ runs[r] \in DOMAIN ValidTransitions
  /\ \E s \in ValidTransitions[runs[r]] \ {"cancel_requested"} : runs' = [runs EXCEPT ![r] = s]
  /\ UNCHANGED <<sent, list, timers, cache, pageAsked>>

\* The page is left and comes back, torn down or not.
Remount ==
  /\ page \in ListPage
  /\ list' = [Unticked EXCEPT !.rows = list.rows, !.total = list.total, !.pg = list.pg]
  /\ timers' = RefreshAt(list.rows, <<>>)
  /\ UNCHANGED <<sent, cache, pageAsked, runs>>

ListsInit ==
  /\ runs = [r \in Run |-> IF page \in ListPage /\ \A q \in Run : r <= q THEN "pending" ELSE "none"]
  /\ pageAsked = 1
  /\ cache = [p \in {1} |-> Summaries(1, runs)]
  /\ ListOpened(cache[1])

ListsNext ==
  /\ UNCHANGED page
  /\ \/ (TestRuns \/ ProfilingRuns \/ (page \in ListPage /\ Poll)) /\ UNCHANGED <<timers, cache, pageAsked, runs>>
     \/ ServeList \/ Remount
     \/ \E r \in Run : Advance(r)

-----------------------------------------------------------------------------
(* Properties.                                                              *)

\* A run that is still active when it is deleted was confirmed to be canceled
\* in the very dialog that deleted it, although the dialog shows runs as they
\* were when it was opened and the list is refreshed under it.
ActiveConfirmed ==
  [][Take /\ page \in ListPage /\ Head(sent).op = "delete" =>
       \A r \in Head(sent).ids : runs[r] \in Active => Head(sent).confirmed
    ]_<<page, sent, listVars>>

\* Whatever the list shows, one interval runs, as fast as what it shows asks.
OneTimer == page \in ListPage => timers = <<Rate(list.rows)>>

=============================================================================
