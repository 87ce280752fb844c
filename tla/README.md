# TestGen in TLA+

Specifications of DataKitchen TestGen, model-checked with TLC and proved with
TLAPS: the job engine and the cron scheduler on the server, and the pages of the
user interface with the callbacks that answer them. Paths below are relative to
`src/testgen/`; `pages/`, `data_profiling/` and `components/` are directories of
the user interface (`ui/components/frontend/js/` and `ui/static/js/`).

## The system

TestGen profiles databases, generates data quality tests and runs them. All
work is a row of the table `job_executions`; everything else submits such rows,
executes them or reacts to their end.

| Component | State it keeps | Operations | Hard behaviour |
|---|---|---|---|
| job status machine (`common/models/job_execution.py`) | the status of each row | submit, claim, guarded transitions | every writer races every other one; the UPDATE's guard is the only arbiter |
| job engine (`scheduler/cli_scheduler.py`, `commands/exec_job.py`, `commands/job_registry.py`) | batch and `_running_jobs` of the scheduler; one wrapper thread and one subprocess per launched row | poll, dispatch, terminate, supervise, complete, notify, shut down | crashes, orphans, transactions that call back before they commit, signals, failing launches |
| cron scheduler (`scheduler/base.py`, `CliScheduler.get_jobs`) | base time, next triggering time per schedule, reload timer, two events | reload, wait, submit, shut down | reloads racing triggering times, lost events, slow reads, delayed policies |
| job clients (`ui/views`, `api/jobs.py`, `mcp/tools/execution.py`, `commands/job_runner.py`) | none, beside the run record the UI marks as canceled | submit, cancel, delete, wait | deletion of rows whose process works |
| selectable tables: test definitions, results, hygiene issues (`pages/`, `components/table.js`) | ticked rows three times over; filter, sort and page as query parameters | tick, click, sort, filter, page, act on the selection | the table is rebuilt under the selection |
| test definition dialogs | the form and the copy dialog in the browser, their data in the session | add, edit, validate, copy, move | scripts that run again, verdicts on an earlier choice |
| connection form (`components/connection_form.js`) | fields, the connection to submit, the generated URL | edit, test, save | answers to earlier fields, secrets that never reach the browser |
| run lists (`pages/test_runs.js`, `pages/profiling_runs.js`) | ticked rows, an interval, a cache on the server | poll, page, cancel, delete, start | runs that move on under the list |
| schedules (`components/crontab_input.js`, `schedule_list.js`) | fields of the picker, the form, a sample | pick, sample, add, pause, delete | reading back what was written, late samples |
| table groups (wizard, edit dialog, list) | the group being entered, its preview, the step | enter, preview, save, filter, delete | verdicts on an earlier form |
| data catalog (`pages/data_catalog.js`, `components/tree.js`) | the tree, what is ticked, hidden and tagged; its dialogs, twice | search, filter, tick, tag, start profiling, import | hidden nodes, trees made anew, imports confirmed twice |
| test suites (`pages/test_suites.js`) | six dialogs and their session keys | add, edit, delete, export, run, generate | several dialogs asked for at once, two users |
| notification settings | the form, the list, the last result | add, edit, pause, delete | lists older than what they act on |
| score explorer (`pages/score_explorer.js`) | filters and name in the toolbar, query parameters, the stored card | add, choose and remove filters, select columns, save | delayed updates, answers to earlier settings, reused elements |
| monitors dashboard (`pages/monitors_dashboard.js`) | open dialogs, twice; the settings form; the suites of the groups | choose a group, configure, edit, delete | forms that outlive the group they were filled for |
| remaining pages: dashboards, charts, score details, profiling results | what the server computed | show, link | hardly any |
| run-app supervisor (`__main__.py`) | child processes | start, forward signals, terminate siblings | children that exit together |
| test execution, profiling, data characteristics | run records, progress, results | phases, each committed on its own | failure between phases, last run by completion order |
| database service | none | batches of queries, threaded fetch | commit per query, completion order |
| test generation, monitors | test definitions | generate, replace unless locked, sync | concurrent generation, user edits |
| scores and score cards | rollups on runs, suites and groups | update after a run, recalculate | updates out of order, half-done rollups |
| freshness, time series, thresholds | history | exclusion windows, predictions | calendar boundaries |
| sending of notifications | settings | select settings, send | which settings match, thresholds |
| exporter, upgrades, standalone mode | flags, revision number, files | export, upgrade, start a server | batches resent, upgrades interrupted |
| API, MCP, OAuth, permissions | sessions | requests | permissions |

The clients talk to the scheduler only through the table. The scheduler polls it,
starts `testgen exec-job <id>` per claimed row and watches the process from a
thread; the subprocess owns its row from then on and, when a run completes,
enqueues a `run-score-update` row, which comes back the same way. The cron
thread of the same process inserts rows like any other client.

A page of the user interface lives in two places. The browser holds a component
with its own state (VanJS); the server holds query parameters, session keys and
the database. The component emits an event; Streamlit calls the event's callback,
runs the page's script from the top and hands the component new properties,
which it takes up through `van.derive`. Until then the user goes on with what is
on the screen. Whatever exists in both places can drift apart: that is what most of
the properties of the pages are about.

## Modules

| Module | Models |
|---|---|
| `JobStatus` | the status column: valid transitions, the guarded `CASE WHEN` update, the targets of each `mark_` method, the statuses the two queries select |
| `JobProtocol` | the abstract specification: what the engine promises of each row |
| `JobEngine` | clients, scheduler life cycle, poll thread, wrapper threads, subprocesses, callbacks |
| `CronScheduler` | the cron thread, the reload timer, the shutdown |
| `Browser` | the events between the component and the server |
| `DataGrid`, `GridPages` | the selectable table, and the three pages built around it |
| `TestDefinitionDialogs` | the dialogs of the test definitions page |
| `ConnectionForm` | the connection page |
| `RunLists` | test runs and profiling runs; uses `JobStatus` for what the engine does to them |
| `Crontab`, `Schedules` | the schedule picker, and the dialog that uses it |
| `TableGroups` | wizard, edit dialog and list of table groups |
| `DataCatalog` | the tree of the catalog and the tags |
| `CatalogDialogs` | the dialogs of the catalog: details of an item, profiling, imports |
| `TestSuites` | the test suites page and its dialogs |
| `Notifications` | the dialog of notification settings |
| `ScoreExplorer` | the page that puts a score card together |
| `Monitors` | the dashboard of the monitors with its dialogs |
| `Pages` | all of them: one page is open, the state of the others is idle |
| `MCJobEngine`, `MCCronScheduler`, `MCPages` | the instances TLC checks |
| `JobStatus_proofs`, `JobEngine_proofs`, `CronScheduler_proofs` | theorems about the server |
| `Browser_proofs`, `GridPages_proofs`, `Lists_proofs`, `Dialogs_proofs` | the queue of events, the smallest of a set of numbers, and an invariant of each page with its steps; the score explorer is in `GridPages_proofs` |
| `Pages_proofs` | the theorems about the pages |

### JobEngine

A row is a pair of a job and its kind: the client's row, or the score update
the engine enqueues for it. Its variables follow the code: `status`, `key` and
`created` are columns (`created` a rank, since only the order of `created_at`
matters); `run` is the status of the run record the handler keeps; `batch` is
what the poll thread read for the rows it still has to process (their status
when they were claimed, not the current one), `running` is `_running_jobs`;
`wrap` and `proc` are the program counters of a row's wrapper thread and
subprocess; `notified` counts the rounds of notifications.

An action is a committed transaction or one step of a thread. Where the code
calls back before it commits (`_handle_cancellation`, `_proc_wrapper`) the
transaction is split: *marked* (the UPDATE is done, the row lock held),
*notified* (the callbacks are done), committed. `Locked` keeps the other
writers out in between, and `SKIP LOCKED` keeps the row out of a claim. In the
subprocess the callbacks follow the commit, so nothing is locked there.

What dies with the scheduler process is reset by `Crash`; the subprocesses run in
sessions of their own and survive it, as the rows do. Faults are actions, one
per kind: `crash`, `signal`, `kill` (a subprocess dies), `popen`, `thread` (the
wrapper thread cannot be started) and `txn` (a transaction fails; when it is a
query of a callback that fails, the exception is swallowed and the commit of
the aborted transaction is a silent rollback).

Simplifications: `run-profile` and `run-tests` behave alike here and share a
key; a job is submitted at most once, by any of the clients; the test of
`exec_job` for unknown keys is left out, since the dispatcher has made it on
the same registry; one scheduler process at a time, as the deployment has it.

### CronScheduler

Time is a counter of ticks, three to a minute: the first is :00, when schedules
trigger, the last one :50, when the reload timer fires. `Slow` names the steps
of the thread that may take longer than a tick; all others happen before the
clock moves on. `Every` stands for the cron expressions. The production code
only uses the policy SKIP; ALL and ONCE are part of the base class and its
tests, and have a run of their own. `since` is a history variable for
`TableFollowed`.

### The pages

`sent` holds the events that were emitted and not handled yet. A handler in the
browser is an action that changes the component's state, and everything derived
from it, in one step, and may append an event; `Serve...` takes the oldest event,
applies its callback to the server's state and delivers the properties of the
script's next run. Streamlit handles the events of a session one at a time and in
order; nothing else is assumed of when. Elsewhere means another user or the
engine: an edit of the same suite, a run that advances, a profiling that finds a
column.

- *GridPages.* `ui` is the component: `chk` the rows ticked in the table now
  shown, `restore` the ids the page keeps beside it, `hl` the highlighted rows,
  `all` the state of "select all". `server` holds the query parameters (filter,
  sort, page, size), the selected row, and the rows; `marked` stands for the
  attribute the page sets on rows. `BuildRows`, `RowsSelected` and `Delivered`
  are the derivations in their order.
- *TestDefinitionDialogs.* `form` is the dialog in the browser and `entered` the
  user's input, a history variable; `copy` and `session` are the two halves of the
  copy dialog, `suiteOf` the tests of the target suites.
- *ConnectionForm.* `connection` holds the fields, the connection that would be
  submitted, and the URL once as typed and once as generated. `saved` is the row of the
  stored connection, `fetched` the copy of it in the server's cache. The script assigns
  what an event submits (`Assigned`) to that copy or, when there is none, to the row,
  where the end of the run commits it whichever event it was.
- *RunLists.* `timers` are the intervals that are set, a bag in the form of a
  sequence of rates; `cache` maps a page of the list to what was read for it; runs
  move along the transitions of `JobStatus`.
- *Crontab.* A field of an expression is any value, every n-th, or a list; `shown`
  is the expression, `editor` the fields of the picker's mode.
- *TableGroups.* `dialog` is the scene in the browser, `groups` the session, whose
  values are read once by the next run of the script.
- *DataCatalog.* `tree` holds the nodes with their tags as delivered, what is
  ticked, hidden and filtered, and the card of the selected item; `catalog` the
  stored tags and the cached columns.
- *TestSuites.* `desk` holds the six dialogs in the browser, `suites` the stored
  suites, the copies of them that the cache holds and the session keys that open dialogs;
  its `past` is a history variable. The form shows a copy, and saving it writes what
  differs from the copy. A script that fails leaves the page `broken`.
- *Notifications.* `panel` is the form with the data it was given; `notices` the
  stored notifications, the cached copies and the last result. A change writes what
  differs from a copy.
- *ScoreExplorer.* `explorer` is the toolbar: the filters with the position each was
  drawn at, the name as typed and as settled, the update that is `due`; `params` are the
  query parameters, `stored` the score card. `Derived` is what the toolbar derives from
  any change, `Redefined` what it takes up from a run of the script.
- *Monitors.* `board` is what the last run delivered (group, suite, the data of each
  dialog), which dialogs are open, and the settings form with the suite it was filled
  from; `monitors` the group chosen, the session keys, a save that is left in the
  session, and the suites. Callbacks are about what the last run delivered, and one that
  it did not register is not called (`BoardHears`). A suite keeps its number; a group
  whose monitors are configured again gets a new one. `Elsewhere` is another user.
- *CatalogDialogs.* `boxes` holds the data and the dialogs that are open, how blank cells
  are to be read, and the timers that close an import that succeeded; `kept` the session
  and how often each uploaded file was imported. A file is parsed as matching, as
  matching nothing or as broken, whichever the file is.

The cache of the server (`Entity.get`, `select_where`, `st.cache_data`) has no expiry, is
common to all sessions, and is emptied as a whole when any of them loads or leaves a page
or runs again (`ui/navigation/router.py:29`, `ui/services/rerun_service.py:18`). Where a
module keeps copies, each event is therefore served either with the copies as they are or
with none.

Names, comments, layout and formatting of what is shown are left out; of several
fields that are treated alike, one or two are kept.

## What is checked

| Run | Question | Instance |
|---|---|---|
| `engine_faults` | launched once, scores after completion, run record agrees with the row, implements `JobProtocol` | one job with a known or an unregistered key, all kinds of fault, three faults |
| `engine_shutdown` | an error means the process is over; nothing is left behind by an orderly shutdown; notified at most once | one job, signals, kills, failing launches, three faults |
| `engine_live` | every job settles, every completed run is scored, a shutdown ends | one job, crashes, signals, kills and failing launches, two faults, fair |
| `engine_queue` | no starvation, also behind a job that hangs; a cancellation stops that one | two jobs, one handler hangs, batch of one, fair |
| `cron_prompt` | exactly while active; shutdown wakes the thread | two schedules, four minutes, two edits, a crash or a signal |
| `cron_slow` | once and in order with late times too, ALL leaves no gap, the next reload is ahead | one ALL and one ONCE schedule, five minutes, a slow thread, failing reads |
| `pages` | what browser, session and database keep stays in step, on every page | each of twenty pages or dialogs, one or two unanswered events |

The run `pages` has twenty-one properties:

| Page | Property | It fails when |
|---|---|---|
| tables | `CheckmarksAgree` | the highlights, the ticks and the ids kept for later differ |
| | `PickedKept` | a rebuilt table loses a tick |
| test definitions | `EditsKept` | a validation resets what was entered since |
| | `OverwritesTarget` | a copy overwrites tests that collide with an earlier target only |
| connection | `UrlEditsKept` | a generated URL replaces one typed by hand |
| | `SaveKeepsPassword` | a save erases a password that was not touched |
| run lists | `OneTimer` | an interval is left behind, or has the wrong rate |
| | `ActiveConfirmed` | an active run is deleted without its confirmation |
| schedules | `ReopenKeeps` | the picker reads back something else than it wrote |
| | `SampleInStep` | the next runs shown are those of another expression or zone |
| table groups | `PreviewInStep` | the preview shown is that of another form |
| | `GroupsFiltered` | the list ends with a filter other than the last one set |
| catalog | `SelectionInStep` | a bulk edit is about something other than what is ticked |
| | `BoxesFollow` | a dialog stays that the session closed, or the reverse |
| | `ImportedOnce` | a second confirmation imports the same file again |
| test suites | `OwnSettingsShown` | a form filled by several answers shows, and saves, the settings of another suite |
| | `LockTold` | tests are generated over edits and no warning was shown |
| notifications | `DeletedNotEdited` | the form edits what was deleted |
| score explorer | `ToolbarInStep` | a save would store other filters, another name or mode than the toolbar shows once nothing is on its way |
| monitors | `DialogsFollow` | a dialog stays that the session closed, or the reverse |
| | `OwnSettingsKept` | a form that outlives its group writes the settings of another one |

Three more hold in every instance, as `Pages_proofs` shows, and no run repeats them:
`EditSavesVerified` (the dialog that edits a table group stores only groups that
show tables), `HiddenUntouched` (ticking a table ticks no column out of sight) and
`SetKept` (no answer resets the chosen generation set).

**Bounds.** A row only ever interacts with its own score update and, through the
batch, with rows ahead of it, so two jobs and a batch of one show every
interleaving of a queue: the second row waits, the batch is full, `skip_wait` is
set. A batch of one is the worst case for starvation; the code's limit is 5.
Three faults allow a crash, a second failure during the recovery, and one more.
Two schedules, with periods of one and two minutes, share every second
triggering time; the clock covers several minutes, since the state of the
thread after a reload only depends on the last triggering time.

The pages are independent, so `Pages` opens one of them for good and its state
space is the sum of theirs, about 3 million states. `MaxSent` is 2 events where a
late answer can meet a later one of the user's, and 1 where the state is large
(the tables of tests, results and issues, the run lists, the tree of the catalog): there the
user can still do anything before the one answer comes, and what two answers could do beyond
that is proved, for every `MaxSent`. Two rows on pages of one or two rows
give the table a page out of sight and a filter that hides a row. Two runs on pages
of one give a cached page that is stale. Three tests collide with two targets.
`MaxEdits` (3), `MaxPicks` (3), `MaxSaves` and `MaxRows` (1) bound what the user does
in a form. Three edits of a connection are a typed URL between two changes of what a URL is
generated from, or a save between two changes of a password; the two
properties of that form are proved whatever the bound is. `MaxChanges` (4) is what the score explorer needs for a filter
that is added and set while the answer to an earlier change is still to come; what its
dialog hands over are columns, never a whole table group (`PicksAssumption`).
Two table groups and two suites (`MaxSuites`) give the dashboard of the monitors a form
about another group than the one shown, and a suite made anew after one was deleted;
two uploads (`MaxUploads`) give a file confirmed while the preview of another is on its way.

**Fairness.** `EngineFairness` assumes that the threads of the scheduler and the
engine's part of a subprocess keep running, and that a scheduler that is gone is
started again (`restart: always` in `docker-compose.yml`). It assumes nothing of
the clients or of faults. `FairSpec` adds that handlers end, except those of the
jobs in `Hanging`: a handler may wait for its target database for ever, and no
timeout in the code stops it. All of it is weak fairness: no thread is kept
waiting by a lock for ever, since the transactions that hold one are steps of
fair threads.

The pages assume no fairness: a user may walk away, and their properties are safety
only. `pages.cfg` does not check deadlock, since a form whose edits are used up may
stop.

Assumptions of single properties: `CompletedIsScored` excludes a subprocess that
is killed between its commit and its callbacks, `NotifiedAtMostOnce` a commit
that fails, or a scheduler that dies, after the callbacks, and
`ErrorMeansStopped` a wrapper thread that cannot be started: the row is then
forced to `error` while the process is alive, and its completion is refused
(the comment at `scheduler/cli_scheduler.py:118` expects otherwise).
`TableFollowed` needs a thread that keeps up and reads that succeed,
`ReloadAhead` a read that ends before the timer fires.

## Where the texts and the code disagree

| Run | Text | Code |
|---|---|---|
| `delete_stops_process` | the dialog: "Any running processes will be canceled." (`ui/components/frontend/js/pages/test_runs.js:265`) | the request and the deletion commit together, nothing stops the process |
| `reload_ahead_slow_load` | "Scheduling the next reload" (`scheduler/cli_scheduler.py:46`) | a timer that fires while the table is read is erased |
| `saved_closes_form` | "The ever-changing "idx" is useful to force refreshing the component" (`ui/views/dialogs/manage_notifications.py:53`) | the counter starts again with every run of the script, so the result of saving twice is the same and the form stays open |
| `stored_password_kept` | a password that was not entered is left as it is: `is_pristine` (`ui/views/connections.py:101`), and the field says "<hidden for safety reasons>" (`ui/static/js/components/connection_form.js:76`) | an edit that changes the connection string submits it empty, and when nothing is cached, as after each save, the script assigns that to the row itself (`ui/views/connections.py:176`) and the end of the run commits it (`ui/app.py:93`): the password is gone, though nobody saved |
| `removes_its_own` | the button `explorer-filter-remove` is drawn in each filter (`ui/components/frontend/js/pages/score_explorer.js:506`) | it acts on the position the filter was drawn at: after an earlier one was removed, it removes another filter or none |

## What is proved

### The engine

For all jobs, client keys, batch sizes, faults and bounds on them
(`EngineAssumption`, which only gives the constants their types):

- `TypeCorrect`: the type invariant.
- `LaunchedOnce`: no row is launched twice.
- `ScoresFollowCompletion`: a score update implies a committed completion.
- `CompletedHasRecord`: a completed job has a complete run record.
- `ErrorsAreOver`: an error is recorded only for a job whose process is over, under
  any faults but `thread`.
- `NotifiedOnce`: no job is notified twice, under any faults but `crash` and `txn`.
- `ShutdownIsClean`: an orderly shutdown leaves no process and no row that claims
  one, under any faults but those three.
- `EngineImplementsProtocol`: the engine implements `JobProtocol`.
- `FinalIsAbsorbing` (`JobStatus_proofs`): no method of the model moves a final
  or a deleted row.

They rest on the inductive invariant `IInv` of `JobEngine_proofs`. `OneLaunch`
alone is not inductive: that a claim picks a row without a process needs that a
row with one is no longer pending (`Fresh`), and that two rows of a batch are
never the oldest one at once needs distinct ranks (`Ranks`). Likewise
`ScoreAfterCompletion` needs that a subprocess at `notifyCompleted` or `enqueue`
has a completed row (`Scored`). Each action has a step of its own; `JobStatus_proofs`
supplies what a transition can do to a status. The refinement then takes
the same steps through `RowStep`. `CompletedRunIsComplete` is carried by
`RecordInv`: while a row is still "running" a saved record cannot have been
overwritten, because a cancellation moves the row in the transaction that marks
the record (`Saved`), and nothing launches a completed row again (`Decided`,
which needs `OneLaunch`).

The last three theorems rest on what the parties know of each other. `Stopped`: a
wrapper thread past `proc.wait()` has seen its process end, and a row in the batch
has none. `Told`: a notified row is final, or the transaction that notified it is
still open, and then no other one is. `Emptied` and `Watched`: the poll thread
leaves no row in its batch and the interpreter no thread; a claimed or running row
is in the batch or with a wrapper thread that has yet to decide it. Each theorem
excludes only faults that can break its property.

### The cron scheduler

For all schedules, periods and policies, any clock and, but where it says so, any
delays:

- `CronTypeCorrect`: the type invariant.
- `SubmitsInOrder`: nothing is submitted twice, out of order or ahead of time.
  The invariant `OrderInv` relates the log to `base_time`: the times submitted
  are behind it, except those of the round under way, and the next triggering
  time of every schedule is not. It survives reloads since `base_time` does.
- `ShutdownNeverSleeps`: once `_stopping` is set no round is begun, so the event
  set next is not cleared before the thread has looked at it.
- `ReloadNeverLost`: the next reload is always ahead, under the assumption that
  no read of the table outlasts a tick of the clock (`"loading" \notin Slow`).
  The run `reload_ahead_slow_load` shows that the assumption is needed.
- `CatchesUp`: with the policy `ALL` no triggering time between two submitted ones is
  left out, while the table is not edited (`MaxEdits = 0`) and the scheduler is
  neither killed nor told to stop. `GapInv`: `base_time` is not beyond the triggering
  time that is due after the last one submitted, and where that schedule is loaded,
  it is what its generator yields next. An edit may pause a schedule for a while, and
  a restart begins at the present, so both leave times out.
- `FollowsTheTable`: an edit of the table is obeyed within a minute, across edits,
  crashes and shutdowns, if the thread keeps up (`Slow = {}`) and reads of the table
  succeed. `Prompt` ties each minute of the clock to one reload, `LoadedTable` says
  which edits the loaded jobs may lack, and `NothingMissed` that of a loaded job no
  triggering time before its head is left; at the tick of a reload times may be late
  (`LateAtReload`). A slow thread or a failed read delays obedience as long as it lasts.

### The pages

For any rows, filters, runs, tests, connections, schedules, tables and columns,
groups, suites, monitors, dialogs and notifications, and any bounds on the events unanswered. `PagesInv` in `Pages_proofs` conjoins an invariant
per page:

- `SelectionAgrees`, `SelectionSurvives`: `GridInv`. That the
  copies agree is not inductive alone: `RowsSelected` adds the highlighted rows to
  the selection, so a row of an earlier page must never be highlighted (`Agree`).
  The two lemmas about `BuildRows` and `RowsSelected` carry the steps.
- `OneIntervalRuns`, `DeletionsConfirmed`: `ListInv`. A status that was read, be it
  in the list, the cache or an open dialog, is followed by valid transitions only
  (`Onward`), so what was read as final is not active (`RowsKnown`), and neither is
  what an unconfirmed deletion on its way names (`Covered`). It uses `TransitionTable` of
  `JobStatus_proofs`.
- `BulkEditInStep`, `HiddenNeverTicked`: `TreeInv`; with one item to select nothing is
  ticked, so that switching to several starts from nothing.
- `EditsVerified`: `EditInv`; the server tests the group itself before it stores it.
- `DeletionEndsEditing`: `NoticesInv` and `PanelInv`. While the last action succeeded, what is edited is
  in the list; so a deletion whose data equal those before it deleted nothing that is
  edited, and any other answer ends the editing.
- `FormEditsKept`: `FormInv`; an answer for an open form leaves its values.
- `OnlyTargetOverwritten`: `CopyInv`. A copy is emitted after the question about its
  target (`Follows`), so in the queue the event before it is that question, about the
  same target and at least the same tests, and when the copy is first in the queue
  the session holds the answer (`Chain`).
- `TypedUrlKept`, `SavesKeepPassword`: `ConnectionInv`, that the form and the connection
  it would submit have one URL, and that only types with a key submit one (`Keyed`). A save
  leaves an empty password out, so it is not among what differs from the copy, however old
  that is. The run `stored_password_kept` shows that of edits the same is
  not true.
- `ScheduleSampleInStep`, `GroupListFiltered`: the last event that asks for a sample, or a
  filter, asks for what the form has, or none is under way and the server has it
  (`LastAsked` in `Browser_proofs`, with a lemma for an event emitted and one served).
- `WizardPreviewInStep`: `WizardInv`; what the wizard shows is what it was told last, and
  the last event under way, if any, previews the group as it is (`PreviewAsked`).
- `FormShowsOwnSettings`, `LocksTold`, `PickedSetKept`: `SuitesInv`; every form is what was
  shown for the suite in its `info` (`FormTold`, `GenerationTold`), until the script
  fails for a suite that is gone, and a copy in the cache is what the suite was set to at
  some time (`SettingsKept`), also when the suite is written or deleted after it was read.
- `MonitorDialogsFollow`, `SettingsKeptApart`: `MonitorsInv`. A dialog whose data were
  delivered is one the session holds open, and one of them that is not on the screen has
  its close under way, where the next run hears it; a form names a suite that was made, so what it writes never is the suite that comes next.
- `CatalogDialogsFollow`, `FilesImportedOnce`: `BoxesInv`. The data on the screen are those
  of the session, a dialog out of sight has its close under way, and the file that was
  parsed last has not been imported yet.
- `ToolbarKept`: `ToolbarInv`. A toolbar that shows something other than the definition has
  an update due that asks for something else, or an event under way that will
  (`BarReaches`), which then replaces what the toolbar has; a name that is not the
  definition's is due or was sent last (`NameSent`). So the answer to an earlier change,
  equal to the definition before it, may be skipped. It is proved under `ColumnsTold`:
  columns that are selected are told from filters by fields. Without it the toolbar may
  keep elements of the other kind (see below). What `Given` makes
  of a list is proved by induction over its length (`GivenAll`, `GivenSome`), with
  `SmallestOne` in place of the induction theorem.

- `ReopeningKeeps`: `PickerInv`, that outside the custom mode the picker has handed on
  what its fields say, which alone is what `WrittenAgain` is about: an expression
  written from fields is read by some mode, not always the one that wrote it, that
  writes the same expression. Its steps: the first two values of a list that was made
  from a start and a step, and its last, say which list it was (`SteppedFacts`,
  `SteppingBack`); a list of one hour is read as a daily schedule, one of one day by
  no mode; the longest runs of consecutive days give the days back (`RangesBack`).
  The expressions typed are those cron admits (`CrontabAssumption`).

`Browser_proofs` has the lemmas about the queue of events: what is taken was emitted,
so a property of events that holds when they are emitted holds when they are served.
`Lists_proofs` and `Dialogs_proofs` show that each page keeps its invariant; in
`Pages_proofs` one page is open and the others stutter.

### Only model-checked

The liveness properties `JobSettles`, `CompletedIsScored`, `CancelStopsProcess` and
`ShutdownEnds`, which are out of the prover's reach. Every invariant and action property
of the passing runs is proved.

## Seen while modelling, and not a property

The model has these, as the code does; no run is about them.

- Select all takes over when as many rows are ticked as match, also when the ticked
  ones are hidden by the filter (`pages/test_results.js:459`).
- A list of hours typed by hand is rewritten when the picker opens: 8,12 becomes
  8,12,16,20 (`components/crontab_input.js:474`).
- Any success ends the editing of any notification (`components/notification_settings.js:113`).
- A suite deleted by another user, while a session keeps it as the one to edit or
  generate for, is shown for as long as it is in the cache; once it is not, every run of
  that session's script fails (`ui/views/test_suites.py:78`).
- The form of a test suite that is opened again after a save shows the settings before it,
  as long as the copy is in the cache, which the save does not clear
  (`ui/views/test_suites.py:79, 328`). Saved untouched it writes nothing, and going back to
  the settings of the copy writes nothing either, with "Changes have been saved
  successfully." (line 329).
- A notification that is paused and then resumed from one cached copy stays paused, since
  only what differs from the copy is written (`ui/views/dialogs/manage_notifications.py:64`);
  the action is a success nevertheless.
- An edit of a connection that is committed without a save (`stored_password_kept`) leaves
  the cached copy older than the row: a save that goes back to what the copy has writes
  nothing and is reported as saved (`ui/views/connections.py:189`).
- The card of a column turns an absent PII flag into `false` and saves all its tags,
  whichever was edited (`data_profiling/metadata_tags.js:93`). The text column then holds
  "false" (`ui/views/data_catalog.py:619`), and whatever is not NULL is PII
  (`common/pii_masking.py:23`), although the choice for no PII is `null`
  (`data_profiling/metadata_tags.js:40`).
- Of a job whose callback fails in the transaction of its final status, the row is rolled
  back without a word and stays as it was until a restart (`commands/job_registry.py:52`).
- A bulk edit always includes the tables of the ticked columns, whose other columns
  inherit the tag (`data_profiling/metadata_tags.js:385`).
- The consent to delete, once ticked, stays ticked for the next suite
  (`pages/test_suites.js:57`) or group (`pages/table_group_list.js:355`).
- The callbacks of a final status run before the poll or wrapper thread commits it, while
  `commands/job_registry.py:48` speaks of an execution that is final already.
- Saving a score card stores the query parameters: a change made within the debounce
  time of 300 ms is not in it (`views/score_explorer.py:359`). A filter without a value
  is lost when the answer to an earlier change arrives (`pages/score_explorer.js:279`).
- A whole table group that is selected in the dialog of the columns cannot be told from a
  filter by `table_groups_name` (`components/explorer_column_selector.js:165`). If the
  toolbar has that filter already, it keeps the element (`pages/score_explorer.js:278`)
  and filters by columns from then on; another value chosen in it opens the list of
  fields and sends nothing (line 257), so a save stores the value before. TLC finds this
  with five changes when such a selection is among `Picks`; `ColumnsTold` excludes it.
- Applying columns makes the toolbar ask for the dialog again, which has just been
  closed (`pages/score_explorer.js:254`).
- The filters of the tree are not applied to a tree that was made anew
  (`components/tree.js:349`).
- The settings form of the monitors stays when another group's data arrive
  (`pages/edit_monitor_settings.js:57`). Saved then, the database refuses the suite's
  identity, or, if it was filled for a group without monitors, the new suite carries that
  group's name and is made for the group now shown. A form whose suite was deleted
  meanwhile inserts it again, without a group.
- A save for a group without monitors is kept in the session under the key `None`
  (`ui/views/monitors_dashboard.py:618`): if it is not used, the next group without
  monitors is configured with it as soon as its settings are opened.
- The monitors deleted are those of the group of the script's last run, which need not be
  the one shown when the deletion was confirmed (`ui/views/monitors_dashboard.py:683`).
- The import dialog is built anew when data arrive or a file is chosen, so the choice for
  blank cells returns to "keep" although "clear" was sent
  (`pages/import_metadata_dialog.js:62`). Closed while a file is parsed, it comes back
  empty, since it only ever opens (`pages/data_catalog.js:106`).
- The timer that closes an import after its success closes the dialog that is open by
  then; and a file uploaded after the confirmation of another may be imported before its
  preview was seen (`ui/views/data_catalog.py:198`).
- Profiling started by a double click is submitted twice (`components/run_profiling_dialog.js:32`).

## Next

In order of importance.

1. `RunApp`: the supervisor, its signals and its children.
2. `TestRun`: the phases of test execution and profiling, concurrent runs of one
   suite, `last_complete_test_run_id`; refines the run record of `JobEngine`.
3. `ThreadedQueries`, `ScoreRollup`, `DataChars`, `Freshness`.
4. The score details and profiling results, the pages with the most state among those left.

## What is not modelled

SQL templates and what the target databases compute, statistics over floats,
authentication, encryption, PII masking and the embedded PostgreSQL server are
outside these specifications: they are data, libraries or I/O. Of the pages, drawing
and formatting are left out, and the dashboards, charts, score details and profiling
results as a whole: they show what the server computed. Left out of pages that are
modelled: exports, the BigQuery form and the set-up of a project in the
connection form, the score with its breakdown, issues and checkboxes in the score
explorer, entries of the cache that expire by time, what the details of a column show,
the removal of dropped tables in the catalog, the tests edited per table and the charts
of the monitors, and the set-up of monitors in the wizard, which is one choice.
The other components without a module are in `PROJECT.json`, each with its reason.
