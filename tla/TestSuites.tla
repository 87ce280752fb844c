----------------------------- MODULE TestSuites -----------------------------
(***************************************************************************)
(* The test suites page (pages/test_suites.js): the form that adds and edits *)
(* a suite, the dialogs that delete, export, run and generate its tests      *)
(* (generate_tests_dialog.js, run_tests_dialog.js), and their callbacks in    *)
(* views/test_suites.py. Which dialogs are open is kept in the session on the *)
(* server; the page keeps what the user does in them.                         *)
(***************************************************************************)
EXTENDS Browser

CONSTANTS
  Suite,         \* the suites there can be
  Setting,       \* the values of the settings of a suite
  BlankSetting,  \* those of the form of a new suite
  GenerationSet, StandardSet,
  NoSuite

ASSUME SuitesAssumption ==
  BlankSetting \in Setting /\ StandardSet \in GenerationSet /\ NoSuite \notin Suite

VARIABLES
  desk,     \* the page and its dialogs
  suites    \* on the server: the suites, copies of them in its cache, the
            \* session of the page; "past" is what a suite was ever set to

suiteVars == <<desk, suites>>

Suites == page \in {"suites", "suiteTests"} /\ ~desk.broken

\* The two halves of the page, explored apart: what changes the list, and what
\* a suite is used for.
ListHalf == page = "suites"
TestsHalf == page = "suiteTests"

\* What a dialog gets while there is none for it.
NoInfo == [suite |-> NoSuite]

\* Nothing else is reached while a dialog is open.
FormOpen == desk.form.open /\ desk.form.info # NoInfo
DeleteOpen == desk.deletion.open /\ desk.deletion.info # NoInfo
GenerateOpen == desk.generation.open /\ desk.generation.info # NoInfo
RunOpen == desk.run.open /\ desk.run.suite # NoSuite

AtList ==
  Suites /\ ~FormOpen /\ ~DeleteOpen /\ ~GenerateOpen /\ ~RunOpen /\ desk.export = NoSuite

DialogAsked(op, s) == AtList /\ Emit([op |-> op, suite |-> s]) /\ UNCHANGED desk

-----------------------------------------------------------------------------
(* The list.                                                                *)

AddClicked == ListHalf /\ DialogAsked("add", NoSuite)
EditClicked == ListHalf /\ \E s \in desk.list : DialogAsked("edit", s)
DeleteClicked == ListHalf /\ \E s \in desk.list : DialogAsked("delete", s)
RunClicked == TestsHalf /\ \E s \in desk.list : DialogAsked("run", s)
GenerateClicked == TestsHalf /\ \E s \in desk.list : DialogAsked("generate", s)

\* The export is asked for without the server.
ExportClicked == TestsHalf /\ \E s \in desk.list : AtList /\ desk' = [desk EXCEPT !.export = s] /\ UNCHANGED sent

StartExport ==
  /\ Suites /\ desk.export # NoSuite
  /\ desk' = [desk EXCEPT !.export = NoSuite]
  /\ Emit([op |-> "startExport", suite |-> desk.export])

CloseExport ==
  /\ Suites /\ desk.export # NoSuite
  /\ desk' = [desk EXCEPT !.export = NoSuite]
  /\ UNCHANGED sent

-----------------------------------------------------------------------------
(* The form. It is filled each time the server sends another one.           *)

TypeSetting ==
  /\ Suites /\ FormOpen
  /\ \E v \in Setting : desk' = [desk EXCEPT !.form.value = v, !.form.typed = TRUE]
  /\ UNCHANGED sent

\* A name, of a suite there never was: a second suite of a name would be another.
TypeSuite ==
  /\ Suites /\ FormOpen /\ desk.form.info.mode = "add"
  /\ \E s \in {n \in Suite : suites.past[n] = {}} : desk' = [desk EXCEPT !.form.suite = s]
  /\ UNCHANGED sent

SaveForm ==
  /\ Suites /\ FormOpen /\ desk.form.suite # NoSuite
  /\ Emit([op |-> "save", mode |-> desk.form.info.mode, suite |-> desk.form.suite,
           value |-> desk.form.value])
  /\ UNCHANGED desk

CloseForm ==
  /\ Suites /\ FormOpen
  /\ desk' = [desk EXCEPT !.form.open = FALSE]
  /\ Emit([op |-> "closeForm", suite |-> NoSuite])

-----------------------------------------------------------------------------
(* Deletion. The toggle is turned off when the dialog is closed.            *)

AgreeToDelete ==
  /\ Suites /\ DeleteOpen /\ desk.deletion.info.inUse
  /\ desk' = [desk EXCEPT !.deletion.agreed = ~@]
  /\ UNCHANGED sent

DeleteSuite ==
  /\ Suites /\ DeleteOpen /\ (desk.deletion.info.inUse => desk.deletion.agreed)
  /\ desk' = [desk EXCEPT !.deletion.open = FALSE, !.deletion.agreed = FALSE]
  /\ Emit([op |-> "deleteConfirmed", suite |-> desk.deletion.info.suite])

DismissDelete ==
  /\ Suites /\ DeleteOpen
  /\ desk' = [desk EXCEPT !.deletion.open = FALSE, !.deletion.agreed = FALSE]
  /\ Emit([op |-> "dismissDelete", suite |-> NoSuite])

-----------------------------------------------------------------------------
(* Runs and generation. Their buttons are gone once there is a result.       *)

RunTests ==
  /\ Suites /\ RunOpen /\ desk.run.suite \in desk.list /\ desk.run.result = "none"
  /\ Emit([op |-> "runTests", suite |-> desk.run.suite]) /\ UNCHANGED desk

\* "Go to Test Runs" leaves the page.
CloseRun ==
  /\ Suites /\ RunOpen
  /\ desk' = [desk EXCEPT !.run.open = FALSE]
  /\ Emit([op |-> "closeRun", suite |-> NoSuite])

PickSet ==
  /\ Suites /\ GenerateOpen
  /\ \E g \in GenerationSet : desk' = [desk EXCEPT !.generation.set = g]
  /\ UNCHANGED sent

LockEdited ==
  /\ Suites /\ GenerateOpen /\ desk.generation.info.tests = "edited" /\ desk.generation.info.lock = "none"
  /\ Emit([op |-> "lock", suite |-> NoSuite]) /\ UNCHANGED desk

GenerateTests ==
  /\ Suites /\ GenerateOpen /\ desk.generation.info.result = "none"
  /\ Emit([op |-> "generateTests", suite |-> desk.generation.info.suite, set |-> desk.generation.set])
  /\ UNCHANGED desk

CloseGeneration ==
  /\ Suites /\ GenerateOpen
  /\ desk' = [desk EXCEPT !.generation.open = FALSE]
  /\ Emit([op |-> "closeGeneration", suite |-> NoSuite])

-----------------------------------------------------------------------------
(* The server: callbacks.                                                   *)

\* TestSuite.get: the row is read once and a copy of it kept, until the cache is
\* cleared.
Loaded(s, n) ==
  IF n \notin s.there \/ n \in s.loaded THEN s
  ELSE [s EXCEPT !.loaded = @ \cup {n}, !.copy[n] = s.setting[n]]

CacheCleared(s) == [s EXCEPT !.loaded = {}, !.copy = [n \in Suite |-> BlankSetting]]

Stored(s, n, v) == [s EXCEPT !.setting[n] = v, !.past[n] = @ \cup {v}]

\* What the form holds is assigned to the copy, and only what differs from it is
\* written. The copy stays, for the summaries alone are read again.
FormStored(s, e) ==
  LET t == Loaded(s, e.suite)
  IN IF e.value = t.copy[e.suite] THEN t ELSE Stored(t, e.suite, e.value)

\* A second suite of a name is not told from the first.
SuiteSaved(s, e) ==
  IF e.mode = "edit" THEN [FormStored(s, e) EXCEPT !.edit = NoSuite]
  ELSE IF e.suite \in s.there THEN [s EXCEPT !.add = FALSE]
  ELSE [Stored(s, e.suite, e.value) EXCEPT !.there = @ \cup {e.suite}, !.add = FALSE]

\* Nothing is deleted while a process uses it.
Deleted(s, n, busy) ==
  LET t == [s EXCEPT !.delete = NoInfo]
  IN IF busy THEN t ELSE [t EXCEPT !.there = @ \ {n}, !.tests[n] = "none", !.setting[n] = BlankSetting]

\* All the edited tests of the suite of the session.
EditsLocked(s) ==
  LET t == IF s.generate = NoSuite THEN s
           ELSE [s EXCEPT !.tests[s.generate] = IF @ = "edited" THEN "locked" ELSE @]
  IN [t EXCEPT !.lock = "locked"]

\* The tests that are not locked are made again, or something fails.
TestsGenerated(s, n, fails) ==
  IF fails THEN [s EXCEPT !.generated = "failed"]
  ELSE [CacheCleared(s) EXCEPT !.tests[n] = IF @ = "locked" THEN @ ELSE "auto", !.generate = NoSuite, !.generated = "none", !.lock = "none"]

Called(s, e, fails) ==
  CASE e.op = "add" -> [s EXCEPT !.add = TRUE]
    [] e.op = "edit" -> [s EXCEPT !.edit = e.suite]
    [] e.op = "delete" -> [s EXCEPT !.delete = [suite |-> e.suite, inUse |-> s.tests[e.suite] # "none"]]
    [] e.op = "run" -> [s EXCEPT !.run = e.suite]
    [] e.op = "generate" -> [s EXCEPT !.generate = e.suite]
    [] e.op = "startExport" -> s
    [] e.op = "save" -> SuiteSaved(s, e)
    [] e.op = "closeForm" -> [s EXCEPT !.add = FALSE, !.edit = NoSuite]
    [] e.op = "deleteConfirmed" -> Deleted(s, e.suite, fails)
    [] e.op = "dismissDelete" -> [s EXCEPT !.delete = NoInfo]
    [] e.op = "runTests" -> [s EXCEPT !.ran = IF fails THEN "failed" ELSE "started"]
    [] e.op = "closeRun" -> [s EXCEPT !.run = NoSuite, !.ran = "none"]
    [] e.op = "lock" -> EditsLocked(s)
    [] e.op = "generateTests" -> TestsGenerated(s, e.suite, fails)
    [] e.op = "closeGeneration" -> [s EXCEPT !.generate = NoSuite, !.generated = "none", !.lock = "none"]

(* The server: what a run of the script sends.                              *)

\* It reads a suite to edit.
Read(s) == IF s.add \/ s.edit = NoSuite THEN s ELSE Loaded(s, s.edit)

\* Adding comes before editing. The form shows the copy.
FormInfo(s) ==
  IF s.add THEN [suite |-> NoSuite, mode |-> "add", value |-> BlankSetting]
  ELSE IF s.edit # NoSuite THEN [suite |-> s.edit, mode |-> "edit", value |-> s.copy[s.edit]]
  ELSE NoInfo

GenerateInfo(s) ==
  IF s.generate = NoSuite THEN NoInfo
  ELSE [suite |-> s.generate, tests |-> s.tests[s.generate], lock |-> s.lock, result |-> s.generated]

\* Nothing is left of a form that is taken away.
NoForm == [info |-> NoInfo, open |-> FALSE, suite |-> NoSuite, value |-> BlankSetting, typed |-> FALSE]

\* Mutant: a form that is open is left as it is.
FilledOnce(f, info) ==
  IF info = f.info THEN f
  ELSE IF info = NoInfo THEN NoForm
  ELSE IF f.open /\ f.info # NoInfo THEN [f EXCEPT !.info = info, !.suite = info.suite]
  ELSE [info |-> info, open |-> TRUE, suite |-> info.suite, value |-> info.value, typed |-> FALSE]

FormFilled(f, info) ==
  IF info = f.info THEN f
  ELSE IF info = NoInfo THEN NoForm
  ELSE [info |-> info, open |-> TRUE, suite |-> info.suite, value |-> info.value, typed |-> FALSE]

DeleteAsked(d, info) ==
  IF info = d.info \/ info = NoInfo THEN [d EXCEPT !.info = info] ELSE [d EXCEPT !.info = info, !.open = TRUE]

\* Mutant: the warning of the dialog that is kept is not followed.
GenerationKept(g, info) ==
  IF info = NoInfo THEN [g EXCEPT !.info = info]
  ELSE IF g.info # NoInfo /\ g.info.suite = info.suite THEN g
  ELSE [info |-> info, open |-> TRUE, set |-> StandardSet]

\* "Rebuild only when the dialog is for a different test suite"
GenerationShown(g, info) ==
  IF info = NoInfo \/ (g.info # NoInfo /\ g.info.suite = info.suite) THEN [g EXCEPT !.info = info]
  ELSE [info |-> info, open |-> TRUE, set |-> StandardSet]

\* The dialog that runs tests is made once, for the suite it is opened with.
RunShown(r, s) ==
  IF s.run = NoSuite THEN [open |-> FALSE, suite |-> NoSuite, result |-> "none"]
  ELSE IF r.suite = NoSuite THEN [open |-> TRUE, suite |-> s.run, result |-> s.ran]
  ELSE [r EXCEPT !.result = s.ran]

\* The script fails when a suite of the session is gone from the database and
\* from the cache: now, and at every run of the session after that. "cached" are
\* the suites in the cache of get_minimal.
Renders(s, cached) ==
  /\ s.add \/ s.edit \in s.there \cup s.loaded \cup {NoSuite}
  /\ s.generate \in s.there \cup cached \cup {NoSuite}

\* The callbacks that read a suite fail by themselves; a copy of one that is gone
\* can be shown and not saved.
CallbackFails(s, e, cached) ==
  \/ e.op \in {"delete", "startExport"} /\ e.suite \notin s.there \cup cached
  \/ e.op = "save" /\ e.mode = "edit" /\ e.suite \notin s.there

\* The suites that are not in the database, or not any more once e is handled.
Gone(s, e) == {n \in Suite : n \notin s.there \/ (e.op = "deleteConfirmed" /\ n = e.suite)}

\* Other sessions may have read any suite before it was deleted, and any that
\* loads or leaves a page may have cleared the cache.
ServeSuites ==
  /\ Suites /\ Take
  /\ \E fails \in BOOLEAN, cached \in {{}, Gone(suites, Head(sent))}, s \in {suites, CacheCleared(suites)} :
       /\ fails => Head(sent).op \in {"runTests", "generateTests", "deleteConfirmed"}
       /\ suites' = Read(IF CallbackFails(s, Head(sent), cached) THEN s
                         ELSE Called(s, Head(sent), fails))
       /\ desk' = IF ~Renders(suites', cached) THEN [desk EXCEPT !.broken = TRUE]
                  ELSE [desk EXCEPT
            !.list = suites'.there,
            !.form = FormFilled(@, FormInfo(suites')),
            !.deletion = DeleteAsked(@, suites'.delete),
            !.generation = GenerationShown(@, GenerateInfo(suites')),
            !.run = RunShown(@, suites')]

\* Someone edits a test of a suite.
TestEdited ==
  /\ Suites /\ TestsHalf
  /\ \E s \in suites.there :
       /\ suites.tests[s] = "auto"
       /\ suites' = [suites EXCEPT !.tests[s] = "edited"]
  /\ UNCHANGED <<sent, desk>>

-----------------------------------------------------------------------------
SuitesInit ==
  \E n \in Suite \cup {NoSuite} :
    /\ suites = [there |-> Suite \ {n}, setting |-> [s \in Suite |-> BlankSetting],
                 past |-> [s \in Suite |-> IF s = n THEN {} ELSE {BlankSetting}],
                 loaded |-> {}, copy |-> [s \in Suite |-> BlankSetting],
                 tests |-> [s \in Suite |-> IF s = n THEN "none" ELSE "edited"], add |-> FALSE, edit |-> NoSuite,
                 delete |-> NoInfo, run |-> NoSuite, ran |-> "none",
                 generate |-> NoSuite, generated |-> "none", lock |-> "none"]
    /\ desk = [list |-> Suite \ {n}, broken |-> FALSE, export |-> NoSuite,
               form |-> NoForm,
               deletion |-> [info |-> NoInfo, open |-> FALSE, agreed |-> FALSE],
               generation |-> [info |-> NoInfo, open |-> FALSE, set |-> StandardSet],
               run |-> [open |-> FALSE, suite |-> NoSuite, result |-> "none"]]

SuitesUser ==
  \/ AddClicked \/ EditClicked \/ DeleteClicked \/ RunClicked \/ GenerateClicked
  \/ ExportClicked \/ StartExport \/ CloseExport
  \/ TypeSetting \/ TypeSuite \/ SaveForm \/ CloseForm
  \/ AgreeToDelete \/ DeleteSuite \/ DismissDelete
  \/ RunTests \/ CloseRun
  \/ PickSet \/ LockEdited \/ GenerateTests \/ CloseGeneration

SuitesNext ==
  /\ \/ SuitesUser /\ UNCHANGED suites
     \/ ServeSuites \/ TestEdited
  /\ UNCHANGED page

-----------------------------------------------------------------------------
(* Properties.                                                              *)

\* A form that the user did not type in shows settings that its suite has or had
\* before, never those of another, however many forms were asked for before the
\* first was shown: saving it then gives the suite nothing that was not its own.
OwnSettingsShown ==
  Suites /\ FormOpen /\ desk.form.info.mode = "edit" /\ ~desk.form.typed =>
    desk.form.suite = desk.form.info.suite /\ desk.form.value \in suites.past[desk.form.suite]

\* No answer of the server changes the generation set picked in a dialog that
\* stays open for the same suite.
SetKept ==
  [][Take /\ Suites /\ GenerateOpen /\ desk'.generation.info.suite = desk.generation.info.suite =>
       desk'.generation.set = desk.generation.set]_<<page, sent, suiteVars>>

\* Once every event is answered, the generation dialog tells which tests would
\* be lost as of its last answer: none that a lock has saved since.
LockTold ==
  Suites /\ Quiet /\ GenerateOpen =>
    desk.generation.info.lock = suites.lock /\
    (suites.tests[desk.generation.info.suite] = "locked" => desk.generation.info.tests = "locked")

=============================================================================
