----------------------- MODULE TestDefinitionDialogs -----------------------
(***************************************************************************)
(* The dialogs of the test definitions page: one to add or edit a test, one *)
(* to copy or move tests to another suite (pages/test_definitions.js), with *)
(* their callbacks on the server (views/test_definitions.py). A dialog is    *)
(* open in the browser, and its data is kept in the session on the server;  *)
(* the two follow each other by events and properties.                      *)
(*                                                                          *)
(* Copying and moving is followed for the tests of the target suites that    *)
(* are there already: a key stands for table, column and type of a test.    *)
(***************************************************************************)
EXTENDS Browser, FiniteSets

CONSTANTS
  TestType, ColumnOf,        \* ColumnOf[t]: the columns of table t
  Test, Key, Locked, CopySuite,  \* tests: Key[i]; the locked ones; the suites
  Target,                    \* what they may be copied to: [suite, key], key "own" keeps it
  Absent                     \* no value

ASSUME DialogsAssumption ==
  /\ Locked \subseteq Test /\ DOMAIN Key = Test
  /\ Absent \notin CopySuite /\ \A t \in Target : t.suite \in CopySuite

VARIABLES
  form,     \* the dialog that adds or edits a test
  entered,    \* history: what the user entered since it opened
  copy,     \* the dialog that copies or moves, in the browser
  session,  \* its data on the server
  suiteOf   \* the suite each test is in, or Absent when it was deleted

dialogVars == <<form, entered, copy, session, suiteOf>>

TestTable == DOMAIN ColumnOf
BlankTest(type) == [type |-> type, table |-> Absent, column |-> Absent]

DialogsInit ==
  /\ page \in {"testForm", "copyMove"} /\ sent = <<>>
  /\ form = [open |-> FALSE, mode |-> "add", info |-> FALSE, values |-> Absent,
             verdict |-> Absent, keeps |-> FALSE]
  /\ entered = Absent
  /\ copy = [open |-> FALSE, selected |-> {}, collision |-> Absent, target |-> Absent]
  /\ session = [selected |-> {}, collision |-> Absent, overwrite |-> {}]
  /\ suiteOf \in [Test -> CopySuite]

-----------------------------------------------------------------------------
(* Adding and editing a test. form.info: the data of the dialog is in the    *)
(* session, as far as the browser knows; form.keeps: it is there.           *)

OpenForm(mode) ==
  /\ page = "testForm" /\ ~form.open
  /\ form' = [form EXCEPT !.mode = mode]
  /\ Emit([op |-> "openForm"])
  /\ UNCHANGED entered

\* Mutant: the form starts anew whenever its data arrives.
FormDeliveredAnew(f, keeps, verdict) ==
  [f EXCEPT !.keeps = keeps, !.info = keeps, !.open = keeps, !.verdict = verdict,
            !.values = IF keeps /\ f.mode = "edit" THEN BlankTest("edited") ELSE Absent]

\* Opened: a blank form to add a test, the stored test to edit one. Already
\* open: what the user entered stays.
FormDelivered(f, keeps, verdict) ==
  LET open == IF keeps = f.info THEN f.open ELSE keeps
  IN [f EXCEPT !.keeps = keeps, !.info = keeps, !.open = open, !.verdict = verdict,
               !.values = IF ~open THEN Absent ELSE IF f.open THEN @
                          ELSE IF f.mode = "edit" THEN BlankTest("edited") ELSE Absent]

Enter(values) ==
  /\ form' = [form EXCEPT !.values = values]
  /\ entered' = values
  /\ UNCHANGED sent

\* A new type starts a new form.
ChooseType(t) == page = "testForm" /\ form.open /\ form.mode = "add" /\ Enter(BlankTest(t))

\* A table is chosen when a test is added; the column goes with the old one.
ChooseTable(t) ==
  /\ page = "testForm" /\ form.open /\ form.mode = "add" /\ form.values # Absent
  /\ Enter([form.values EXCEPT !.table = t, !.column = Absent])

ColumnsOffered(table) ==
  IF table = Absent THEN UNION {ColumnOf[t] : t \in TestTable} ELSE ColumnOf[table]

ChooseColumn(c) ==
  /\ page = "testForm" /\ form.open /\ form.values # Absent
  /\ c \in ColumnsOffered(form.values.table)
  /\ Enter([form.values EXCEPT !.column = c])

\* The form stays open until the server has answered.
SubmitForm(op) ==
  /\ page = "testForm" /\ form.open /\ form.values # Absent
  /\ Emit([op |-> op, values |-> form.values])
  /\ UNCHANGED <<form, entered>>

CancelForm ==
  /\ page = "testForm" /\ form.open
  /\ form' = [form EXCEPT !.open = FALSE, !.values = Absent]
  /\ Emit([op |-> "cancelForm"])
  /\ UNCHANGED entered

\* A validation result is shown by one run of the script only.
AnswerForm ==
  /\ page = "testForm" /\ Take
  /\ LET op == Head(sent).op
         keeps == IF op = "openForm" THEN TRUE ELSE op = "validate" /\ form.keeps
     IN \E verdict \in IF op = "validate" THEN {"good", "bad"} ELSE {Absent} :
          form' = FormDelivered(form, keeps, verdict)
  /\ entered' = IF form'.open /\ form.open THEN entered ELSE form'.values

FormNext ==
  \/ \E m \in {"add", "edit"} : OpenForm(m)
  \/ \E t \in TestType : ChooseType(t)
  \/ \E t \in TestTable : ChooseTable(t)
  \/ \E c \in UNION {ColumnOf[t] : t \in TestTable} : ChooseColumn(c)
  \/ \E op \in {"validate", "save"} : SubmitForm(op)
  \/ CancelForm \/ AnswerForm

-----------------------------------------------------------------------------
(* Copying and moving.                                                      *)

KeyAt(i, t) == IF t.key = "own" THEN Key[i] ELSE t.key

\* Tests of the target suite for the same table, column and type.
Collisions(selected, t) ==
  {i \in Test : suiteOf[i] = t.suite /\ Key[i] \in {KeyAt(s, t) : s \in selected}}

\* The collisions are asked for when the target or the dialog's data change.
EmitTarget(c, queue) ==
  IF c.target # Absent /\ c.selected # {}
    THEN Append(queue, [op |-> "target", selected |-> c.selected, target |-> c.target])
    ELSE queue

OpenCopy(selected) ==
  /\ page = "copyMove" /\ ~copy.open /\ selected # {}
  /\ Emit([op |-> "openCopy", selected |-> selected])
  /\ UNCHANGED copy

ChooseTarget(t) ==
  /\ page = "copyMove" /\ copy.open /\ t # copy.target /\ Len(sent) < MaxSent[page]
  /\ copy' = [copy EXCEPT !.target = t]
  /\ sent' = EmitTarget(copy', sent)

\* Selected tests that have no locked counterpart, by the last answer.
Movable(c) ==
  IF c.collision = Absent \/ c.target = Absent THEN c.selected
  ELSE {s \in c.selected : Key[s] \notin {Key[i] : i \in c.collision \cap Locked}}

\* Copy or Move; the dialog stays open until the server has answered.
ConfirmCopy(op) ==
  /\ page = "copyMove" /\ copy.open /\ copy.target # Absent /\ Movable(copy) # {}
  /\ Emit([op |-> op, ids |-> Movable(copy), target |-> copy.target])
  /\ UNCHANGED copy

CancelCopy ==
  /\ page = "copyMove" /\ copy.open
  /\ copy' = [copy EXCEPT !.open = FALSE]
  /\ Emit([op |-> "cancelCopy"])

NoCopy == [selected |-> {}, collision |-> Absent, overwrite |-> {}]

\* Mutant: locked tests are overwritten as well.
SessionAfterAll(s, e) ==
  CASE e.op = "openCopy" -> [NoCopy EXCEPT !.selected = e.selected]
    [] e.op = "target" ->
         [s EXCEPT !.collision = Collisions(e.selected, e.target),
                   !.overwrite = Collisions(e.selected, e.target)]
    [] OTHER -> NoCopy

\* The collisions with a target, and which of them are to be overwritten.
SessionAfter(s, e) ==
  CASE e.op = "openCopy" -> [NoCopy EXCEPT !.selected = e.selected]
    [] e.op = "target" ->
         [s EXCEPT !.collision = Collisions(e.selected, e.target),
                   !.overwrite = Collisions(e.selected, e.target) \ (Locked \cup e.selected)]
    [] OTHER -> NoCopy

\* The tests to be overwritten go first. A copy is a new test, which the
\* database keeps apart from those followed here.
SuitesAfter(e) ==
  IF e.op \notin {"copy", "move"} THEN suiteOf
  ELSE [i \in Test |-> IF i \in session.overwrite THEN Absent
                       ELSE IF e.op = "move" /\ i \in e.ids /\ suiteOf[i] # Absent
                              THEN e.target.suite ELSE suiteOf[i]]

\* The dialog's data arrives: it opens or closes with it, and a dialog that
\* opens forgets its target.
CopyDelivered(c, s) ==
  IF s.selected = c.selected /\ s.collision = c.collision THEN c
  ELSE LET open == s.selected # {}
       IN [open |-> open, selected |-> s.selected,
           collision |-> IF open THEN s.collision ELSE Absent,
           target |-> IF open /\ ~c.open THEN Absent ELSE c.target]

AnswerCopy ==
  /\ page = "copyMove" /\ sent # <<>>
  /\ session' = SessionAfter(session, Head(sent))
  /\ suiteOf' = SuitesAfter(Head(sent))
  /\ copy' = CopyDelivered(copy, session')
  /\ sent' = IF copy' = copy THEN Tail(sent) ELSE EmitTarget(copy', Tail(sent))

CopyNext ==
  \/ /\ \/ \E S \in SUBSET Test : OpenCopy(S)
        \/ \E t \in Target : ChooseTarget(t)
        \/ \E op \in {"copy", "move"} : ConfirmCopy(op)
        \/ CancelCopy
     /\ UNCHANGED <<session, suiteOf>>
  \/ AnswerCopy

DialogsNext ==
  \/ FormNext /\ UNCHANGED <<page, copy, session, suiteOf>>
  \/ CopyNext /\ UNCHANGED <<page, form, entered>>

-----------------------------------------------------------------------------
(* Properties.                                                              *)

\* What the user entered stays in the form while it is open, though the page's
\* script runs again for every validation.
EditsKept == page = "testForm" /\ form.open => form.values = entered

\* A copy or a move deletes no test but unlocked ones of the target it goes to
\* that have the same table, column and type as a selected test; never one
\* that is being copied, nor one found for a target chosen before.
OverwritesTarget ==
  [][sent # <<>> /\ page = "copyMove" =>
       \A i \in Test : suiteOf[i] # Absent /\ suiteOf'[i] = Absent =>
         LET e == Head(sent)
         IN /\ e.op \in {"copy", "move"}
            /\ i \notin Locked \cup e.ids /\ suiteOf[i] = e.target.suite
    ]_<<page, sent, dialogVars>>

=============================================================================
