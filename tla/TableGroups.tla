---------------------------- MODULE TableGroups ----------------------------
(***************************************************************************)
(* Table groups: the wizard that adds one (components/table_group_wizard.js), *)
(* the dialog that edits one (components/table_group_edit_dialog.js) and the  *)
(* list that deletes them (pages/table_group_list.js), with the callbacks of  *)
(* views/table_groups.py. The three are scenes of one page that do not read   *)
(* each other's state.                                                       *)
(*                                                                          *)
(* The values that the server keeps for the next run of the script are read   *)
(* once: what one event asked for is gone from the answer to the next one.    *)
(***************************************************************************)
EXTENDS Browser, FiniteSets

CONSTANTS
  Name, Scope,         \* values of the form: the name; schema and criteria
  Extra,               \* Extra[p]: the rest, for the form on page p
  Works,               \* the scopes in which the database shows tables
  Group,               \* the groups in the list
  NoGroup

\* What can be entered in the form.
FormValues == [name : Name \cup {NoGroup}, scope : Scope, extra : UNION {Extra[p] : p \in DOMAIN Extra}]

ASSUME GroupsAssumption ==
  /\ Works \subseteq Scope /\ Scope # {} /\ IsFiniteSet(Group)
  /\ DOMAIN Extra = {"wizard", "editGroup"} /\ \A p \in DOMAIN Extra : Extra[p] # {}
  /\ NoGroup \notin [of : FormValues, success : BOOLEAN]

VARIABLES
  dialog,   \* the scene's state in the browser
  groups    \* the table groups and the session on the server

groupVars == <<dialog, groups>>

EmptyForm == [name |-> NoGroup, scope |-> CHOOSE s \in Scope : TRUE,
              extra |-> CHOOSE e \in Extra["wizard"] : TRUE]

Preview(c) == [of |-> c, success |-> c.scope \in Works]

Succeeded(preview) == preview # NoGroup /\ preview.success

Show(scene, d) == page = scene /\ dialog' = d

-----------------------------------------------------------------------------
(* The form of both dialogs (components/table_group_form.js).               *)

FormValid == dialog.group.name # NoGroup

FormShown == page \in {"wizard", "editGroup"} /\ dialog.open /\ dialog.step = 0

FormTyped(c) ==
  FormShown /\ c # dialog.group /\ dialog' = [dialog EXCEPT !.group = c] /\ UNCHANGED sent

TypeName == \E n \in Name \cup {NoGroup} : FormTyped([dialog.group EXCEPT !.name = n])
TypeScope == \E s \in Scope : FormTyped([dialog.group EXCEPT !.scope = s])
SetSettings == FormShown /\ \E e \in Extra[page] : FormTyped([dialog.group EXCEPT !.extra = e])

-----------------------------------------------------------------------------
(* The wizard. Steps: 0 the form, 1 the preview, 2 profiling, 3 the test     *)
(* suite, 4 monitors.                                                       *)

WizardShown == page = "wizard" /\ dialog.open /\ ~dialog.complete

\* Mutant: what was verified once stays so.
PreviewedOnce(d, preview) ==
  [d EXCEPT !.preview = preview, !.verified = @ \/ (d.step = 1 /\ Succeeded(preview))]

\* While the preview is open, the answer is the verdict.
PreviewedIn(d, preview) ==
  [d EXCEPT !.preview = preview, !.verified = IF d.step = 1 THEN Succeeded(preview) ELSE @]

StepValid ==
  CASE dialog.step = 0 -> FormValid
    [] dialog.step = 1 -> dialog.verified
    [] OTHER -> TRUE

\* Opening the preview asks for it, and takes the last answer until then.
EnterStep(i) ==
  /\ Show("wizard", PreviewedIn([dialog EXCEPT !.step = i], dialog.preview))
  /\ CASE i = 1 -> Emit([op |-> "preview", group |-> dialog.group])
       [] i = 3 -> Emit([op |-> "sample"])
       [] OTHER -> UNCHANGED sent

\* The buttons Next and Previous.
Step ==
  /\ WizardShown
  /\ \/ dialog.step < 4 /\ StepValid /\ EnterStep(dialog.step + 1)
     \/ dialog.step > 0 /\ EnterStep(dialog.step - 1)

\* The progress indicator leads back to what was not skipped.
JumpBack ==
  /\ WizardShown
  /\ \E i \in {0} \cup {k \in {2, 3} : k \in dialog.chosen} : i < dialog.step /\ EnterStep(i)

Toggled(i) ==
  /\ WizardShown /\ dialog.step = i
  /\ Show("wizard", [dialog EXCEPT !.chosen = IF i \in @ THEN @ \ {i} ELSE @ \cup {i}])
  /\ UNCHANGED sent

RunProfilingStep == Toggled(2)
TestSuiteStep == Toggled(3)
MonitorStep == Toggled(4)

VerifyAccess ==
  /\ WizardShown /\ Show("wizard", dialog)
  /\ dialog.step = 1 /\ dialog.preview # NoGroup
  /\ Emit([op |-> "preview", group |-> dialog.group])

SaveWizard ==
  /\ WizardShown /\ Show("wizard", dialog) /\ dialog.step = 4
  /\ Emit([op |-> "save", group |-> dialog.group, verified |-> dialog.verified,
           chosen |-> dialog.chosen])

CloseWizard ==
  /\ page = "wizard" /\ dialog.open
  /\ Show("wizard", [dialog EXCEPT !.open = FALSE])
  /\ Emit([op |-> "close"])

OpenWizard == page = "wizard" /\ ~dialog.open /\ Emit([op |-> "add"]) /\ UNCHANGED dialog

\* A group is saved with its suites if the browser says it was verified.
WizardSaved(s, e) ==
  IF ~e.verified \/ \E g \in s.saved : g.name = e.group.name
    THEN [s EXCEPT !.results = "failure"]
    ELSE [s EXCEPT !.saved = @ \cup {e.group}, !.chosen = e.chosen, !.results = "success"]

\* What the wizard is given, nothing while the session keeps it shut.
WizardData(s, e) ==
  IF s.mode = NoGroup THEN NoGroup
  ELSE [preview |-> IF e.op \in {"preview", "save"} THEN Preview(e.group) ELSE NoGroup,
        results |-> s.results, sampled |-> e.op = "sample"]

NoWizard == [open |-> FALSE, step |-> 0, group |-> EmptyForm, verified |-> FALSE, preview |-> NoGroup,
             chosen |-> {2, 3, 4}, complete |-> FALSE, data |-> NoGroup]

\* The wizard is built once and lives until there is no data for it. It hears
\* of data that changed only, and opens again when it does.
WizardBuilt(d, data) ==
  CASE data = NoGroup -> NoWizard
    [] data # NoGroup /\ data = d.data -> d
    [] OTHER -> [PreviewedIn(d, data.preview)
                  EXCEPT !.open = TRUE, !.complete = data.results = "success", !.data = data]

ServeWizard ==
  /\ page = "wizard" /\ Take
  /\ LET e == Head(sent)
         s == [groups EXCEPT !.results = NoGroup]
     IN /\ groups' = CASE e.op = "add" -> [s EXCEPT !.mode = "add"]
                       [] e.op = "save" /\ s.mode = "add" -> WizardSaved(s, e)
                       [] e.op = "close" -> [s EXCEPT !.mode = NoGroup]
                       [] OTHER -> s
        /\ dialog' = WizardBuilt(dialog, WizardData(groups', e))

-----------------------------------------------------------------------------
(* The dialog to edit a group. Steps: 0 the form, 1 the preview.            *)

OpenEdit ==
  /\ page = "editGroup" /\ ~dialog.open /\ Emit([op |-> "edit"])
  /\ UNCHANGED dialog

GoToVerify ==
  /\ page = "editGroup" /\ dialog.open /\ dialog.step = 0 /\ FormValid
  /\ Show("editGroup", [dialog EXCEPT !.step = 1])
  /\ Emit([op |-> "preview", group |-> dialog.group])

GoBackToForm ==
  /\ page = "editGroup" /\ dialog.open /\ dialog.step = 1
  /\ Show("editGroup", [dialog EXCEPT !.step = 0, !.shown = NoGroup])
  /\ UNCHANGED sent

SaveEdit ==
  /\ Show("editGroup", dialog) /\ dialog.open /\ dialog.step = 1 /\ Succeeded(dialog.shown)
  /\ Emit([op |-> "save", group |-> dialog.group])

CloseEdit ==
  /\ page = "editGroup" /\ dialog.open
  /\ Show("editGroup", [dialog EXCEPT !.open = FALSE])
  /\ Emit([op |-> "close"])

\* The server previews again what it saves.
EditSaved(s, e) ==
  IF Preview(e.group).success THEN [s EXCEPT !.saved = {e.group}, !.mode = NoGroup]
  ELSE [s EXCEPT !.results = "failure"]

\* What the dialog is given: the group with the values of the event applied.
EditData(s, e) ==
  IF s.mode = NoGroup THEN NoGroup
  ELSE [group |-> IF e.op \in {"preview", "save"} THEN e.group ELSE CHOOSE g \in s.saved : TRUE,
        preview |-> IF e.op \in {"preview", "save"} THEN Preview(e.group) ELSE NoGroup,
        results |-> s.results]

NoEdit == [open |-> FALSE, step |-> 0, group |-> NoGroup, shown |-> NoGroup, data |-> NoGroup]

\* The dialog is built for a group once and lives until there is none. It
\* hears of data that changed only.
EditBuilt(d, data) ==
  CASE data = NoGroup -> NoEdit
    [] data # NoGroup /\ d.data = NoGroup ->
         [open |-> TRUE, step |-> 0, group |-> data.group, shown |-> data.preview, data |-> data]
    [] data # NoGroup /\ d.data # NoGroup /\ data = d.data -> d
    [] OTHER -> [d EXCEPT !.data = data, !.open = TRUE,
                          !.shown = IF d.step = 1 THEN data.preview ELSE @]

ServeEdit ==
  /\ page = "editGroup" /\ Take
  /\ LET e == Head(sent)
         s == [groups EXCEPT !.results = NoGroup]
     IN /\ groups' = CASE e.op = "edit" -> [s EXCEPT !.mode = "edit"]
                       [] e.op = "save" /\ s.mode = "edit" -> EditSaved(s, e)
                       [] e.op = "close" -> [s EXCEPT !.mode = NoGroup]
                       [] OTHER -> s
        /\ dialog' = EditBuilt(dialog, EditData(groups', e))

-----------------------------------------------------------------------------
(* The list with its filter, and the dialog to delete a group.              *)

\* Mutant: what was sent first is taken for what was sent last.
LastSentStale(d, f) == d.lastSent

\* What the toolbar, which is mounted once, takes to be sent already.
LastSent(d, f) == f

\* A filter that was not sent yet is sent.
FilterGroups(f) ==
  /\ page = "groupList" /\ f # dialog.filter /\ ~(dialog.info # NoGroup /\ dialog.open)
  /\ Show("groupList", [dialog EXCEPT !.filter = f, !.lastSent = IF f = @ THEN @ ELSE LastSent(dialog, f)])
  /\ IF f = dialog.lastSent THEN UNCHANGED sent ELSE Emit([op |-> "filter", filter |-> f])

OpenDeleteGroup(g) ==
  /\ page = "groupList" /\ g \in dialog.listed /\ ~(dialog.info # NoGroup /\ dialog.open)
  /\ Emit([op |-> "openDelete", id |-> g])
  /\ UNCHANGED dialog

DeleteShown == page = "groupList" /\ dialog.info # NoGroup /\ dialog.open

\* The switch "Yes, delete the table group and related TestGen data".
ConfirmRelated ==
  /\ DeleteShown /\ dialog.info.related
  /\ Show("groupList", [dialog EXCEPT !.confirmed = ~@])
  /\ UNCHANGED sent

DeleteGroup ==
  /\ DeleteShown /\ (dialog.info.related => dialog.confirmed)
  /\ Show("groupList", dialog)
  /\ Emit([op |-> "delete", id |-> dialog.info.id])

CloseDeleteGroup ==
  /\ DeleteShown
  /\ Show("groupList", [dialog EXCEPT !.open = FALSE, !.confirmed = FALSE])
  /\ Emit([op |-> "dismiss"])

\* _prepare_delete_dialog, _execute_delete: a group with a running process stays.
ListAfter(s, e) ==
  CASE e.op = "filter" -> [s EXCEPT !.filter = e.filter]
    [] e.op = "openDelete" -> [s EXCEPT !.info = [id |-> e.id, related |-> e.id \in s.used]]
    [] e.op = "delete" /\ e.id \notin s.running -> [s EXCEPT !.saved = @ \ {e.id}, !.info = NoGroup]
    [] OTHER -> [s EXCEPT !.info = NoGroup]

ListedGroups(s) == IF s.filter = NoGroup THEN s.saved ELSE s.saved \cap {s.filter}

ServeGroups ==
  /\ page = "groupList" /\ Take
  /\ groups' = ListAfter(groups, Head(sent))
  /\ dialog' = [dialog EXCEPT !.listed = ListedGroups(groups'), !.info = groups'.info,
                  !.open = @ \/ (groups'.info # NoGroup /\ groups'.info # dialog.info)]

\* A profiling or test run of a group begins, or ends and leaves its data.
UseGroup(g) ==
  /\ page = "groupList" /\ g \in groups.saved
  /\ groups' = IF g \in groups.running THEN [groups EXCEPT !.running = @ \ {g}, !.used = @ \cup {g}]
               ELSE [groups EXCEPT !.running = @ \cup {g}]
  /\ UNCHANGED <<sent, dialog>>

-----------------------------------------------------------------------------
(* The page.                                                                *)

GroupPage == {"wizard", "editGroup", "groupList"}

NoSession == [mode |-> NoGroup, results |-> NoGroup, saved |-> {}, chosen |-> {},
              used |-> {}, running |-> {}, info |-> NoGroup, filter |-> NoGroup]

NoList == [listed |-> Group, filter |-> NoGroup, lastSent |-> NoGroup, info |-> NoGroup,
           open |-> FALSE, confirmed |-> FALSE]

GroupsInit ==
  CASE page = "editGroup" ->
         /\ dialog = NoEdit
         /\ \E c \in [name : Name, scope : Works, extra : Extra[page]] : groups = [NoSession EXCEPT !.saved = {c}]
    [] page = "groupList" -> dialog = NoList /\ groups = [NoSession EXCEPT !.saved = Group]
    [] OTHER -> dialog = NoWizard /\ groups = NoSession

GroupUser ==
  \/ TypeName \/ TypeScope \/ SetSettings
  \/ OpenWizard \/ Step \/ JumpBack \/ VerifyAccess \/ SaveWizard \/ CloseWizard
  \/ RunProfilingStep \/ TestSuiteStep \/ MonitorStep
  \/ OpenEdit \/ GoToVerify \/ GoBackToForm \/ SaveEdit \/ CloseEdit
  \/ ConfirmRelated \/ DeleteGroup \/ CloseDeleteGroup
  \/ \E g \in Group : OpenDeleteGroup(g)
  \/ \E f \in Group \cup {NoGroup} : FilterGroups(f)

GroupsNext ==
  /\ (GroupUser /\ UNCHANGED groups) \/ ServeWizard \/ ServeEdit \/ ServeGroups
     \/ \E g \in Group : UseGroup(g)
  /\ UNCHANGED page

-----------------------------------------------------------------------------
(* Properties.                                                              *)

\* Once every event is answered, the wizard lets the user leave the preview
\* exactly when the database shows tables for what is in the form now,
\* whatever was previewed before and however the user went back and forth.
PreviewInStep ==
  page = "wizard" /\ Quiet /\ WizardShown /\ dialog.step = 1 =>
    dialog.verified = (dialog.group.scope \in Works)

\* Whatever was previewed when, and whatever was typed after that preview, a
\* group that is stored by the edit dialog shows tables.
EditSavesVerified == page = "editGroup" => \A g \in groups.saved : g.scope \in Works

\* Once every event is answered, the list shows the groups the filter on the
\* screen asks for, however it was changed.
GroupsFiltered ==
  page = "groupList" /\ Quiet => dialog.listed = ListedGroups([groups EXCEPT !.filter = dialog.filter])

=============================================================================
