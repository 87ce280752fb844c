---------------------------- MODULE Pages_proofs ----------------------------
(***************************************************************************)
(* What is proved about the pages, for every value of the constants: any     *)
(* rows, runs, tables, groups, suites and notifications, and any number of    *)
(* events under way.                                                        *)
(***************************************************************************)
EXTENDS Pages, GridPages_proofs, Lists_proofs, Dialogs_proofs

-----------------------------------------------------------------------------
(* The pages together: one is open, and its steps are steps of Spec.         *)

PagesInv ==
  /\ page \in GridPage => GridInv
  /\ page \in ListPage => ListInv
  /\ page = "catalog" => TreeInv
  /\ FormInv /\ CopyInv
  /\ ConnectionInv
  /\ PickerInv /\ SchedulesInv
  /\ WizardInv /\ EditInv /\ GroupListInv
  /\ SuitesInv
  /\ NoticesInv /\ PanelInv
  /\ MonitorsInv /\ BoxesInv
  /\ ColumnsTold => ToolbarInv

LEMMA PagesInitInv == Init => PagesInv
<1> SUFFICES ASSUME Init PROVE PagesInv
  OBVIOUS
<1>1. page \in GridPage => GridInv
  BY GridInitInv DEF Init
<1>2. page \in ListPage => ListInv
  BY ListsInitInv DEF Init
<1>3. page = "catalog" => TreeInv
  BY CatalogInitInv DEF Init
<1>4. FormInv /\ CopyInv
  BY CopyInitInv DEF Init, FormInv, CopyInv
<1>5. ConnectionInv
  BY ConnectionInitInv DEF Init, ConnectionInv
<1>6. PickerInv /\ SchedulesInv
  BY PickerInitInv, SchedulesInitInv DEF Init, PickerInv, SchedulesInv
<1>7. WizardInv /\ EditInv /\ GroupListInv
  <2>1. page \in GroupPage => WizardInv /\ EditInv /\ GroupListInv
    BY WizardInitInv, EditInitInv, GroupListInitInv DEF Init
  <2> QED BY <2>1 DEF WizardInv, EditInv, GroupListInv, GroupPage
<1>8. SuitesInv
  BY SuitesInitInv DEF Init, SuitesInv
<1>9. NoticesInv /\ PanelInv
  BY NoticesInitInv, PanelInitInv DEF Init, NoticesInv, PanelInv
<1>10. MonitorsInv /\ BoxesInv
  BY MonitorsInitInv, BoxesInitInv DEF Init, MonitorsInv, BoxesInv
<1>11. ColumnsTold => ToolbarInv
  <2>1. page # "explorer" => ToolbarInv
    BY DEF ToolbarInv, Explorer
  <2> QED BY <2>1, ToolbarStart DEF Init
<1> QED BY <1>1, <1>2, <1>3, <1>4, <1>5, <1>6, <1>7, <1>8, <1>9, <1>10, <1>11 DEF PagesInv

LEMMA PageStays == Next => page' = page
BY DEF Next, Grids, Dialogs, Connection, Lists, Picker, SchedulesPage, Groups, CatalogPage,
       SuitesPage, NoticesPage, ExplorerPage, MonitorsPage, CatalogDialogsPage, GridNext, DialogsNext, ConnectionNext, ListsNext, PickerNext,
       SchedulesNext, GroupsNext, CatalogNext, SuitesNext, NotificationsNext, ExplorerNext,
       MonitorsNext, BoxesNext

\* Which page takes the step.
LEMMA StepOfPage ==
  ASSUME Next
  PROVE  /\ page \in GridPage => GridNext
         /\ page \in ListPage => ListsNext
         /\ page = "catalog" => CatalogNext
         /\ page \in {"testForm", "copyMove"} => DialogsNext
         /\ page = "connection" => ConnectionNext
         /\ page = "crontab" => PickerNext
         /\ page = "schedules" => SchedulesNext
         /\ page \in GroupPage => GroupsNext
         /\ page \in {"suites", "suiteTests"} => SuitesNext
         /\ page = "notifications" => NotificationsNext
         /\ page = "monitors" => MonitorsNext
         /\ page = "catalogDialogs" => BoxesNext
         /\ page = "explorer" => ExplorerNext
BY DEF Next, Grids, Dialogs, Connection, Lists, Picker, SchedulesPage, Groups, CatalogPage,
       SuitesPage, NoticesPage, ExplorerPage, MonitorsPage, CatalogDialogsPage, GridPage, ListPage, GroupPage

LEMMA PagesStep == PagesInv /\ [Next]_pagesVars => PagesInv'
<1> SUFFICES ASSUME PagesInv, [Next]_pagesVars PROVE PagesInv'
  OBVIOUS
<1>1. CASE Next
  <2>1. page' = page
    BY <1>1, PageStays
  <2>2. page \in GridPage => GridInv'
    BY <1>1, GridStep, StepOfPage DEF PagesInv
  <2>3. page \in ListPage => ListInv'
    BY <1>1, ListsStep, StepOfPage DEF PagesInv
  <2>4. page = "catalog" => TreeInv'
    BY <1>1, CatalogStep, StepOfPage DEF PagesInv
  <2>5. FormInv' /\ CopyInv'
    BY <1>1, <2>1, FormStep, CopyStep, StepOfPage DEF PagesInv, FormInv, CopyInv
  <2>6. ConnectionInv'
    BY <1>1, <2>1, ConnectionStep, StepOfPage DEF PagesInv, ConnectionInv
  <2>7. PickerInv' /\ SchedulesInv'
    BY <1>1, <2>1, PickerStep, SchedulesStep, StepOfPage DEF PagesInv, PickerInv, SchedulesInv
  <2>8. WizardInv' /\ EditInv' /\ GroupListInv'
    <3>1. CASE GroupsNext
      BY <3>1, WizardStep, EditStep, GroupListStep DEF PagesInv
    <3>2. CASE page \notin GroupPage
      BY <2>1, <3>2 DEF WizardInv, EditInv, GroupListInv, GroupPage
    <3> QED BY <1>1, <3>1, <3>2, StepOfPage
  <2>9. SuitesInv'
    BY <1>1, <2>1, SuitesStep, StepOfPage DEF PagesInv, SuitesInv
  <2>10. NoticesInv' /\ PanelInv'
    BY <1>1, <2>1, NoticesStep, PanelStep, StepOfPage DEF PagesInv, NoticesInv, PanelInv
  <2>11. MonitorsInv' /\ BoxesInv'
    BY <1>1, <2>1, MonitorsStep, BoxesStep, StepOfPage DEF PagesInv, MonitorsInv, BoxesInv
  <2>12. ColumnsTold => ToolbarInv'
    <3>1. CASE page = "explorer"
      BY <1>1, <3>1, ToolbarStep, StepOfPage DEF PagesInv, Explorer
    <3>2. CASE page # "explorer"
      BY <2>1, <3>2 DEF ToolbarInv, Explorer
    <3> QED BY <3>1, <3>2
  <2> QED BY <2>1, <2>2, <2>3, <2>4, <2>5, <2>6, <2>7, <2>8, <2>9, <2>10, <2>11, <2>12 DEF PagesInv
<1>2. CASE UNCHANGED pagesVars
  <2>1. UNCHANGED <<page, sent, gridVars, listVars, catalogVars, dialogVars, connectionVars, cronVars, scheduleVars,
                    groupVars, suiteVars, noticeVars, monitorVars, boxVars, explorerVars>>
    BY <1>2 DEF pagesVars
  <2>2. (page \in GridPage => GridInv) => (page \in GridPage => GridInv)'
    BY <2>1 DEF GridInv, gridVars, UiForm, ServerForm, Agree, Queue, Elements
  <2>3. (page \in ListPage => ListInv) => (page \in ListPage => ListInv)'
    BY <2>1 DEF ListInv, listVars, ListForm, RowsKnown, Covered
  <2>4. (page = "catalog" => TreeInv) => (page = "catalog" => TreeInv)'
    BY <2>1 DEF TreeInv, catalogVars, TreeForm, Chosen
  <2>5. FormInv' /\ CopyInv'
    BY <2>1 DEF PagesInv, FormInv, CopyInv, dialogVars, CopyForm, Chain, Ready, Follows, Clears, FoundFor
  <2>6. ConnectionInv'
    BY <2>1 DEF PagesInv, ConnectionInv, connectionVars, Queue, Elements
  <2>7. PickerInv' /\ SchedulesInv'
    BY <2>1 DEF PagesInv, PickerInv, WellFormed, cronVars, SchedulesInv, scheduleVars, Queue, Elements
  <2>8. WizardInv' /\ EditInv' /\ GroupListInv'
    BY <2>1 DEF PagesInv, WizardInv, EditInv, GroupListInv, groupVars, Queue, Elements
  <2>9. SuitesInv'
    BY <2>1 DEF PagesInv, SuitesInv, suiteVars, Queue, Elements
  <2>10. NoticesInv' /\ PanelInv'
    BY <2>1 DEF PagesInv, NoticesInv, PanelInv, NoticesForm, noticeVars, Queue, Elements
  <2>11. MonitorsInv' /\ BoxesInv'
    <3>1. MonitorsInv'
      BY <2>1 DEF PagesInv, MonitorsInv, monitorVars
    <3>2. BoxesInv'
      BY <2>1 DEF PagesInv, BoxesInv, boxVars
    <3> QED BY <3>1, <3>2
  <2>12. ColumnsTold => ToolbarInv'
    BY <2>1, ToolbarStutters DEF PagesInv
  <2> QED BY <2>1, <2>2, <2>3, <2>4, <2>5, <2>6, <2>7, <2>8, <2>9, <2>10, <2>11, <2>12 DEF PagesInv
<1> QED BY <1>1, <1>2

LEMMA PagesInvariant == Spec => []PagesInv
<1> QED BY PagesInitInv, PagesStep, PTL DEF Spec

-----------------------------------------------------------------------------
(* Theorems.                                                                *)

\* THEOREM: the three copies of the selection agree, on the pages of test
\* definitions, test results and hygiene issues.
THEOREM SelectionAgrees == Spec => []CheckmarksAgree
<1>1. PagesInv => CheckmarksAgree
  BY GridInvImplies DEF PagesInv, CheckmarksAgree
<1> QED BY <1>1, PagesInvariant, PTL

\* THEOREM: a row that was ticked stays selected, over pages, filters, sorting
\* and answers of the server.
THEOREM SelectionSurvives == Spec => []PickedKept
<1>1. PagesInv => PickedKept
  BY GridInvImplies DEF PagesInv, PickedKept
<1> QED BY <1>1, PagesInvariant, PTL

\* THEOREM: a run list has one interval, at the rate of what it shows.
THEOREM OneIntervalRuns == Spec => []OneTimer
<1>1. PagesInv => OneTimer
  BY ListInvImplies DEF PagesInv, OneTimer
<1> QED BY <1>1, PagesInvariant, PTL

\* THEOREM: a run that is active when it is deleted was confirmed.
THEOREM DeletionsConfirmed == Spec => ActiveConfirmed
<1>1. PagesInv /\ [Next]_pagesVars =>
        [Take /\ page \in ListPage /\ Head(sent).op = "delete" =>
           \A r \in Head(sent).ids : runs[r] \in Active => Head(sent).confirmed
        ]_<<page, sent, listVars>>
  BY DeletionConfirmed DEF PagesInv
<1> QED BY <1>1, PagesInvariant, PTL DEF Spec, ActiveConfirmed

\* THEOREM: a bulk edit is about what is ticked in the tree.
THEOREM BulkEditInStep == Spec => []SelectionInStep
<1>1. PagesInv => SelectionInStep
  BY TreeInvImplies DEF PagesInv, SelectionInStep, Catalog
<1> QED BY <1>1, PagesInvariant, PTL

\* THEOREM: a click ticks only what is on the screen.
THEOREM HiddenNeverTicked == Spec => HiddenUntouched
<1>1. PagesInv /\ [Next]_pagesVars =>
        [Catalog /\ UNCHANGED sent => (tree'.ticked \cap Column) \ tree.ticked \subseteq Column \ tree.hidden
        ]_<<page, sent, catalogVars>>
  BY TicksShown, StepOfPage DEF PagesInv, Catalog, pagesVars, catalogVars
<1> QED BY <1>1, PagesInvariant, PTL DEF Spec, HiddenUntouched

\* THEOREM: the edit dialog stores groups that show tables only.
THEOREM EditsVerified == Spec => []EditSavesVerified
<1>1. PagesInv => EditSavesVerified
  BY DEF PagesInv, EditInv, EditSavesVerified
<1> QED BY <1>1, PagesInvariant, PTL

\* THEOREM: the form of a test definition holds what was entered, whatever the
\* server answers.
THEOREM FormEditsKept == Spec => []EditsKept
<1>1. PagesInv => EditsKept
  BY DEF PagesInv, FormInv, EditsKept
<1> QED BY <1>1, PagesInvariant, PTL

\* THEOREM: a copy or a move overwrites unlocked tests of its own target only.
THEOREM OnlyTargetOverwritten == Spec => OverwritesTarget
<1>1. PagesInv /\ [Next]_pagesVars =>
        [sent # <<>> /\ page = "copyMove" =>
           \A i \in Test : suiteOf[i] # Absent /\ suiteOf'[i] = Absent =>
             LET e == Head(sent)
             IN /\ e.op \in {"copy", "move"}
                /\ i \notin Locked \cup e.ids /\ suiteOf[i] = e.target.suite
        ]_<<page, sent, dialogVars>>
  BY Overwritten, StepOfPage DEF PagesInv, pagesVars, dialogVars
<1> QED BY <1>1, PagesInvariant, PTL DEF Spec, OverwritesTarget

\* THEOREM: a URL that was typed stays in the form.
THEOREM TypedUrlKept == Spec => []UrlEditsKept
<1>1. PagesInv => UrlEditsKept
  BY DEF PagesInv, ConnectionInv, UrlAgrees, UrlEditsKept
<1> QED BY <1>1, PagesInvariant, PTL

\* THEOREM: a save removes the stored password for a key or a managed identity
\* only, whatever the copy is that the server compares it with. (What a test or an
\* update of the form does to it is another matter: PasswordKept.)
THEOREM SavesKeepPassword == Spec => SaveKeepsPassword
<1>1. PagesInv /\ [Next]_pagesVars =>
        [page = "connection" /\ saved.password # Nil /\ saved'.password = Nil /\ Head(sent).op = "save" =>
           LET v == Head(sent).v
           IN v.identity \/ (v.flavor = "snowflake" /\ v.byKey)
        ]_<<page, sent, connectionVars>>
  BY PasswordGivenUp, StepOfPage DEF PagesInv, pagesVars, connectionVars
<1> QED BY <1>1, PagesInvariant, PTL DEF Spec, SaveKeepsPassword

\* THEOREM: the sample of a schedule is the one of what the form has.
THEOREM ScheduleSampleInStep == Spec => []SampleInStep
<1>1. PagesInv => SampleInStep
  BY SchedulesInvImplies DEF PagesInv
<1> QED BY <1>1, PagesInvariant, PTL

\* THEOREM: the verdict the wizard shows is about the group as it was entered.
THEOREM WizardPreviewInStep == Spec => []PreviewInStep
<1>1. PagesInv => PreviewInStep
  BY WizardInvImplies DEF PagesInv
<1> QED BY <1>1, PagesInvariant, PTL

\* THEOREM: the list shows the groups its filter asks for.
THEOREM GroupListFiltered == Spec => []GroupsFiltered
<1>1. PagesInv => GroupsFiltered
  BY GroupListInvImplies DEF PagesInv
<1> QED BY <1>1, PagesInvariant, PTL

\* THEOREM: a form of a suite in which nothing was entered shows settings that its
\* suite was given, though perhaps not the last ones.
THEOREM FormShowsOwnSettings == Spec => []OwnSettingsShown
<1>1. PagesInv => OwnSettingsShown
  BY SuitesInvImplies DEF PagesInv
<1> QED BY <1>1, PagesInvariant, PTL

\* THEOREM: the generation dialog tells of what was locked.
THEOREM LocksTold == Spec => []LockTold
<1>1. PagesInv => LockTold
  BY SuitesInvImplies DEF PagesInv
<1> QED BY <1>1, PagesInvariant, PTL

\* THEOREM: no answer changes the generation set that was picked.
THEOREM PickedSetKept == Spec => SetKept
<1>1. PagesInv /\ [Next]_pagesVars =>
        [Take /\ Suites /\ GenerateOpen /\ desk'.generation.info.suite = desk.generation.info.suite =>
           desk'.generation.set = desk.generation.set]_<<page, sent, suiteVars>>
  BY SetStays, StepOfPage DEF PagesInv, Suites, pagesVars, suiteVars
<1> QED BY <1>1, PagesInvariant, PTL DEF Spec, SetKept

\* THEOREM: what was deleted is not edited any more.
THEOREM DeletionEndsEditing == Spec => DeletedNotEdited
<1>1. PagesInv /\ [Next]_pagesVars =>
        [Take /\ page = "notifications" /\ Head(sent).op = "delete" /\ notices.open =>
           ~(panel'.form.isEdit /\ panel'.form.id = Head(sent).id)]_<<page, sent, noticeVars>>
  BY NoticeDeleted, StepOfPage DEF PagesInv, pagesVars, noticeVars
<1> QED BY <1>1, PagesInvariant, PTL DEF Spec, DeletedNotEdited

\* THEOREM: the dialogs of the monitors that are open are those the session
\* holds open.
THEOREM MonitorDialogsFollow == Spec => []DialogsFollow
<1>1. PagesInv => DialogsFollow
  BY MonitorsInvImplies DEF PagesInv
<1> QED BY <1>1, PagesInvariant, PTL

\* THEOREM: the page changes the settings of the suite its form was filled from.
THEOREM SettingsKeptApart == Spec => OwnSettingsKept
<1>1. PagesInv /\ [Next]_pagesVars =>
        [page = "monitors" /\ sent # <<>> /\ sent' # sent =>
           \A k \in Made :
             monitors.config[k] # Unmade /\ monitors'.config[k] # monitors.config[k] =>
               \/ Head(sent).op = "save" /\ Head(sent).on = k /\ monitors'.config[k] = Head(sent).shown
               \/ Head(sent).op = "delete" /\ board.suite = k]_<<page, sent, monitorVars>>
  BY SettingsStayOwn, StepOfPage DEF PagesInv, pagesVars, monitorVars
<1> QED BY <1>1, PagesInvariant, PTL DEF Spec, OwnSettingsKept

\* THEOREM: the dialogs of the catalog that are open are those the session holds
\* open.
THEOREM CatalogDialogsFollow == Spec => []BoxesFollow
<1>1. PagesInv => BoxesFollow
  BY BoxesInvImplies DEF PagesInv
<1> QED BY <1>1, PagesInvariant, PTL

\* THEOREM: a file is imported at most once.
THEOREM FilesImportedOnce == Spec => []ImportedOnce
<1>1. PagesInv => ImportedOnce
  BY BoxesInvImplies DEF PagesInv
<1> QED BY <1>1, PagesInvariant, PTL

\* THEOREM: opening the schedule picker on what it made of a schedule, and closing
\* it, never changes when the schedule runs.
THEOREM ReopeningKeeps == Spec => []ReopenKeeps
<1>1. PagesInv => ReopenKeeps
  BY PickerInvImplies DEF PagesInv
<1> QED BY <1>1, PagesInvariant, PTL

\* THEOREM: once nothing is on its way, a save stores what the toolbar of the score
\* explorer shows, if columns are never selected as a whole table group.
THEOREM ToolbarKept ==
  ASSUME ColumnsTold
  PROVE  Spec => []ToolbarInStep
<1>1. PagesInv => ToolbarInStep
  BY ToolbarFollows DEF PagesInv
<1> QED BY <1>1, PagesInvariant, PTL
=============================================================================
