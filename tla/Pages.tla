------------------------------- MODULE Pages -------------------------------
(***************************************************************************)
(* The pages of the user interface, one of which is open. Each brings its    *)
(* own state, its handlers and its callbacks; the state of the others is     *)
(* idle.                                                                     *)
(***************************************************************************)
EXTENDS GridPages, TestDefinitionDialogs, ConnectionForm, RunLists, Schedules,
        TableGroups, DataCatalog, TestSuites, Notifications, ScoreExplorer,
        Monitors, CatalogDialogs

pagesVars == <<page, sent, gridVars, dialogVars, connectionVars, listVars, cronVars,
               scheduleVars, groupVars, catalogVars, suiteVars, noticeVars, explorerVars,
               monitorVars, boxVars>>

Idle(v) == v = "idle"

Init ==
  /\ page \in DOMAIN MaxSent /\ sent = <<>>
  /\ IF page \in GridPage THEN GridInit ELSE Idle(ui) /\ Idle(server) /\ Idle(picked)
  /\ IF page \in {"testForm", "copyMove"} THEN DialogsInit
     ELSE Idle(form) /\ Idle(entered) /\ Idle(copy) /\ Idle(session) /\ Idle(suiteOf)
  /\ IF page = "connection" THEN ConnectionInit
     ELSE Idle(connection) /\ Idle(saved) /\ Idle(fetched) /\ Idle(typed)
  /\ IF page \in ListPage THEN ListsInit
     ELSE Idle(list) /\ Idle(timers) /\ Idle(cache) /\ Idle(pageAsked) /\ Idle(runs)
  /\ IF page = "crontab" THEN PickerInit ELSE Idle(shown) /\ Idle(editor)
  /\ IF page = "schedules" THEN SchedulesInit ELSE Idle(scheduleForm) /\ Idle(schedules)
  /\ IF page \in GroupPage THEN GroupsInit ELSE Idle(dialog) /\ Idle(groups)
  /\ IF page = "catalog" THEN CatalogInit ELSE Idle(tree) /\ Idle(catalog)
  /\ IF page \in {"suites", "suiteTests"} THEN SuitesInit ELSE Idle(desk) /\ Idle(suites)
  /\ IF page = "notifications" THEN NotificationsInit ELSE Idle(panel) /\ Idle(notices)
  /\ IF page = "explorer" THEN ExplorerInit ELSE Idle(explorer) /\ Idle(params) /\ Idle(stored)
  /\ IF page = "monitors" THEN MonitorsInit ELSE Idle(board) /\ Idle(monitors)
  /\ IF page = "catalogDialogs" THEN BoxesInit ELSE Idle(boxes) /\ Idle(kept)

\* A step of the page that is open leaves the other pages alone.
Grids == page \in GridPage /\ GridNext
         /\ UNCHANGED <<dialogVars, connectionVars, listVars, cronVars, scheduleVars, groupVars,
                        catalogVars, suiteVars, noticeVars, explorerVars, monitorVars, boxVars>>
Dialogs == page \in {"testForm", "copyMove"} /\ DialogsNext
           /\ UNCHANGED <<gridVars, connectionVars, listVars, cronVars, scheduleVars, groupVars,
                          catalogVars, suiteVars, noticeVars, explorerVars, monitorVars, boxVars>>
Connection == page = "connection" /\ ConnectionNext
              /\ UNCHANGED <<gridVars, dialogVars, listVars, cronVars, scheduleVars, groupVars,
                             catalogVars, suiteVars, noticeVars, explorerVars, monitorVars,
                             boxVars>>
Lists == page \in ListPage /\ ListsNext
         /\ UNCHANGED <<gridVars, dialogVars, connectionVars, cronVars, scheduleVars, groupVars,
                        catalogVars, suiteVars, noticeVars, explorerVars, monitorVars, boxVars>>
Picker == page = "crontab" /\ PickerNext
          /\ UNCHANGED <<gridVars, dialogVars, connectionVars, listVars, scheduleVars, groupVars,
                         catalogVars, suiteVars, noticeVars, explorerVars, monitorVars, boxVars>>
SchedulesPage == page = "schedules" /\ SchedulesNext
                 /\ UNCHANGED <<gridVars, dialogVars, connectionVars, listVars, cronVars,
                                groupVars, catalogVars, suiteVars, noticeVars, explorerVars,
                                monitorVars, boxVars>>
Groups == page \in GroupPage /\ GroupsNext
          /\ UNCHANGED <<gridVars, dialogVars, connectionVars, listVars, cronVars, scheduleVars,
                         catalogVars, suiteVars, noticeVars, explorerVars, monitorVars, boxVars>>
CatalogPage == page = "catalog" /\ CatalogNext
               /\ UNCHANGED <<gridVars, dialogVars, connectionVars, listVars, cronVars,
                              scheduleVars, groupVars, suiteVars, noticeVars, explorerVars,
                              monitorVars, boxVars>>
SuitesPage == page \in {"suites", "suiteTests"} /\ SuitesNext
              /\ UNCHANGED <<gridVars, dialogVars, connectionVars, listVars, cronVars,
                             scheduleVars, groupVars, catalogVars, noticeVars, explorerVars,
                             monitorVars, boxVars>>
NoticesPage == page = "notifications" /\ NotificationsNext
               /\ UNCHANGED <<gridVars, dialogVars, connectionVars, listVars, cronVars,
                              scheduleVars, groupVars, catalogVars, suiteVars, explorerVars,
                              monitorVars, boxVars>>
ExplorerPage == page = "explorer" /\ ExplorerNext
                /\ UNCHANGED <<gridVars, dialogVars, connectionVars, listVars, cronVars,
                               scheduleVars, groupVars, catalogVars, suiteVars, noticeVars,
                               monitorVars, boxVars>>
MonitorsPage == page = "monitors" /\ MonitorsNext
                /\ UNCHANGED <<gridVars, dialogVars, connectionVars, listVars, cronVars,
                               scheduleVars, groupVars, catalogVars, suiteVars, noticeVars,
                               explorerVars, boxVars>>
CatalogDialogsPage == page = "catalogDialogs" /\ BoxesNext
                      /\ UNCHANGED <<gridVars, dialogVars, connectionVars, listVars, cronVars,
                                     scheduleVars, groupVars, catalogVars, suiteVars, noticeVars,
                                     explorerVars, monitorVars>>

Next ==
  \/ Grids \/ Dialogs \/ Connection \/ Lists \/ Picker \/ SchedulesPage
  \/ Groups \/ CatalogPage \/ SuitesPage \/ NoticesPage \/ ExplorerPage
  \/ MonitorsPage \/ CatalogDialogsPage

Spec == Init /\ [][Next]_pagesVars
=============================================================================
