------------------------------ MODULE Monitors ------------------------------
(***************************************************************************)
(* The dashboard of the monitors (pages/monitors_dashboard.js) with the       *)
(* dialogs it mounts, and their callbacks (views/monitors_dashboard.py).      *)
(* The session remembers which dialogs are open; each run of the script       *)
(* builds them for the table group that is chosen, and the callbacks it       *)
(* registers are about that group. A dialog whose callbacks the last run did   *)
(* not register hears nothing.                                               *)
(*                                                                          *)
(* A group's monitors are a test suite. Suites are numbered in the order      *)
(* they are made; 0 stands for none.                                        *)
(***************************************************************************)
EXTENDS Browser, FiniteSets

CONSTANTS
  Watched,        \* the table groups
  Config,         \* what the settings of a suite, its schedule included, may be
  DefaultConfig,  \* what the form starts with when there is no suite
  Panel,          \* the dialogs other than that of the settings
  MaxSuites,      \* bound on the suites ever made
  Unmade          \* the settings of a suite that is not there

ASSUME MonitorsAssumption ==
  /\ DefaultConfig \in Config /\ Unmade \notin Config
  /\ MaxSuites \in Nat \ {0}

VARIABLES
  board,      \* the dashboard's state in the browser
  monitors    \* the query parameter, the session, and the suites in the database

monitorVars == <<board, monitors>>

Dialog == {"settings"} \cup Panel
Made == 1..MaxSuites

NoPanel == [group |-> Unmade]
NoSettings == [on |-> 0, shown |-> Unmade, saved |-> Unmade]
NoSaved == [on |-> 0, shown |-> Unmade]

SuiteOfGroup(m) == m.suite[m.chosen]

-----------------------------------------------------------------------------
(* A run of the script, and what reaches the browser.                       *)

\* The data of a dialog that the session holds open. The samples of the
\* schedule, the logs and the outcome of a save are there in one run only.
PanelData(m, d, once) ==
  IF d \notin m.keys THEN NoPanel
  ELSE [group |-> m.chosen, suite |-> SuiteOfGroup(m), config |-> m.config[SuiteOfGroup(m)],
        once |-> once = d]

\* MonitorSettingsForm: the settings, or the defaults.
SettingsMounted(data) ==
  [on |-> data.suite, saved |-> data.config,
   shown |-> IF data.config = Unmade THEN DefaultConfig ELSE data.config]

\* The form is mounted once, for the data that came first, and stays until
\* there is none.
SettingsShown(form, data) ==
  IF data = NoPanel THEN NoSettings ELSE IF form = NoSettings THEN SettingsMounted(data) ELSE form

\* Mutant: a dialog opens with its data and closes by its button alone.
BoardBuiltOpening(b, m, once) ==
  LET data == [d \in Dialog |-> PanelData(m, d, once)]
  IN [b EXCEPT !.group = m.chosen, !.suite = SuiteOfGroup(m), !.data = data,
               !.open = {d \in Dialog : data[d] # NoPanel /\ data[d] # b.data[d]} \cup b.open,
               !.form = SettingsShown(@, data["settings"])]

\* A dialog follows its data whenever they change, also after the user closed it.
BoardBuilt(b, m, once) ==
  LET data == [d \in Dialog |-> PanelData(m, d, once)]
  IN [b EXCEPT !.group = m.chosen, !.suite = SuiteOfGroup(m), !.data = data,
               !.open = {d \in Dialog : data[d] # NoPanel /\ (data[d] # b.data[d] \/ d \in b.open)},
               !.form = SettingsShown(@, data["settings"])]

NoBoard == [group |-> Unmade, suite |-> 0, data |-> [d \in Dialog |-> NoPanel], open |-> {},
            form |-> NoSettings, removing |-> FALSE]

-----------------------------------------------------------------------------
(* The browser.                                                             *)

Uncovered == page = "monitors" /\ board.open = {} /\ ~board.removing

ChooseGroup(g) ==
  /\ Uncovered /\ g # board.group
  /\ Emit([op |-> "group", group |-> g]) /\ UNCHANGED board

\* Sorting, paging and the filters of the tables.
ChangeView == Uncovered /\ board.suite # 0 /\ Emit([op |-> "view"]) /\ UNCHANGED board

\* A group without monitors offers to configure them, and nothing else.
DialogOffered(d) == board.suite # 0 \/ d = "settings"

OpenDialog(d) ==
  /\ Uncovered /\ DialogOffered(d)
  /\ Emit([op |-> "open", dialog |-> d]) /\ UNCHANGED board

CloseDialog(d) ==
  /\ d \in board.open
  /\ Emit([op |-> "close", dialog |-> d])
  /\ board' = [board EXCEPT !.open = @ \ {d}]

SettingsChanged(c) ==
  /\ "settings" \in board.open /\ c # board.form.shown
  /\ board' = [board EXCEPT !.form.shown = c]

\* A schedule that changes asks for its next times.
ChangeSchedule(c) == SettingsChanged(c) /\ Emit([op |-> "sample"])

\* The other settings, and whether the schedule is active.
ChangeOptions(c) == SettingsChanged(c) /\ UNCHANGED sent

SaveSettings ==
  /\ "settings" \in board.open /\ board.form.shown # board.form.saved
  /\ Emit([op |-> "save", on |-> board.form.on, shown |-> board.form.shown]) /\ UNCHANGED board

\* A panel asks the server: for the changes at a point of the trends or for more
\* history; to save what it edits, and to close then.
AskPanel(d, close) ==
  d \in Panel \cap board.open /\ Emit([op |-> "ask", dialog |-> d, close |-> close]) /\ UNCHANGED board

\* The dialog that deletes the monitors. The checkbox is ticked and the button
\* pressed in one step.
AskRemoval ==
  /\ Uncovered /\ board.suite # 0
  /\ board' = [board EXCEPT !.removing = TRUE] /\ UNCHANGED sent

LeaveRemoval ==
  /\ board.removing
  /\ board' = [board EXCEPT !.removing = FALSE] /\ UNCHANGED sent

ConfirmRemoval ==
  /\ board.removing
  /\ Emit([op |-> "delete"])
  /\ board' = [board EXCEPT !.removing = FALSE]

BoardUser ==
  \/ \E g \in Watched : ChooseGroup(g)
  \/ ChangeView
  \/ \E d \in Dialog : OpenDialog(d) \/ CloseDialog(d)
  \/ \E c \in Config : ChangeSchedule(c) \/ ChangeOptions(c)
  \/ SaveSettings
  \/ \E d \in Panel, close \in BOOLEAN : AskPanel(d, close)
  \/ AskRemoval \/ LeaveRemoval \/ ConfirmRemoval

-----------------------------------------------------------------------------
(* The server.                                                              *)

MonitorsDropped(m, k) ==
  [m EXCEPT !.config = [m.config EXCEPT ![k] = Unmade],
            !.suite = [g \in Watched |-> IF m.suite[g] = k THEN 0 ELSE m.suite[g]]]

BoardHears(d) == board.data[d] # NoPanel

\* The callbacks. A save is kept in the session under the suite that the last
\* run knew of.
MonitorsCalled(e) ==
  CASE e.op = "group"  -> [monitors EXCEPT !.chosen = e.group]
    [] e.op = "open"   -> [monitors EXCEPT !.keys = @ \cup {e.dialog}]
    [] e.op = "close" /\ BoardHears(e.dialog) -> [monitors EXCEPT !.keys = @ \ {e.dialog}]
    [] e.op = "ask" /\ BoardHears(e.dialog) /\ e.close -> [monitors EXCEPT !.keys = @ \ {e.dialog}]
    [] e.op = "save" /\ BoardHears("settings") /\ board.suite = 0 ->
         [monitors EXCEPT !.left = [on |-> e.on, shown |-> e.shown]]
    [] e.op = "delete" /\ board.suite # 0 -> MonitorsDropped(monitors, board.suite)
    [] OTHER -> monitors

\* The save that the run finds under the suite of the group it builds the
\* settings for.
SaveFound(m, e) ==
  IF "settings" \notin m.keys THEN NoSaved
  ELSE IF SuiteOfGroup(m) = 0 THEN m.left
  ELSE IF e.op = "save" /\ BoardHears("settings") /\ board.suite = SuiteOfGroup(m)
         THEN [on |-> e.on, shown |-> e.shown]
  ELSE NoSaved

\* Mutant: the form does not say which suite it is about.
WrittenToGroup(m, p) == SuiteOfGroup(m)

\* Every field of the form is written to the suite of the group, its identity
\* included.
WrittenTo(m, p) == p.on

\* The database refuses an identity that changes or is taken.
SaveRefused(m, p) ==
  IF SuiteOfGroup(m) # 0 THEN WrittenTo(m, p) # SuiteOfGroup(m)
  ELSE WrittenTo(m, p) # 0 /\ m.config[WrittenTo(m, p)] # Unmade

\* A suite that has no identity is new, and becomes the group's.
NewSuite(m, p) == SuiteOfGroup(m) = 0 /\ WrittenTo(m, p) = 0

SettingsSaved(m, p) ==
  LET k == IF NewSuite(m, p) THEN m.made + 1 ELSE WrittenTo(m, p)
      s == [m EXCEPT !.config = [m.config EXCEPT ![k] = p.shown], !.keys = @ \ {"settings"},
                     !.left = IF SuiteOfGroup(m) = 0 THEN NoSaved ELSE m.left]
  IN IF NewSuite(m, p)
       THEN [s EXCEPT !.made = k, !.suite = [m.suite EXCEPT ![m.chosen] = k]] ELSE s

ShownOnce(e) ==
  CASE e.op = "sample" /\ BoardHears("settings") -> "settings"
    [] e.op = "ask" /\ BoardHears(e.dialog) /\ ~e.close -> e.dialog
    [] OTHER -> "none"

\* The page shows an error, until it is loaded again in a new session.
BoardReloaded(m) == [m EXCEPT !.keys = {} , !.left = NoSaved]

ServeMonitors ==
  /\ page = "monitors" /\ sent # <<>>
  /\ LET e == Head(sent)
         m == MonitorsCalled(e)
         p == SaveFound(m, e)
     IN /\ (p # NoSaved /\ NewSuite(m, p)) => m.made < MaxSuites
        /\ IF p # NoSaved /\ SaveRefused(m, p)
           THEN /\ monitors' = BoardReloaded(monitors)
                /\ board' = BoardBuilt(NoBoard, monitors', "none")
                /\ sent' = <<>>
           ELSE /\ monitors' = IF p = NoSaved THEN m ELSE SettingsSaved(m, p)
                /\ board' = BoardBuilt(board, monitors', ShownOnce(e))
                /\ sent' = IF board.form = NoSettings /\ board'.form # NoSettings
                             THEN Append(Tail(sent), [op |-> "sample"]) ELSE Tail(sent)

\* Another user configures, changes or deletes the monitors of a group.
Elsewhere(g) ==
  /\ page = "monitors"
  /\ LET k == monitors.suite[g]
         n == monitors.made + 1
     IN \/ /\ k = 0 /\ n <= MaxSuites
           /\ \E c \in Config :
                monitors' = [monitors EXCEPT !.made = n, !.suite = [monitors.suite EXCEPT ![g] = n],
                                             !.config = [monitors.config EXCEPT ![n] = c]]
        \/ /\ k # 0
           /\ \/ \E c \in Config \ {monitors.config[k]} :
                   monitors' = [monitors EXCEPT !.config = [monitors.config EXCEPT ![k] = c]]
              \/ monitors' = MonitorsDropped(monitors, k)
  /\ UNCHANGED <<sent, board>>

\* The dashboard of a group with monitors or without.
MonitorsInit ==
  /\ \E g, h \in Watched, c \in Config :
       monitors = [chosen |-> g, keys |-> {}, left |-> NoSaved, made |-> 1,
                   suite |-> [i \in Watched |-> IF i = h THEN 1 ELSE 0],
                   config |-> [k \in 0..MaxSuites |-> IF k = 1 THEN c ELSE Unmade]]
  /\ board = BoardBuilt(NoBoard, monitors, "none")

MonitorsNext ==
  /\ UNCHANGED page
  /\ \/ page = "monitors" /\ BoardUser /\ UNCHANGED monitors
     \/ ServeMonitors
     \/ \E g \in Watched : Elsewhere(g)

-----------------------------------------------------------------------------
(* Properties.                                                              *)

\* Once nothing is on its way, the dialogs that are open are those the session
\* holds open, whoever closed them and whatever was delivered in between.
DialogsFollow == page = "monitors" /\ Quiet => board.open = monitors.keys

\* Of the suites that there are, the page changes the settings of the one that
\* the form was filled from and deletes the one of the group last shown,
\* whatever group was chosen and whatever other users did meanwhile.
OwnSettingsKept ==
  [][page = "monitors" /\ sent # <<>> /\ sent' # sent =>
       \A k \in Made :
         monitors.config[k] # Unmade /\ monitors'.config[k] # monitors.config[k] =>
           \/ Head(sent).op = "save" /\ Head(sent).on = k /\ monitors'.config[k] = Head(sent).shown
           \/ Head(sent).op = "delete" /\ board.suite = k]_<<page, sent, monitorVars>>
=============================================================================
