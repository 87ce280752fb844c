----------------------------- MODULE Schedules -----------------------------
(***************************************************************************)
(* The dialog of schedules (components/schedule_list.js) with its callbacks  *)
(* on the server (views/dialogs/manage_schedules.py). Its form lives as long *)
(* as the page; of the picker in it only what it hands on is used here.      *)
(***************************************************************************)
EXTENDS Crontab

CONSTANTS
  Arg,        \* test suites or table groups that can be scheduled
  Zone,       \* time zones
  HomeZone,   \* the browser's own
  Pickable,   \* expressions that the picker hands on
  Invalid,    \* those of them that the server refuses
  MaxRows,    \* bound on the schedules
  Unset

ASSUME SchedulesAssumption == HomeZone \in Zone /\ Invalid \subseteq Pickable /\ MaxRows \in Nat

VARIABLES
  scheduleForm,       \* the dialog in the browser
  schedules   \* the schedules and the session on the server

scheduleVars == <<scheduleForm, schedules>>

\* build_data: what the dialog is given, nothing while the session keeps it shut.
Built(s) ==
  IF s.open THEN [rows |-> s.rows, active |-> s.active, sample |-> s.sample, result |-> s.result]
  ELSE Unset

Blanked(f) == [f EXCEPT !.arg = Unset, !.expr = NoCron, !.zone = HomeZone]

\* The dialog is given other data: it opens if it was shut, and the form is
\* cleared as long as the last result is a success.
DialogBuilt(f, data) ==
  LET g == [f EXCEPT !.data = data]
  IN CASE data = f.data -> f
       [] data # f.data /\ data = Unset -> g
       [] OTHER -> IF data.result = "added" THEN Blanked([g EXCEPT !.open = TRUE])
                   ELSE [g EXCEPT !.open = TRUE]

-----------------------------------------------------------------------------
(* The user.                                                                *)

Filled(f) == page = "schedules" /\ scheduleForm.open /\ scheduleForm' = f

OpenSchedules ==
  page = "schedules" /\ ~scheduleForm.open /\ Emit([op |-> "schedules"]) /\ UNCHANGED scheduleForm

ChooseArg(a) == a # scheduleForm.arg /\ Filled([scheduleForm EXCEPT !.arg = a]) /\ UNCHANGED sent

AskSample(e, z) == Emit([op |-> "sample", of |-> [expr |-> e, zone |-> z]])

\* Mutant: the next runs are not asked for in the new zone.
ChooseZoneOnly(z) == z # scheduleForm.zone /\ Filled([scheduleForm EXCEPT !.zone = z]) /\ UNCHANGED sent

ChooseZone(z) ==
  /\ z # scheduleForm.zone /\ Filled([scheduleForm EXCEPT !.zone = z])
  /\ IF scheduleForm.expr # NoCron THEN AskSample(scheduleForm.expr, z) ELSE UNCHANGED sent

\* The picker is opened, or a field of it changed.
PickSchedule ==
  \E e \in Pickable \cup {Rewritten(scheduleForm.picker)} :
    Filled([scheduleForm EXCEPT !.picker = e, !.expr = e]) /\ AskSample(e, scheduleForm.zone)

AddSchedule ==
  /\ Filled(scheduleForm)
  /\ Emit([op |-> "add", row |-> [arg |-> scheduleForm.arg, expr |-> scheduleForm.expr, zone |-> scheduleForm.zone]])

\* The buttons of a row that is shown.
RowButtons ==
  /\ scheduleForm.data # Unset /\ Filled(scheduleForm)
  /\ \E r \in scheduleForm.data.rows :
       \/ Emit([op |-> "delete", row |-> r])
       \/ Emit([op |-> "active", row |-> r, to |-> r \notin scheduleForm.data.active])

CloseSchedules == Filled([scheduleForm EXCEPT !.open = FALSE]) /\ Emit([op |-> "close"])

-----------------------------------------------------------------------------
(* The server.                                                              *)

\* on_add: the fields are checked, then the expression; the database keeps
\* schedules unique.
AddResult(s, r) ==
  CASE r.arg = Unset \/ r.expr = NoCron -> "incomplete"
    [] r.arg # Unset /\ r.expr \in Invalid -> "invalid"
    [] r.arg # Unset /\ r.expr # NoCron /\ r \in s.rows -> "exists"
    [] OTHER -> "added"

Added(s, r) ==
  LET t == [s EXCEPT !.result = AddResult(s, r)]
  IN IF t.result = "added" THEN [t EXCEPT !.rows = @ \cup {r}, !.active = @ \cup {r}] ELSE t

Scheduled(s, e) ==
  CASE e.op = "schedules" -> [s EXCEPT !.open = TRUE]
    [] e.op = "sample" -> [s EXCEPT !.sample = e.of]
    [] e.op = "add" -> Added(s, e.row)
    [] e.op = "delete" -> [s EXCEPT !.rows = @ \ {e.row}, !.active = @ \ {e.row}, !.result = Unset]
    [] e.op = "active" -> [s EXCEPT !.active = IF e.to THEN (@ \cup {e.row}) \cap s.rows ELSE @ \ {e.row},
                                    !.result = Unset]
    [] e.op = "close" -> [s EXCEPT !.open = FALSE, !.result = Unset, !.sample = Unset]

ServeSchedules ==
  /\ page = "schedules" /\ Take
  /\ schedules' = Scheduled(schedules, Head(sent))
  /\ Cardinality(schedules'.rows) <= MaxRows
  /\ scheduleForm' = DialogBuilt(scheduleForm, Built(schedules'))

ScheduleUser ==
  \/ OpenSchedules \/ CloseSchedules \/ PickSchedule \/ AddSchedule \/ RowButtons
  \/ \E a \in Arg : ChooseArg(a)
  \/ \E z \in Zone : ChooseZone(z)

SchedulesInit ==
  /\ scheduleForm = [open |-> FALSE, arg |-> Unset, expr |-> NoCron, zone |-> HomeZone, picker |-> NoCron,
             data |-> Unset]
  /\ schedules = [open |-> FALSE, rows |-> {}, active |-> {}, sample |-> Unset, result |-> Unset]

SchedulesNext ==
  /\ (ScheduleUser /\ UNCHANGED schedules) \/ ServeSchedules
  /\ UNCHANGED page

-----------------------------------------------------------------------------
(* Properties.                                                              *)

\* Once every event is answered, the next runs that are shown are those of
\* the expression and the time zone in the form, though each change of either
\* is answered later.
SampleInStep ==
  page = "schedules" /\ Quiet /\ scheduleForm.expr # NoCron =>
    schedules.sample \in {Unset, [expr |-> scheduleForm.expr, zone |-> scheduleForm.zone]}

=============================================================================
