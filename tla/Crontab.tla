------------------------------ MODULE Crontab ------------------------------
(***************************************************************************)
(* The schedule picker (components/crontab_input.js). It reads a cron        *)
(* expression into the fields of one of four modes when it is opened, and    *)
(* writes the expression anew from the fields whenever one changes, the      *)
(* first time as soon as it is open. Minutes are carried along unchanged and *)
(* left out; a field of the expression is any value, every n-th, or a list,  *)
(* and the days of the week are the ranges from one day to another.          *)
(***************************************************************************)
EXTENDS Browser, Integers, FiniteSets, FiniteSetsExt

CONSTANTS
  HourStep, StartHour,   \* choices offered in the mode "every x hours"
  DayStep, StartDay,     \* ... "every x days"
  AtHour, Weekday,       \* ... both modes of days
  Typed,                 \* expressions typed by hand, as cron admits them
  MaxPicks,              \* bound on the changes between opening and closing
  NoCron

TimeField == [is : {"any", "every", "list"}, of : SUBSET Nat]
Expression == [hour : TimeField, day : TimeField, week : SUBSET ((0..6) \X (0..6))]

\* A field carries nothing, one step, or a list of some of its values.
FieldForm(field, values) ==
  /\ field.is = "any" => field.of = {}
  /\ field.is = "every" => \E n \in field.of : field.of = {n}
  /\ field.is = "list" => field.of # {} /\ field.of \subseteq values

ASSUME CrontabAssumption ==
  /\ HourStep \subseteq 1..24 /\ StartHour \subseteq 0..23
  /\ DayStep \subseteq 1..31 /\ StartDay \subseteq 1..31
  /\ AtHour \subseteq 0..23 /\ Weekday \subseteq 0..6 /\ MaxPicks \in Nat
  /\ Typed \subseteq Expression /\ NoCron \notin Expression
  /\ \A e \in Typed : FieldForm(e.hour, 0..23) /\ FieldForm(e.day, 1..31)

VARIABLES
  shown,    \* the expression in the picker
  editor    \* the fields while the picker is open

cronVars == <<shown, editor>>

AnyTime == [is |-> "any", of |-> {}]
Every(n) == [is |-> "every", of |-> {n}]
Only(list) == [is |-> "list", of |-> list]
Cron(hour, day, week) == [hour |-> hour, day |-> day, week |-> week]

-----------------------------------------------------------------------------
(* Fields to expression.                                                    *)

\* generateSteppedValues
SteppedValues(start, step, max) == {x \in start..max : (x - start) % step = 0}

Stepping(step, start, first, max) ==
  IF step <= 1 THEN AnyTime ELSE IF start > first THEN Only(SteppedValues(start, step, max)) ELSE Every(step)

\* Consecutive days become one range.
Ranges(days) ==
  {r \in days \X days : /\ r[1] <= r[2] /\ r[1]..r[2] \subseteq days
                        /\ r[1] - 1 \notin days /\ r[2] + 1 \notin days}

Generated(f) ==
  CASE f.mode = "x_hours"      -> Cron(Stepping(f.hours, f.startHour, 0, 23), AnyTime, {})
    [] f.mode = "x_days"       -> Cron(Only({f.hour}), Stepping(f.days, f.startDay, 1, 31), {})
    [] f.mode = "certain_days" -> Cron(Only({f.weekHour}), AnyTime, Ranges(f.week))

-----------------------------------------------------------------------------
(* Expression to fields.                                                    *)

\* parseSteppedList: a list of two values or more, each as far from the last.
StepOf(list) == Min(list \ {Min(list)}) - Min(list)
IsStepped(field) ==
  /\ field.is = "list" /\ Cardinality(field.of) > 1
  /\ field.of = SteppedValues(Min(field.of), StepOf(field.of), Max(field.of))

Single(field) == field.is = "list" /\ Cardinality(field.of) = 1
Simple(field) == field.is \in {"any", "every"} \/ IsStepped(field)

\* determineMode
ModeOf(e) ==
  CASE e = NoCron -> "x_hours"
    [] e # NoCron /\ e.day = AnyTime /\ e.week = {} /\ Simple(e.hour) -> "x_hours"
    [] e # NoCron /\ Single(e.hour) /\ e.week = {} /\ Simple(e.day) -> "x_days"
    [] e # NoCron /\ Single(e.hour) /\ e.day = AnyTime /\ e.week # {} -> "certain_days"
    [] OTHER -> "custom"

Blank == [mode |-> "x_hours", hours |-> 1, startHour |-> 0, days |-> 1, hour |-> 1,
          startDay |-> 1, week |-> {}, weekHour |-> 1, left |-> MaxPicks]

StepIn(field) ==
  CASE field.is = "any" -> 1 [] field.is = "every" -> Max(field.of) [] OTHER -> StepOf(field.of)
StartIn(field, first) == IF field.is = "list" THEN Min(field.of) ELSE first

\* Mutant: a list of hours is read without where it starts.
PopulatedFromZero(e) ==
  IF e = NoCron \/ ModeOf(e) # "x_hours" THEN [Blank EXCEPT !.mode = ModeOf(e)]
  ELSE [Blank EXCEPT !.hours = StepIn(e.hour)]

\* populateInitialModeState
Populated(e) ==
  LET f == [Blank EXCEPT !.mode = ModeOf(e)]
  IN CASE e # NoCron /\ f.mode = "x_hours" ->
            [f EXCEPT !.hours = StepIn(e.hour), !.startHour = StartIn(e.hour, 0)]
       [] e # NoCron /\ f.mode = "x_days" ->
            [f EXCEPT !.hour = Max(e.hour.of), !.days = StepIn(e.day), !.startDay = StartIn(e.day, 1)]
       [] e # NoCron /\ f.mode = "certain_days" ->
            [f EXCEPT !.weekHour = Max(e.hour.of),
                      !.week = {d \in 0..6 : \E r \in e.week : r[1] <= d /\ d <= r[2]}]
       [] OTHER -> f

\* What the picker makes of an expression when it is opened on it.
Rewritten(e) == IF ModeOf(e) = "custom" THEN e ELSE Generated(Populated(e))

-----------------------------------------------------------------------------
(* The picker.                                                              *)

Closed == [mode |-> "closed"]
IsOpen == editor.mode # "closed"

OpenPicker ==
  /\ ~IsOpen
  /\ editor' = Populated(shown)
  /\ shown' = Rewritten(shown)

\* A field changed: the expression follows, except in the custom mode.
Edit(f) ==
  /\ IsOpen /\ editor.left > 0
  /\ editor' = [f EXCEPT !.left = @ - 1]
  /\ shown' = (IF f.mode = "custom" THEN shown ELSE Generated(f))

SwitchMode == \E m \in {"x_hours", "x_days", "certain_days", "custom"} : Edit([editor EXCEPT !.mode = m])

\* Back to every hour, the start goes back too.
EditHours ==
  /\ editor.mode = "x_hours"
  /\ \/ \E n \in HourStep : Edit([editor EXCEPT !.hours = n, !.startHour = IF n <= 1 THEN 0 ELSE @])
     \/ \E h \in StartHour : editor.hours > 1 /\ Edit([editor EXCEPT !.startHour = h])

EditDays ==
  /\ editor.mode = "x_days"
  /\ \/ \E n \in DayStep : Edit([editor EXCEPT !.days = n, !.startDay = IF n <= 1 THEN 1 ELSE @])
     \/ \E d \in StartDay : editor.days > 1 /\ Edit([editor EXCEPT !.startDay = d])
     \/ \E h \in AtHour : Edit([editor EXCEPT !.hour = h])

EditCertainDays ==
  /\ editor.mode = "certain_days"
  /\ \/ \E d \in Weekday : Edit([editor EXCEPT !.week = IF d \in @ THEN @ \ {d} ELSE @ \cup {d}])
     \/ \E h \in AtHour : Edit([editor EXCEPT !.weekHour = h])

\* An empty expression is not handed on.
EditCustom ==
  /\ editor.mode = "custom" /\ editor.left > 0
  /\ \E e \in Typed : shown' = e
  /\ editor' = [editor EXCEPT !.left = @ - 1]

ClosePicker == IsOpen /\ editor' = Closed /\ UNCHANGED shown

PickerNext ==
  /\ page = "crontab"
  /\ OpenPicker \/ SwitchMode \/ EditHours \/ EditDays \/ EditCertainDays \/ EditCustom \/ ClosePicker
  /\ UNCHANGED <<page, sent>>

PickerInit ==
  /\ editor = Closed
  /\ IF page = "crontab" THEN shown \in Typed \cup {NoCron} ELSE shown = NoCron

-----------------------------------------------------------------------------
(* Properties.                                                              *)

\* When an expression fires: the days of the month, the hours and the days of
\* the week it admits.
Admitted(field, first, max) ==
  CASE field.is = "any" -> first..max
    [] field.is = "every" -> SteppedValues(first, Max(field.of), max)
    [] OTHER -> field.of

Fires(e) ==
  [hours |-> Admitted(e.hour, 0, 23), days |-> Admitted(e.day, 1, 31),
   week |-> IF e.week = {} THEN 0..6 ELSE UNION {r[1]..r[2] : r \in e.week}]

\* Whatever the fields made of the schedule, closing the picker and opening it
\* again leaves the schedule as it was.
ReopenKeeps ==
  page = "crontab" /\ IsOpen /\ editor.mode # "custom" => Fires(Rewritten(shown)) = Fires(shown)

=============================================================================
