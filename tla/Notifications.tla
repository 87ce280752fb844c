--------------------------- MODULE Notifications ---------------------------
(***************************************************************************)
(* The notifications dialog (components/notification_settings.js): the form   *)
(* that adds and edits a notification, the list, and the callbacks of         *)
(* views/dialogs/manage_notifications.py. A notification has recipients, of   *)
(* which there must be some; its scope, trigger and thresholds are one more   *)
(* value, its setting.                                                       *)
(***************************************************************************)
EXTENDS Browser, FiniteSets

CONSTANTS
  Notification,  \* the notifications there can be
  Recipient,
  Rule,          \* the values of scope and trigger
  FirstRule,     \* those of an empty form
  NoNotification

ASSUME NotificationsAssumption ==
  FirstRule \in Rule /\ IsFiniteSet(Notification) /\ NoNotification \notin Notification

VARIABLES
  panel,   \* the dialog: its form and what it was given
  notices  \* the notifications and the session, on the server

noticeVars == <<panel, notices>>

EmptyNotice == [id |-> NoNotification, recipients |-> {}, rule |-> FirstRule, isEdit |-> FALSE]

Notices == page = "notifications" /\ panel.open

\* No dialog has data before it is asked for, and after it is closed.
Listing == IF "items" \in DOMAIN panel.data THEN panel.data.items ELSE <<>>

-----------------------------------------------------------------------------
(* The dialog.                                                              *)

TypeNotice ==
  /\ Notices
  /\ \/ \E r \in SUBSET Recipient : panel' = [panel EXCEPT !.form.recipients = r]
     \/ \E r \in Rule : panel' = [panel EXCEPT !.form.rule = r]
  /\ UNCHANGED sent

\* What is being edited has no buttons.
Buttons(n) == Notices /\ n \in DOMAIN Listing /\ ~(panel.form.isEdit /\ panel.form.id = n)

EditNotice(n) ==
  /\ Buttons(n)
  /\ panel' = [panel EXCEPT !.form = [id |-> n, recipients |-> Listing[n].recipients,
                                      rule |-> Listing[n].rule, isEdit |-> TRUE]]
  /\ UNCHANGED sent

CancelEdit ==
  /\ Notices /\ panel.form.isEdit
  /\ panel' = [panel EXCEPT !.form = EmptyNotice]
  /\ UNCHANGED sent

\* Bounded by the notifications there can be: an id is never given again.
CanAdd ==
  Cardinality(notices.made) + Cardinality({i \in DOMAIN sent : sent[i].op = "add"})
    < Cardinality(Notification)

SaveNotice ==
  /\ Notices
  /\ panel.form.isEdit \/ CanAdd
  /\ Emit([op |-> IF panel.form.isEdit THEN "update" ELSE "add", id |-> panel.form.id,
           recipients |-> panel.form.recipients, rule |-> panel.form.rule])
  /\ UNCHANGED panel

ButtonClicked(n) ==
  /\ Buttons(n)
  /\ \E op \in {IF Listing[n].enabled THEN "pause" ELSE "resume", "delete"} :
       Emit([op |-> op, id |-> n, item |-> Listing[n]])
  /\ UNCHANGED panel

CloseNotices ==
  /\ Notices
  /\ panel' = [panel EXCEPT !.open = FALSE]
  /\ Emit([op |-> "close", id |-> NoNotification])

\* The button of the page behind it.
OpenNotices ==
  /\ page = "notifications" /\ ~panel.open
  /\ Emit([op |-> "open", id |-> NoNotification]) /\ UNCHANGED panel

-----------------------------------------------------------------------------
(* The server.                                                              *)

NoResult == [message |-> "none", success |-> FALSE]

NoData == [result |-> NoResult]

\* build_data, for a dialog the session has open.
DataOf(s) == IF s.open THEN [result |-> s.result, items |-> s.items] ELSE NoData

\* The object that get returns for an id: a copy from the cache, older than the
\* row perhaps, or the row itself, which is cached as it was read. Nothing is
\* cached for an id that is not there, and none is found again.
Object(s, n) == IF n \in DOMAIN s.copies THEN s.copies[n] ELSE s.items[n]

Fetched(s, n) ==
  IF n \in DOMAIN s.items \ DOMAIN s.copies
  THEN [s EXCEPT !.copies = [i \in DOMAIN @ \cup {n} |-> Object(s, i)]]
  ELSE s

\* The values that an action sets. The other fields have their value already.
Changes(s, e) ==
  CASE e.op = "update" -> [Object(s, e.id) EXCEPT !.recipients = e.recipients, !.rule = e.rule]
    [] e.op = "pause" -> [Object(s, e.id) EXCEPT !.enabled = FALSE]
    [] e.op = "resume" -> [Object(s, e.id) EXCEPT !.enabled = TRUE]

\* The callback works: the notification is there, and has recipients.
Valid(s, e) ==
  CASE e.op = "add" -> e.recipients # {}
    [] e.op \in {"update", "pause", "resume"} ->
         e.id \in DOMAIN s.items /\ Changes(s, e).recipients # {}
    [] e.op = "delete" -> TRUE

\* _update_item: only what differs from the object is written to the row.
Updated(s, e) ==
  LET old == Object(s, e.id)
      new == Changes(s, e)
  IN [s.items[e.id] EXCEPT
        !.recipients = IF new.recipients # old.recipients THEN new.recipients ELSE @,
        !.rule = IF new.rule # old.rule THEN new.rule ELSE @,
        !.enabled = IF new.enabled # old.enabled THEN new.enabled ELSE @]

Handled(s, e) ==
  CASE e.op = "add" ->
         LET n == CHOOSE n \in Notification : n \notin s.made
         IN [s EXCEPT !.made = @ \cup {n}, !.items = [i \in DOMAIN s.items \cup {n} |->
               IF i \in DOMAIN s.items THEN s.items[i]
               ELSE [recipients |-> e.recipients, rule |-> e.rule, enabled |-> TRUE]]]
    [] e.op \in {"update", "pause", "resume"} ->
         [s EXCEPT !.items = [i \in DOMAIN s.items |-> IF i = e.id THEN Updated(s, e) ELSE s.items[i]]]
    [] e.op = "delete" -> [s EXCEPT !.items = [i \in DOMAIN s.items \ {e.id} |-> s.items[i]]]

\* event_handler. Its "idx" starts again with each run of the script and is
\* the same each time.
NoticeCalled(s, e) ==
  CASE e.op = "close" -> [s EXCEPT !.result = NoResult, !.open = FALSE]
    [] e.op = "open" -> [s EXCEPT !.open = TRUE]
    [] OTHER ->
         LET f == Fetched(s, e.id)
         IN IF Valid(f, e) THEN [Handled(f, e) EXCEPT !.result = [message |-> e.op, success |-> TRUE]]
            ELSE [f EXCEPT !.result = [message |-> "error", success |-> FALSE]]

\* Mutant: only the saving of the notification ends its editing.
FormAfterUpdate(form, data) ==
  IF data # NoData /\ data.result.message = "update" /\ form.isEdit THEN EmptyNotice ELSE form

\* A success ends the editing, whatever it was a success of.
FormAfter(form, data) ==
  IF data # NoData /\ data.result.success /\ form.isEdit THEN EmptyNotice ELSE form

\* The dialog gets its data again when some of it is other than before. A
\* dialog that is closed on the server gets none. Any session that loads or
\* leaves a page may have cleared the cache.
ServeNotices ==
  /\ page = "notifications" /\ Take
  /\ \E copies \in {notices.copies, <<>>} :
       notices' = NoticeCalled([notices EXCEPT !.copies = copies], Head(sent))
  /\ LET data == DataOf(notices')
     IN panel' = IF data = panel.data THEN panel
                 ELSE [panel EXCEPT !.data = data, !.open = @ \/ data # NoData,
                                    !.form = FormAfter(@, data)]

-----------------------------------------------------------------------------
NotificationsInit ==
  \E some \in SUBSET Notification :
    /\ notices = [items |-> [n \in some |-> [recipients |-> Recipient, rule |-> FirstRule, enabled |-> TRUE]],
                  made |-> some, copies |-> <<>>, result |-> NoResult, open |-> FALSE]
    /\ panel = [data |-> NoData, form |-> EmptyNotice, open |-> FALSE]

NotificationsUser ==
  \/ OpenNotices \/ CloseNotices
  \/ TypeNotice \/ CancelEdit \/ SaveNotice
  \/ \E n \in Notification : EditNotice(n) \/ ButtonClicked(n)

NotificationsNext ==
  /\ (NotificationsUser /\ UNCHANGED notices) \/ ServeNotices
  /\ UNCHANGED page

-----------------------------------------------------------------------------
(* Properties.                                                              *)

\* A notification that is deleted while its editing begins is not edited any
\* more, as long as the dialog stays open on the server.
DeletedNotEdited ==
  [][Take /\ page = "notifications" /\ Head(sent).op = "delete" /\ notices.open =>
       ~(panel'.form.isEdit /\ panel'.form.id = Head(sent).id)]_<<page, sent, noticeVars>>

\* A notification that is saved is not being edited any more: "The ever-changing
\* idx is useful to force refreshing the component".
SavedCloses ==
  [][Take /\ page = "notifications" /\ Head(sent).op = "update" /\ notices'.result.success =>
       ~panel'.form.isEdit]_<<page, sent, noticeVars>>
=============================================================================
