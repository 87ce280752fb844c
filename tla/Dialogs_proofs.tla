--------------------------- MODULE Dialogs_proofs ---------------------------
(***************************************************************************)
(* The invariants of the forms and dialogs, and that their steps keep them:  *)
(* what a form shows is what was entered, and what it says of a question is  *)
(* the answer to the question that was asked last, or that question is still *)
(* among the events under way.                                              *)
(***************************************************************************)
EXTENDS TestDefinitionDialogs, ConnectionForm, Schedules, TableGroups, Notifications,
        FiniteSetTheorems, Browser_proofs

-----------------------------------------------------------------------------
(* The dialogs of the test definitions.                                     *)

FormField == {"open", "mode", "info", "values", "verdict", "keeps"}

\* The form that is open holds what was entered.
FormInv ==
  page = "testForm" =>
    /\ form = [f \in FormField |-> form[f]]
    /\ form.open => form.values = entered

LEMMA FormStep == FormInv /\ DialogsNext => FormInv'
<1> SUFFICES ASSUME FormInv, DialogsNext, page = "testForm" PROVE FormInv'
  BY DEF FormInv, DialogsNext
<1>1. page' = page /\ form = [f \in FormField |-> form[f]] /\ (form.open => form.values = entered)
  BY DEF FormInv, DialogsNext
<1>2. CASE UNCHANGED <<form, entered>>
  BY <1>1, <1>2 DEF FormInv
<1>3. ASSUME NEW values, Enter(values) PROVE FormInv'
  BY <1>1, <1>3 DEF Enter, FormInv, FormField
<1>4. ASSUME NEW mode, OpenForm(mode) PROVE FormInv'
  BY <1>1, <1>4 DEF OpenForm, FormInv, FormField
<1>5. CASE CancelForm
  BY <1>1, <1>5 DEF CancelForm, FormInv, FormField
<1>6. CASE AnswerForm
  <2>1. PICK keeps, verdict : form' = FormDelivered(form, keeps, verdict)
    BY <1>6 DEF AnswerForm
  <2>2. entered' = (IF form'.open /\ form.open THEN entered ELSE form'.values)
    BY <1>6 DEF AnswerForm
  <2> DEFINE open == IF keeps = form.info THEN form.open ELSE keeps
             values == IF ~open THEN Absent ELSE IF form.open THEN form.values
                       ELSE IF form.mode = "edit" THEN BlankTest("edited") ELSE Absent
  <2>3. form' = [form EXCEPT !.keeps = keeps, !.info = keeps, !.open = open, !.verdict = verdict,
                             !.values = values]
    BY <2>1 DEF FormDelivered
  <2> HIDE DEF open, values
  <2>4. form' = [f \in FormField |-> form'[f]] /\ form'.open = open /\ form'.values = values
    BY <1>1, <2>3 DEF FormField
  <2>5. open /\ form.open => values = entered
    BY <1>1 DEF values
  <2> QED BY <1>1, <2>2, <2>4, <2>5 DEF FormInv
<1> QED
  BY <1>2, <1>3, <1>4, <1>5, <1>6
  DEF DialogsNext, FormNext, CopyNext, OpenCopy, ChooseTarget, ConfirmCopy, CancelCopy, AnswerCopy,
      ChooseType, ChooseTable, ChooseColumn, SubmitForm

-----------------------------------------------------------------------------
(* Copying and moving. Whatever is served before a copy or a move either     *)
(* clears what is to be overwritten or found it for the same target.         *)

CopyField == {"open", "selected", "collision", "target"}

\* What is to be overwritten, of tests in these suites, is out of the way of
\* the tests ids.
Clears(over, suites_, ids, t) ==
  \A i \in over : i \notin Locked \cup ids /\ suites_[i] = t.suite

\* e was found for t and at least these tests.
FoundFor(e, ids, t) == e.op = "target" => e.target = t /\ ids \subseteq e.selected

CopyOps == {"openCopy", "target", "copy", "move", "cancelCopy"}

\* The events under way.
Chain(q, over, suites_) ==
  /\ Queue(q) /\ \A e \in Elements(q) : e.op \in CopyOps
  /\ \A j \in DOMAIN q : q[j].op \in {"copy", "move"} =>
       /\ j = 1 => Clears(over, suites_, q[j].ids, q[j].target)
       /\ j > 1 => FoundFor(q[j - 1], q[j].ids, q[j].target)
       /\ q[j].target \in Target

\* What comes before a copy that is emitted next.
Follows(q, over, suites_, ids, t) ==
  IF q = <<>> THEN Clears(over, suites_, ids, t) ELSE FoundFor(q[Len(q)], ids, t)

\* The dialog that is open may emit one.
Ready(c, q, over, suites_) ==
  c.open /\ c.target # Absent => Follows(q, over, suites_, c.selected, c.target)

CopyForm(c, s) ==
  /\ c = [f \in CopyField |-> c[f]] /\ (c.open => c.selected # {})
  /\ c.target \in Target \cup {Absent}
  /\ s = [f \in {"selected", "collision", "overwrite"} |-> s[f]]

CopyInv ==
  page = "copyMove" =>
    /\ CopyForm(copy, session)
    /\ Chain(sent, session.overwrite, suiteOf)
    /\ Ready(copy, sent, session.overwrite, suiteOf)

LEMMA ChainGrows ==
  ASSUME NEW q, NEW O, NEW u, Chain(q, O, u), NEW e, e.op \in CopyOps,
         e.op \in {"copy", "move"} => Follows(q, O, u, e.ids, e.target) /\ e.target \in Target
  PROVE  Chain(Append(q, e), O, u) /\ Append(q, e) # <<>> /\ Append(q, e)[Len(Append(q, e))] = e
<1> DEFINE r == Append(q, e)
<1>1. Queue(r) /\ \A x \in Elements(r) : x.op \in CopyOps
  BY QueueSteps DEF Chain
<1>2. /\ Len(q) \in Nat /\ DOMAIN q = 1..Len(q) /\ DOMAIN r = 1..(Len(q) + 1)
      /\ \A j \in DOMAIN q : r[j] = q[j]
      /\ r[Len(q) + 1] = e /\ (Len(q) = 0 => q = <<>>) /\ r # <<>> /\ Len(r) = Len(q) + 1
  BY AppendFacts DEF Chain
<1> HIDE DEF r
<1>3. ASSUME NEW j \in DOMAIN r, r[j].op \in {"copy", "move"}
      PROVE  /\ j = 1 => Clears(O, u, r[j].ids, r[j].target)
             /\ j > 1 => FoundFor(r[j - 1], r[j].ids, r[j].target)
             /\ r[j].target \in Target
  <2>1. CASE j \in DOMAIN q
    <3>1. r[j] = q[j] /\ (j > 1 => r[j - 1] = q[j - 1])
      BY <1>2, <2>1
    <3> QED BY <1>3, <2>1, <3>1 DEF Chain
  <2>2. CASE j \notin DOMAIN q
    <3>1. j = Len(q) + 1 /\ r[j] = e
      BY <1>2, <1>3, <2>2
    <3>2. CASE Len(q) = 0
      BY <1>2, <1>3, <3>1, <3>2 DEF Follows
    <3>3. CASE Len(q) > 0
      <4>1. q # <<>> /\ r[j - 1] = q[Len(q)] /\ j # 1
        BY <1>2, <3>1, <3>3
      <4> QED BY <1>3, <3>1, <4>1 DEF Follows
    <3> QED BY <1>2, <3>2, <3>3
  <2> QED BY <2>1, <2>2
<1> QED BY <1>1, <1>2, <1>3 DEF Chain, r

\* A step that serves nothing.
LEMMA CopyUserStep ==
  ASSUME CopyInv, page = "copyMove", CopyNext, ~AnswerCopy, UNCHANGED page
  PROVE  CopyInv'
<1> DEFINE O == session.overwrite
<1>1. CopyForm(copy, session) /\ Chain(sent, O, suiteOf) /\ Ready(copy, sent, O, suiteOf)
  BY DEF CopyInv
<1>u. UNCHANGED <<session, suiteOf>>
  BY DEF CopyNext
<1> HIDE DEF O
<1>3. ASSUME CopyForm(copy', session), NEW e, e.op \in CopyOps, sent' = Append(sent, e),
             e.op \in {"copy", "move"} => Follows(sent, O, suiteOf, e.ids, e.target) /\ e.target \in Target,
             copy'.open /\ copy'.target # Absent => FoundFor(e, copy'.selected, copy'.target)
      PROVE  CopyInv'
  <2>1. Chain(sent', O, suiteOf) /\ sent' # <<>> /\ sent'[Len(sent')] = e
    BY <1>1, <1>3, ChainGrows
  <2>2. Ready(copy', sent', O, suiteOf)
    BY <1>3, <2>1 DEF Ready, Follows
  <2> QED BY <1>u, <1>3, <2>1, <2>2 DEF CopyInv, O
<1>4. ASSUME NEW S, OpenCopy(S) PROVE CopyInv'
  <2> DEFINE e == [op |-> "openCopy", selected |-> S]
  <2>1. sent' = Append(sent, e) /\ UNCHANGED copy /\ e.op = "openCopy" /\ ~copy.open
    BY <1>4 DEF OpenCopy, Emit
  <2> HIDE DEF e
  <2>2. CopyForm(copy', session)
    BY <1>1, <2>1
  <2> QED BY <1>3, <2>1, <2>2 DEF CopyOps
<1>5. ASSUME NEW t \in Target, ChooseTarget(t) PROVE CopyInv'
  <2>1. copy' = [copy EXCEPT !.target = t] /\ sent' = EmitTarget(copy', sent) /\ copy.open /\ copy.selected # {}
    BY <1>1, <1>5 DEF ChooseTarget, CopyForm
  <2>2. CopyForm(copy', session) /\ copy'.open = copy.open /\ copy'.selected = copy.selected /\ copy'.target = t
    BY <1>1, <1>5, <2>1 DEF CopyForm, CopyField
  <2> DEFINE e == [op |-> "target", selected |-> copy'.selected, target |-> copy'.target]
  <2>3. CASE t # Absent
    <3>1. sent' = Append(sent, e) /\ e.op = "target" /\ e.selected = copy'.selected /\ e.target = copy'.target
      BY <2>1, <2>2, <2>3 DEF EmitTarget
    <3> HIDE DEF e
    <3>2. FoundFor(e, copy'.selected, copy'.target)
      BY <3>1 DEF FoundFor
    <3> QED BY <1>3, <2>2, <3>1, <3>2 DEF CopyOps
  <2>4. CASE t = Absent
    <3>1. sent' = sent
      BY <2>1, <2>2, <2>4 DEF EmitTarget
    <3>2. Ready(copy', sent, O, suiteOf)
      BY <2>2, <2>4 DEF Ready
    <3> QED BY <1>1, <1>u, <2>2, <3>1, <3>2 DEF CopyInv, O
  <2> QED BY <2>3, <2>4
<1>6. ASSUME NEW op \in {"copy", "move"}, ConfirmCopy(op) PROVE CopyInv'
  <2> DEFINE e == [op |-> op, ids |-> Movable(copy), target |-> copy.target]
  <2>1. /\ sent' = Append(sent, e) /\ UNCHANGED copy /\ e.op \in {"copy", "move"} /\ copy.open
        /\ copy.target # Absent /\ e.ids = Movable(copy) /\ e.target = copy.target
    BY <1>6 DEF ConfirmCopy, Emit
  <2>2. Movable(copy) \subseteq copy.selected
    BY DEF Movable
  <2> HIDE DEF e
  <2>3. Follows(sent, O, suiteOf, e.ids, e.target)
    BY <1>1, <2>1, <2>2 DEF Ready, Follows, Clears, FoundFor
  <2>4. FoundFor(e, copy'.selected, copy'.target) /\ e.op \in CopyOps
    BY <2>1 DEF FoundFor, CopyOps
  <2>5. CopyForm(copy', session) /\ e.target \in Target
    BY <1>1, <2>1 DEF CopyForm
  <2> QED BY <1>3, <2>1, <2>3, <2>4, <2>5
<1>7. CASE CancelCopy
  <2> DEFINE e == [op |-> "cancelCopy"]
  <2>1. sent' = Append(sent, e) /\ copy' = [copy EXCEPT !.open = FALSE] /\ e.op = "cancelCopy"
    BY <1>7 DEF CancelCopy, Emit
  <2> HIDE DEF e
  <2>2. CopyForm(copy', session) /\ ~copy'.open
    BY <1>1, <2>1 DEF CopyForm, CopyField
  <2> QED BY <1>3, <2>1, <2>2 DEF CopyOps
<1> QED
  BY <1>4, <1>5, <1>6, <1>7 DEF CopyNext

\* What an answer leaves to be overwritten is out of the way of the tests it was
\* found for.
LEMMA AnswerClears ==
  ASSUME CopyInv, page = "copyMove", AnswerCopy, NEW ids, NEW t, FoundFor(Head(sent), ids, t)
  PROVE  Clears(session'.overwrite, suiteOf', ids, t)
<1> DEFINE e == Head(sent)
<1>1. session' = SessionAfter(session, e) /\ suiteOf' = SuitesAfter(e) /\ CopyForm(copy, session)
  BY DEF AnswerCopy, CopyInv
<1>2. FoundFor(e, ids, t)
  OBVIOUS
<1> HIDE DEF e
<1>3. CASE e.op = "target"
  <2> DEFINE C == Collisions(e.selected, e.target)
             O == C \ (Locked \cup e.selected)
  <2>1. session' = [session EXCEPT !.collision = C, !.overwrite = O]
    BY <1>1, <1>3 DEF SessionAfter
  <2>2. suiteOf' = suiteOf
    BY <1>1, <1>3 DEF SuitesAfter
  <2>3. \A i \in O : i \notin Locked \cup e.selected /\ suiteOf[i] = e.target.suite
    BY DEF Collisions
  <2> HIDE DEF C, O
  <2>4. session'.overwrite = O
    BY <1>1, <2>1 DEF CopyForm
  <2> QED BY <1>2, <1>3, <2>2, <2>3, <2>4 DEF Clears, FoundFor
<1>4. CASE e.op # "target"
  <2>1. session'.overwrite = {}
    BY <1>1, <1>4 DEF SessionAfter, NoCopy
  <2> QED BY <2>1 DEF Clears
<1> QED BY <1>3, <1>4

LEMMA AnswerCopyForm ==
  ASSUME CopyInv, page = "copyMove", AnswerCopy
  PROVE  CopyForm(copy', session')
<1> DEFINE e == Head(sent)
           O == Collisions(e.selected, e.target) \ (Locked \cup e.selected)
           C == Collisions(e.selected, e.target)
           SF == {"selected", "collision", "overwrite"}
<1>1. session' = SessionAfter(session, e) /\ copy' = CopyDelivered(copy, session') /\ CopyForm(copy, session)
  BY DEF AnswerCopy, CopyInv
<1>2. session' = [NoCopy EXCEPT !.selected = e.selected] \/ session' = NoCopy
      \/ session' = [session EXCEPT !.collision = C, !.overwrite = O]
  BY <1>1 DEF SessionAfter
<1> HIDE DEF e, O, C
<1>3. session' = [f \in SF |-> session'[f]]
  BY <1>1, <1>2 DEF CopyForm, NoCopy
<1>4. /\ copy' = [f \in CopyField |-> copy'[f]] /\ (copy'.open => copy'.selected # {})
      /\ copy'.target \in Target \cup {Absent}
  BY <1>1 DEF CopyDelivered, CopyForm, CopyField
<1> QED BY <1>3, <1>4 DEF CopyForm

LEMMA CopyAnswerStep ==
  ASSUME CopyInv, page = "copyMove", AnswerCopy, UNCHANGED page
  PROVE  CopyInv'
<1> DEFINE e == Head(sent)
           q == Tail(sent)
           O == session'.overwrite
           u == suiteOf'
<1>1. /\ sent # <<>> /\ copy' = CopyDelivered(copy, session')
      /\ sent' = IF copy' = copy THEN q ELSE EmitTarget(copy', q)
      /\ Chain(sent, session.overwrite, suiteOf) /\ Ready(copy, sent, session.overwrite, suiteOf)
      /\ CopyForm(copy', session')
  BY AnswerCopyForm DEF AnswerCopy, CopyInv
<1>2. /\ Len(sent) \in Nat /\ Len(sent) > 0 /\ DOMAIN sent = 1..Len(sent) /\ sent[1] = e
      /\ Len(q) = Len(sent) - 1 /\ DOMAIN q = 1..(Len(sent) - 1)
      /\ \A j \in DOMAIN q : q[j] = sent[j + 1]
      /\ Len(sent) = 1 => q = <<>>
      /\ Queue(q) /\ Elements(q) \subseteq Elements(sent)
  BY <1>1, TailFacts, QueueSteps DEF Chain
<1>3. \A ids, t : FoundFor(e, ids, t) => Clears(O, u, ids, t)
  BY AnswerClears
<1> HIDE DEF e, q, O, u
<1>4. Chain(q, O, u)
  <2>1. Queue(q) /\ \A x \in Elements(q) : x.op \in CopyOps
    BY <1>1, <1>2 DEF Chain
  <2>2. ASSUME NEW j \in DOMAIN q, q[j].op \in {"copy", "move"}
        PROVE  /\ j = 1 => Clears(O, u, q[j].ids, q[j].target)
               /\ j > 1 => FoundFor(q[j - 1], q[j].ids, q[j].target)
               /\ q[j].target \in Target
    <3>1. j \in Nat /\ j + 1 \in DOMAIN sent /\ q[j] = sent[j + 1] /\ j + 1 > 1 /\ (j + 1) - 1 = j
      BY <1>2
    <3>2. FoundFor(sent[j], q[j].ids, q[j].target) /\ q[j].target \in Target
      BY <1>1, <2>2, <3>1 DEF Chain
    <3>3. CASE j = 1
      BY <1>2, <1>3, <3>2, <3>3
    <3>4. CASE j > 1
      <4>1. j - 1 \in DOMAIN q /\ q[j - 1] = sent[j]
        BY <1>2, <3>1, <3>4
      <4> QED BY <3>2, <3>4, <4>1
    <3> QED BY <3>1, <3>3, <3>4
  <2> QED BY <2>1, <2>2 DEF Chain
<1>5. CASE copy' = copy
  <2>1. sent' = q
    BY <1>1, <1>5
  <2>2. Ready(copy', q, O, u)
    <3> SUFFICES ASSUME copy.open, copy.target # Absent PROVE Follows(q, O, u, copy.selected, copy.target)
      BY <1>5 DEF Ready
    <3>1. FoundFor(sent[Len(sent)], copy.selected, copy.target)
      BY <1>1 DEF Ready, Follows
    <3>2. CASE Len(sent) = 1
      BY <1>2, <1>3, <3>1, <3>2 DEF Follows
    <3>3. CASE Len(sent) > 1
      <4>1. q # <<>> /\ q[Len(q)] = sent[Len(sent)]
        BY <1>2, <3>3
      <4> QED BY <3>1, <4>1 DEF Follows
    <3> QED BY <1>2, <3>2, <3>3
  <2> QED BY <1>1, <1>4, <2>1, <2>2 DEF CopyInv, O, u
<1>6. CASE copy' # copy
  <2> DEFINE x == [op |-> "target", selected |-> copy'.selected, target |-> copy'.target]
  <2>1. CASE copy'.target # Absent /\ copy'.selected # {}
    <3>1. sent' = Append(q, x) /\ x.op = "target" /\ x.selected = copy'.selected /\ x.target = copy'.target
      BY <1>1, <1>6, <2>1 DEF EmitTarget
    <3> HIDE DEF x
    <3>2. Chain(sent', O, u) /\ sent' # <<>> /\ sent'[Len(sent')] = x
      BY <1>4, <3>1, ChainGrows DEF CopyOps
    <3>3. Ready(copy', sent', O, u)
      BY <3>1, <3>2 DEF Ready, Follows, FoundFor
    <3> QED BY <1>1, <3>2, <3>3 DEF CopyInv, O, u
  <2>2. CASE copy'.target = Absent \/ copy'.selected = {}
    <3>1. sent' = q
      BY <1>1, <1>6, <2>2 DEF EmitTarget
    <3>2. Ready(copy', q, O, u)
      BY <1>1, <2>2 DEF Ready, CopyForm
    <3> QED BY <1>1, <1>4, <3>1, <3>2 DEF CopyInv, O, u
  <2> QED BY <2>1, <2>2
<1> QED BY <1>5, <1>6

LEMMA CopyStep == CopyInv /\ DialogsNext => CopyInv'
<1> SUFFICES ASSUME CopyInv, DialogsNext, page = "copyMove" PROVE CopyInv'
  BY DEF CopyInv, DialogsNext
<1>1. page' = page /\ CopyNext
  BY DEF DialogsNext, FormNext, OpenForm, ChooseType, ChooseTable, ChooseColumn, SubmitForm, CancelForm, AnswerForm
<1> QED BY <1>1, CopyUserStep, CopyAnswerStep

LEMMA CopyInitInv == DialogsInit => CopyInv /\ FormInv
<1> SUFFICES ASSUME DialogsInit PROVE CopyInv /\ FormInv
  OBVIOUS
<1>1. CopyForm(copy, session) /\ ~copy.open /\ sent = <<>>
  BY DEF DialogsInit, CopyForm, CopyField
<1>2. DOMAIN <<>> = {}
  OBVIOUS
<1>3. Chain(sent, session.overwrite, suiteOf)
  BY <1>1, <1>2, NoEvents DEF Chain
<1>4. CopyInv
  BY <1>1, <1>3 DEF CopyInv, Ready
<1>5. FormInv
  BY DEF FormInv, FormField, DialogsInit
<1> QED BY <1>4, <1>5

\* A test goes only when a copy or a move of others to its suite is served.
LEMMA Overwritten ==
  CopyInv /\ DialogsNext /\ sent # <<>> /\ page = "copyMove" =>
    \A i \in Test : suiteOf[i] # Absent /\ suiteOf'[i] = Absent =>
      LET e == Head(sent)
      IN /\ e.op \in {"copy", "move"}
         /\ i \notin Locked \cup e.ids /\ suiteOf[i] = e.target.suite
<1> DEFINE e == Head(sent)
<1> SUFFICES ASSUME CopyInv, DialogsNext, sent # <<>>, page = "copyMove",
                    NEW i \in Test, suiteOf[i] # Absent, suiteOf'[i] = Absent
             PROVE  /\ e.op \in {"copy", "move"}
                    /\ i \notin Locked \cup e.ids /\ suiteOf[i] = e.target.suite
  OBVIOUS
<1>1. AnswerCopy
  BY DEF DialogsNext, FormNext, CopyNext, OpenForm, ChooseType, ChooseTable, ChooseColumn, SubmitForm,
         CancelForm, AnswerForm
<1>2. suiteOf' = SuitesAfter(e) /\ Chain(sent, session.overwrite, suiteOf)
  BY <1>1 DEF AnswerCopy, CopyInv
<1>3. sent[1] = e /\ 1 \in DOMAIN sent
  BY <1>2, TailFacts DEF Chain
<1> HIDE DEF e
<1>4. e.op \in {"copy", "move"}
  BY <1>2 DEF SuitesAfter
<1>5. Clears(session.overwrite, suiteOf, e.ids, e.target)
  BY <1>2, <1>3, <1>4 DEF Chain
<1>6. i \in session.overwrite
  <2>1. e.op = "move" /\ i \in e.ids => e.target.suite # Absent
    BY <1>2, <1>3, <1>4, DialogsAssumption DEF Chain
  <2> QED BY <1>2, <1>4, <2>1 DEF SuitesAfter
<1> QED BY <1>4, <1>5, <1>6 DEF Clears

-----------------------------------------------------------------------------
(* The connection.                                                          *)

FieldOfConnection == {"flavor", "host", "port", "url", "byUrl", "byKey", "identity", "password", "key"}
FieldOfForm ==
  {"conn", "isNew", "dynamic", "hadPassword", "hadKey", "host", "port", "url", "byUrl", "method",
   "password", "key", "invalid", "testing", "status", "edits", "prop"}

\* A connection to submit names a key of those types only that have one.
Keyed(v) == v.byKey => v.flavor \in {"databricks", "snowflake"}

Submitted(v) == v = [f \in FieldOfConnection |-> v[f]] /\ Keyed(v)

ConnectionOf(c) ==
  /\ c = [f \in FieldOfForm |-> c[f]]
  /\ c.conn = [f \in FieldOfConnection |-> c.conn[f]]

\* A stored connection has a password, or none.
ConnectionRow(s) == s = [f \in DOMAIN s |-> s[f]] /\ "password" \in DOMAIN s

\* The form and the connection it would submit have one URL, the one the user
\* entered when there is one.
UrlAgrees(c, entered_) ==
  /\ c.conn.byUrl = c.byUrl
  /\ c.byUrl /\ entered_ # Nil => c.url = entered_ /\ c.conn.url = entered_

ConnectionInv ==
  page = "connection" =>
    /\ ConnectionOf(connection) /\ Keyed(connection.conn) /\ UrlAgrees(connection, typed)
    /\ Queue(sent) /\ \A e \in Elements(sent) : Submitted(e.v)
    /\ ConnectionRow(saved)

LEMMA CheckedFacts ==
  ASSUME NEW c, ConnectionOf(c)
  PROVE  /\ ConnectionOf(Checked(c)) /\ Checked(c).conn = c.conn
         /\ Checked(c).byUrl = c.byUrl /\ Checked(c).url = c.url
<1> DEFINE i == (c.invalid \ ({"host", "url"} \cup SecretField(c))) \cup Wrong(c)
<1>1. Checked(c) = [c EXCEPT !.invalid = i]
  BY DEF Checked
<1> HIDE DEF i
<1> QED BY <1>1 DEF ConnectionOf, FieldOfForm

LEMMA PublishedFacts ==
  ASSUME NEW c, ConnectionOf(c)
  PROVE  LET p == Published(c)
         IN /\ ConnectionOf(p) /\ Keyed(p.conn) /\ p.byUrl = c.byUrl /\ p.url = c.url
            /\ p.conn.byUrl = c.byUrl /\ p.conn.url = c.url /\ p.conn.flavor = c.conn.flavor
<1> DEFINE k == c.conn.flavor \in {"databricks", "snowflake"} /\ c.method
           d == IF c.conn.flavor = "azure_mssql" THEN c.method ELSE c.conn.identity
           y == IF c.conn.flavor = "snowflake" THEN c.key ELSE c.conn.key
           v == [c.conn EXCEPT !.host = c.host, !.port = c.port, !.url = c.url, !.byUrl = c.byUrl,
                   !.password = c.password, !.byKey = k, !.identity = d, !.key = y]
<1>1. Published(c) = [c EXCEPT !.conn = v]
  BY DEF Published
<1>2. k => c.conn.flavor \in {"databricks", "snowflake"}
  OBVIOUS
<1> HIDE DEF k, d, y
<1>3. /\ v = [f \in FieldOfConnection |-> v[f]] /\ v.flavor = c.conn.flavor /\ v.byKey = k
      /\ v.byUrl = c.byUrl /\ v.url = c.url
  BY DEF ConnectionOf, FieldOfConnection
<1> HIDE DEF v
<1>4. Published(c).conn = v /\ Published(c) = [f \in FieldOfForm |-> Published(c)[f]]
      /\ Published(c).byUrl = c.byUrl /\ Published(c).url = c.url
  BY <1>1 DEF ConnectionOf, FieldOfForm
<1> QED BY <1>2, <1>3, <1>4 DEF ConnectionOf, Keyed

\* The form that is built for another type keeps a URL that is in use.
LEMMA RebuiltFacts ==
  ASSUME NEW c, ConnectionOf(c)
  PROVE  LET p == FormRebuilt(c)
         IN /\ ConnectionOf(p) /\ Keyed(p.conn) /\ p.byUrl = c.conn.byUrl /\ p.conn.byUrl = p.byUrl
            /\ p.conn.flavor = c.conn.flavor /\ p.conn.url = p.url
            /\ (c.conn.byUrl => p.url = c.conn.url)
<1> DEFINE v == c.conn
           m == MethodOf(v, c.isNew)
           u == IF v.byUrl THEN v.url ELSE c.dynamic.url
           d == [c EXCEPT !.host = v.host, !.port = v.port, !.byUrl = v.byUrl, !.method = m,
                   !.password = v.password, !.key = v.key, !.invalid = {}, !.url = u]
<1>1. FormRebuilt(c) = Published(Checked(d))
  BY DEF FormRebuilt
<1>2. v.byUrl => u = v.url
  OBVIOUS
<1> HIDE DEF m, u
<1>3. ConnectionOf(d) /\ d.conn = c.conn /\ d.byUrl = v.byUrl /\ d.url = u
  BY DEF ConnectionOf, FieldOfForm
<1> HIDE DEF d, v
<1>4. ConnectionOf(Checked(d)) /\ Checked(d).conn = c.conn /\ Checked(d).byUrl = v.byUrl /\ Checked(d).url = u
  BY <1>3, CheckedFacts
<1> QED BY <1>1, <1>2, <1>4, PublishedFacts DEF v

LEMMA PortFacts ==
  ASSUME NEW c, ConnectionOf(c), NEW old
  PROVE  LET p == PortFollows(c, old)
         IN /\ ConnectionOf(p) /\ p.byUrl = c.byUrl /\ p.url = c.url
            /\ p.conn.byKey = c.conn.byKey /\ p.conn.flavor = c.conn.flavor
            /\ p.conn.byUrl = c.conn.byUrl /\ p.conn.url = c.conn.url
<1> DEFINE o == IF c.conn.port = DefaultPort[old] THEN DefaultPort[c.conn.flavor] ELSE c.conn.port
           v == [c.conn EXCEPT !.port = o]
<1>1. PortFollows(c, old) = [c EXCEPT !.conn = v]
  BY DEF PortFollows, ConnectionOf, FieldOfForm
<1> HIDE DEF o
<1>2. v = [f \in FieldOfConnection |-> v[f]]
      /\ v.byKey = c.conn.byKey /\ v.flavor = c.conn.flavor /\ v.byUrl = c.conn.byUrl /\ v.url = c.conn.url
  BY DEF ConnectionOf, FieldOfConnection
<1> HIDE DEF v
<1>3. /\ PortFollows(c, old) = [f \in FieldOfForm |-> PortFollows(c, old)[f]]
      /\ PortFollows(c, old).conn = v
      /\ PortFollows(c, old).byUrl = c.byUrl /\ PortFollows(c, old).url = c.url
  BY <1>1 DEF ConnectionOf, FieldOfForm
<1> QED BY <1>2, <1>3 DEF ConnectionOf

\* What is emitted is the connection to submit.
LEMMA EditedStep ==
  ASSUME ConnectionInv, page = "connection", UNCHANGED <<page, saved>>,
         NEW c, ConnectionOf(c), Keyed(c.conn), UrlAgrees(c, typed'), Edited(c)
  PROVE  ConnectionInv'
<1>1. connection' = [c EXCEPT !.edits = c.edits + 1]
  BY DEF Edited
<1>2. ConnectionOf(connection') /\ connection'.conn = c.conn /\ connection'.byUrl = c.byUrl
      /\ connection'.url = c.url
  <2> DEFINE k == c.edits + 1
  <2>1. connection' = [c EXCEPT !.edits = k]
    BY <1>1
  <2> HIDE DEF k
  <2> QED BY <2>1 DEF ConnectionOf, FieldOfForm
<1>3. Queue(sent') /\ \A e \in Elements(sent') : Submitted(e.v)
  <2> DEFINE e == [op |-> "update", v |-> c.conn]
  <2>1. sent' = sent \/ sent' = Append(sent, e)
    BY DEF Edited, Emit
  <2>2. Submitted(e.v)
    BY DEF Submitted, ConnectionOf
  <2> HIDE DEF e
  <2>3. Queue(sent) /\ \A x \in Elements(sent) : Submitted(x.v)
    BY DEF ConnectionInv
  <2>4. Queue(Append(sent, e)) /\ \A x \in Elements(Append(sent, e)) : Submitted(x.v)
    BY <2>2, <2>3, QueueSteps
  <2> QED BY <2>1, <2>3, <2>4
<1> QED BY <1>2, <1>3 DEF ConnectionInv, UrlAgrees

\* A change of the form that is checked and published.
LEMMA PublishStep ==
  ASSUME ConnectionInv, page = "connection", UNCHANGED <<page, saved>>,
         NEW c, ConnectionOf(c), Edited(Published(Checked(c))),
         c.byUrl /\ typed' # Nil => c.url = typed'
  PROVE  ConnectionInv'
<1> DEFINE d == Checked(c)
           p == Published(d)
<1>1. ConnectionOf(d) /\ d.byUrl = c.byUrl /\ d.url = c.url
  BY CheckedFacts
<1> HIDE DEF d
<1>2. /\ ConnectionOf(p) /\ Keyed(p.conn) /\ p.byUrl = c.byUrl /\ p.url = c.url
      /\ p.conn.byUrl = c.byUrl /\ p.conn.url = c.url
  BY <1>1, PublishedFacts
<1>3. Edited(p)
  BY DEF d
<1> HIDE DEF p
<1> QED BY <1>2, <1>3, EditedStep DEF UrlAgrees

LEMMA ConnectionUserStep ==
  ASSUME ConnectionInv, page = "connection", UNCHANGED page, ConnectionNext, ~ServeConnection
  PROVE  ConnectionInv'
<1>1. /\ ConnectionOf(connection) /\ Keyed(connection.conn) /\ UrlAgrees(connection, typed)
      /\ Queue(sent) /\ \A e \in Elements(sent) : Submitted(e.v)
      /\ ConnectionRow(saved) /\ UNCHANGED saved
  BY DEF ConnectionInv, ConnectionNext
<1>2. ASSUME NEW f \in Flavor, ChooseFlavor(f) PROVE ConnectionInv'
  <2> DEFINE old == connection.conn.flavor
             v == [connection.conn EXCEPT !.flavor = f]
             c == [connection EXCEPT !.conn.flavor = f]
             p == FormRebuilt(c)
  <2>1. c = [connection EXCEPT !.conn = v]
    BY <1>1 DEF ConnectionOf, FieldOfForm
  <2>2. /\ v = [g \in FieldOfConnection |-> v[g]] /\ v.byUrl = connection.conn.byUrl
        /\ v.url = connection.conn.url
    BY <1>1 DEF ConnectionOf, FieldOfConnection
  <2>3. Edited(PortFollows(p, old)) /\ UNCHANGED typed
    BY <1>2 DEF ChooseFlavor
  <2> HIDE DEF v, old, c
  <2>4. ConnectionOf(c) /\ c.conn = v
    BY <1>1, <2>1, <2>2 DEF ConnectionOf, FieldOfForm
  <2>5. /\ ConnectionOf(p) /\ Keyed(p.conn) /\ p.byUrl = v.byUrl /\ p.conn.byUrl = p.byUrl
        /\ p.conn.url = p.url /\ (v.byUrl => p.url = v.url)
    BY <2>4, RebuiltFacts
  <2> HIDE DEF p
  <2> DEFINE q == PortFollows(p, old)
  <2>6. /\ ConnectionOf(q) /\ Keyed(q.conn) /\ q.byUrl = p.byUrl /\ q.conn.byUrl = q.byUrl
        /\ q.url = p.url /\ q.conn.url = p.url
    BY <2>5, PortFacts DEF Keyed
  <2> HIDE DEF q
  <2>7. UrlAgrees(q, typed')
    BY <1>1, <2>2, <2>3, <2>5, <2>6 DEF UrlAgrees
  <2>8. Edited(q)
    BY <2>3 DEF q
  <2> QED BY <1>1, <2>6, <2>7, <2>8, EditedStep
<1>3. ASSUME NEW h \in Host, EnterHost(h) PROVE ConnectionInv'
  <2> DEFINE c == [connection EXCEPT !.host = h]
  <2>1. ConnectionOf(c) /\ c.byUrl = connection.byUrl /\ c.url = connection.url
    BY <1>1 DEF ConnectionOf, FieldOfForm
  <2>2. Edited(Published(Checked(c))) /\ UNCHANGED typed
    BY <1>3 DEF EnterHost
  <2> HIDE DEF c
  <2> QED BY <1>1, <2>1, <2>2, PublishStep DEF UrlAgrees
<1>4. ASSUME NEW u, EnterUrl(u) PROVE ConnectionInv'
  <2> DEFINE c == [connection EXCEPT !.url = u]
  <2>1. ConnectionOf(c) /\ c.byUrl = connection.byUrl /\ c.url = u
    BY <1>1 DEF ConnectionOf, FieldOfForm
  <2>2. Edited(Published(Checked(c))) /\ typed' = u
    BY <1>4 DEF EnterUrl
  <2> HIDE DEF c
  <2> QED BY <1>1, <2>1, <2>2, PublishStep DEF UrlAgrees
<1>5. ASSUME NEW b \in BOOLEAN, ConnectBy(b) PROVE ConnectionInv'
  <2> DEFINE c == [connection EXCEPT !.byUrl = b]
  <2>1. ConnectionOf(c)
    BY <1>1 DEF ConnectionOf, FieldOfForm
  <2>2. Edited(Published(Checked(c))) /\ typed' = Nil
    BY <1>5 DEF ConnectBy
  <2> HIDE DEF c
  <2> QED BY <1>1, <2>1, <2>2, PublishStep DEF UrlAgrees
<1>6. ASSUME NEW flavor, NEW c, ConnectionOf(c), ChooseMethod(flavor, c), c.url = connection.url,
             c.byUrl => connection.byUrl
      PROVE  ConnectionInv'
  <2> DEFINE d == Checked(c)
             p == Published(d)
  <2>1. ConnectionOf(d) /\ d.byUrl = c.byUrl /\ d.url = c.url
    BY <1>6, CheckedFacts
  <2>2. Edited(p) /\ typed' = (IF connection'.byUrl THEN typed ELSE Nil)
    BY <1>6 DEF ChooseMethod
  <2> HIDE DEF d
  <2>3. ConnectionOf(p) /\ p.byUrl = c.byUrl
    BY <2>1, PublishedFacts
  <2> HIDE DEF p
  <2>4. connection'.byUrl = c.byUrl
    <3> DEFINE k == p.edits + 1
    <3>1. connection' = [p EXCEPT !.edits = k]
      BY <2>2 DEF Edited
    <3> HIDE DEF k
    <3> QED BY <2>3, <3>1 DEF ConnectionOf, FieldOfForm
  <2>5. c.byUrl /\ typed' # Nil => c.url = typed'
    BY <1>1, <1>6, <2>2, <2>4 DEF UrlAgrees
  <2>6. Edited(Published(Checked(c)))
    BY <2>2 DEF p, d
  <2> QED BY <1>1, <1>6, <2>5, <2>6, PublishStep
<1>7. ASSUME NEW b \in BOOLEAN, ChooseIdentity(b) \/ ChooseKeyPair(b) PROVE ConnectionInv'
  <2> DEFINE c == [connection EXCEPT !.method = b]
  <2>1. ConnectionOf(c) /\ c.byUrl = connection.byUrl /\ c.url = connection.url
    BY <1>1 DEF ConnectionOf, FieldOfForm
  <2>2. ChooseMethod("azure_mssql", c) \/ ChooseMethod("snowflake", c)
    BY <1>7 DEF ChooseIdentity, ChooseKeyPair
  <2> HIDE DEF c
  <2> QED BY <1>6, <2>1, <2>2
<1>8. ASSUME NEW b \in BOOLEAN, ChooseOAuth(b) PROVE ConnectionInv'
  <2> DEFINE y == connection.byUrl /\ ~b
             c == [connection EXCEPT !.method = b, !.password = Nil, !.byUrl = y]
  <2>1. ChooseMethod("databricks", c)
    BY <1>8 DEF ChooseOAuth
  <2>2. y => connection.byUrl
    OBVIOUS
  <2> HIDE DEF y
  <2>3. ConnectionOf(c) /\ c.byUrl = y /\ c.url = connection.url
    BY <1>1 DEF ConnectionOf, FieldOfForm
  <2> HIDE DEF c
  <2> QED BY <1>6, <2>1, <2>2, <2>3
<1>9. CASE EnterPassword
  <2> DEFINE c == [connection EXCEPT !.password = "entered"]
  <2>1. ConnectionOf(c) /\ c.byUrl = connection.byUrl /\ c.url = connection.url
    BY <1>1 DEF ConnectionOf, FieldOfForm
  <2>2. Edited(Published(Checked(c))) /\ UNCHANGED typed
    BY <1>9 DEF EnterPassword
  <2> HIDE DEF c
  <2> QED BY <1>1, <2>1, <2>2, PublishStep DEF UrlAgrees
<1>10. CASE UploadKey
  <2> DEFINE c == [connection EXCEPT !.key = "uploaded"]
  <2>1. ConnectionOf(c) /\ c.byUrl = connection.byUrl /\ c.url = connection.url
    BY <1>1 DEF ConnectionOf, FieldOfForm
  <2>2. Edited(Published(Checked(c))) /\ UNCHANGED typed
    BY <1>10 DEF UploadKey
  <2> HIDE DEF c
  <2> QED BY <1>1, <2>1, <2>2, PublishStep DEF UrlAgrees
<1>11. CASE TestConnection \/ SaveConnection
  <2> DEFINE k == connection.edits + 1
  <2>1. \/ connection' = [connection EXCEPT !.testing = TRUE, !.status = Nil, !.edits = k]
        \/ connection' = [connection EXCEPT !.edits = k]
    BY <1>11 DEF TestConnection, SaveConnection
  <2> HIDE DEF k
  <2>2. /\ ConnectionOf(connection') /\ connection'.conn = connection.conn
        /\ connection'.byUrl = connection.byUrl /\ connection'.url = connection.url
    BY <1>1, <2>1 DEF ConnectionOf, FieldOfForm
  <2>3. PICK op : sent' = Append(sent, [op |-> op, v |-> connection.conn])
    BY <1>11 DEF TestConnection, SaveConnection, Emit
  <2> DEFINE e == [op |-> op, v |-> connection.conn]
  <2>4. Submitted(e.v)
    BY <1>1 DEF Submitted, ConnectionOf
  <2> HIDE DEF e
  <2>5. Queue(sent') /\ \A x \in Elements(sent') : Submitted(x.v)
    BY <1>1, <2>3, <2>4, QueueSteps DEF e
  <2>6. UNCHANGED typed
    BY <1>11 DEF TestConnection, SaveConnection
  <2> QED BY <1>1, <2>2, <2>5, <2>6 DEF ConnectionInv, UrlAgrees
<1> QED
  BY <1>2, <1>3, <1>4, <1>5, <1>7, <1>8, <1>9, <1>10, <1>11 DEF ConnectionNext

LEMMA ConnectionServed ==
  ASSUME ConnectionInv, page = "connection", UNCHANGED page, ServeConnection
  PROVE  ConnectionInv'
<1> DEFINE e == Head(sent)
<1>1. ConnectionOf(connection) /\ Keyed(connection.conn) /\ UrlAgrees(connection, typed)
  BY DEF ConnectionInv
<1>2. Queue(sent') /\ \A x \in Elements(sent') : Submitted(x.v)
  BY QueueSteps DEF ConnectionInv, ServeConnection, Take
<1>3. PICK result : connection' = UrlFollows(StatusDelivered(connection, [v |-> e.v, status |-> result]), UrlOf(e.v))
  BY DEF ServeConnection
<1> DEFINE p == [v |-> e.v, status |-> result]
           c == StatusDelivered(connection, p)
           u == UrlOf(e.v)
<1>4. ConnectionOf(c) /\ c.conn = connection.conn /\ c.byUrl = connection.byUrl /\ c.url = connection.url
  <2> DEFINE s == p.status
             t == connection.testing /\ p.status = Nil
  <2>1. c = connection \/ c = [connection EXCEPT !.prop = p, !.status = s, !.testing = t]
    BY DEF StatusDelivered
  <2> HIDE DEF p, s, t, c
  <2> QED BY <1>1, <2>1 DEF ConnectionOf, FieldOfForm
<1>5. connection' = UrlFollows(c, u)
  BY <1>3
<1> HIDE DEF c, u
<1>6. /\ ConnectionOf(connection') /\ connection'.conn = c.conn /\ connection'.byUrl = c.byUrl
      /\ (c.byUrl => connection'.url = c.url)
  <2> DEFINE n == IF c.byUrl THEN c.url ELSE u.url
  <2>1. connection' = c \/ connection' = [c EXCEPT !.dynamic = u, !.url = n]
    BY <1>5 DEF UrlFollows
  <2>2. c.byUrl => n = c.url
    OBVIOUS
  <2> HIDE DEF n
  <2> QED BY <1>4, <2>1, <2>2 DEF ConnectionOf, FieldOfForm
<1>7. UNCHANGED typed
  BY DEF ServeConnection
<1>8. ConnectionRow(saved')
  <2>1. ConnectionRow(saved)
    BY DEF ConnectionInv
  <2>2. PICK object, given : LET w == RowAfter(saved, object, given)
                             IN saved' \in {saved, w, [w EXCEPT !.exists = TRUE]}
    BY Zenon DEF ServeConnection
  <2> DEFINE w == RowAfter(saved, object, given)
             w2 == [w EXCEPT !.exists = TRUE]
  <2>3. ConnectionRow(w)
    BY <2>1 DEF RowAfter, ConnectionRow
  <2> HIDE DEF w
  <2>4. ConnectionRow(w2)
    BY <2>3 DEF ConnectionRow
  <2>5. saved' = saved \/ saved' = w \/ saved' = w2
    BY <2>2 DEF w
  <2> HIDE DEF w2
  <2> QED BY <2>1, <2>3, <2>4, <2>5
<1> QED BY <1>1, <1>2, <1>4, <1>6, <1>7, <1>8 DEF ConnectionInv, UrlAgrees

LEMMA ConnectionStep == ConnectionInv /\ ConnectionNext => ConnectionInv'
<1> SUFFICES ASSUME ConnectionInv, ConnectionNext, page = "connection" PROVE ConnectionInv'
  BY DEF ConnectionInv, ConnectionNext
<1>1. UNCHANGED page
  BY DEF ConnectionNext
<1> QED BY <1>1, ConnectionUserStep, ConnectionServed

LEMMA ConnectionInitInv == sent = <<>> /\ ConnectionInit => ConnectionInv
<1> SUFFICES ASSUME sent = <<>>, ConnectionInit PROVE ConnectionInv
  OBVIOUS
<1> DEFINE s == saved
           isNew == ~s.exists
           v == [flavor |-> s.flavor, host |-> s.host, port |-> s.port, url |-> s.url,
                 byUrl |-> s.byUrl, byKey |-> s.byKey, identity |-> s.identity,
                 password |-> Nil, key |-> Nil]
           b == [conn |-> v, isNew |-> isNew, dynamic |-> UrlOf(v),
                 hadPassword |-> s.password # Nil, hadKey |-> s.key # Nil, host |-> Nil, port |-> Nil,
                 url |-> Nil, byUrl |-> FALSE, method |-> FALSE, password |-> Nil, key |-> Nil,
                 invalid |-> {}, testing |-> FALSE, status |-> Nil, edits |-> 0,
                 prop |-> [v |-> v, status |-> Nil]]
<1>1. connection = FormRebuilt(b) /\ typed = Nil
  BY DEF ConnectionInit, FormOpened
<1>2. v = [f \in FieldOfConnection |-> v[f]]
  BY DEF FieldOfConnection
<1> HIDE DEF v
<1>3. ConnectionOf(b)
  BY <1>2 DEF ConnectionOf, FieldOfForm
<1> HIDE DEF b
<1>4. ConnectionOf(connection) /\ Keyed(connection.conn) /\ connection.conn.byUrl = connection.byUrl
  BY <1>1, <1>3, RebuiltFacts
<1>5. ConnectionRow(saved)
  BY DEF ConnectionInit, ConnectionRow
<1> QED BY <1>1, <1>4, <1>5, NoEvents DEF ConnectionInv, UrlAgrees

\* A password that goes with a save was given up for a key or an identity.
LEMMA PasswordGivenUp ==
  /\ ConnectionInv /\ ConnectionNext /\ page = "connection"
  /\ saved.password # Nil /\ saved'.password = Nil /\ Head(sent).op = "save"
  => LET v == Head(sent).v IN v.identity \/ (v.flavor = "snowflake" /\ v.byKey)
<1> DEFINE e == Head(sent)
           v == e.v
           given == Assigned(e)
<1> SUFFICES ASSUME ConnectionInv, ConnectionNext, page = "connection", saved.password # Nil,
                    saved'.password = Nil, e.op = "save"
             PROVE  v.identity \/ (v.flavor = "snowflake" /\ v.byKey)
  OBVIOUS
<1>1. ServeConnection /\ saved' # saved
  BY DEF ConnectionNext
<1>2. Submitted(v) /\ "password" \in DOMAIN v
  <2>1. Submitted(v)
    BY <1>1, QueueSteps DEF ConnectionInv, ServeConnection, Take
  <2> HIDE DEF v
  <2> QED BY <2>1 DEF Submitted, FieldOfConnection
<1>3. PICK object : saved' = [RowAfter(saved, object, given) EXCEPT !.exists = TRUE]
  BY <1>1, Zenon DEF ServeConnection
<1>4. "password" \in DOMAIN given /\ given["password"] = Nil
  <2> DEFINE p == IF "password" \in DOMAIN given /\ given["password"] # object["password"]
                    THEN given["password"] ELSE saved["password"]
  <2>1. ConnectionRow(saved)
    BY DEF ConnectionInv
  <2> HIDE DEF given
  <2>2. "password" \in DOMAIN RowAfter(saved, object, given) /\ RowAfter(saved, object, given)["password"] = p
    BY <2>1 DEF RowAfter, ConnectionRow
  <2>3. saved'["password"] = p
    BY <1>3, <2>2
  <2> QED BY <2>3
<1>5. CASE "password" \in Emptied(e)
  <2>1. v.identity \/ (v.byKey /\ v.flavor # "databricks")
    BY <1>5 DEF Emptied
  <2> QED BY <1>2, <2>1 DEF Submitted, Keyed
<1>6. CASE "password" \notin Emptied(e)
  <2>1. given["password"] = v["password"] /\ "password" \notin LeftOut(e)
    BY <1>4, <1>6 DEF Assigned
  <2>2. v["password"] # Nil
    BY <1>6, <2>1 DEF LeftOut
  <2> QED BY <1>4, <2>1, <2>2
<1> QED BY <1>5, <1>6

-----------------------------------------------------------------------------
(* The schedule picker: the smallest and the largest of a list, a field that  *)
(* is written from a step and a start and read again, the ranges of a week.  *)

LEMMA MinFacts ==
  ASSUME NEW S, S \subseteq Nat, S # {}
  PROVE  /\ Min(S) \in S /\ \A y \in S : Min(S) <= y
         /\ \A m \in S : (\A y \in S : m <= y) => Min(S) = m
<1>1. \E x \in S : \A y \in S : x =< y
  BY SmallestOne
<1>2. Min(S) \in S /\ \A y \in S : Min(S) =< y
  BY <1>1, Zenon DEF Min
<1>3. ASSUME NEW m \in S, \A y \in S : m <= y PROVE Min(S) = m
  <2> DEFINE k == Min(S)
  <2>1. k \in S /\ k <= m /\ m <= k
    BY <1>2, <1>3
  <2> HIDE DEF k
  <2>2. k = m
    BY <2>1
  <2> QED BY <2>2 DEF k
<1> QED BY <1>2, <1>3

LEMMA MaxFacts ==
  ASSUME NEW n \in Nat, NEW S, S \subseteq 0..n, S # {}
  PROVE  Max(S) \in S /\ \A y \in S : Max(S) >= y
<1> DEFINE T == {n - x : x \in S}
<1>1. T \subseteq Nat /\ T # {}
  <2>1. \A x \in S : n - x \in Nat
    OBVIOUS
  <2>2. PICK x \in S : TRUE
    OBVIOUS
  <2>3. n - x \in T
    BY <2>2
  <2> QED BY <2>1, <2>3
<1>2. PICK m \in T : \A k \in T : m <= k
  <2> HIDE DEF T
  <2> QED BY <1>1, SmallestOne
<1>3. PICK x \in S : m = n - x
  OBVIOUS
<1>4. ASSUME NEW y \in S PROVE x >= y
  <2>1. n - y \in T
    OBVIOUS
  <2>2. n - x <= n - y
    BY <1>2, <1>3, <2>1
  <2> QED BY <2>2
<1>5. \E z \in S : \A y \in S : z >= y
  BY <1>4
<1> QED BY <1>5, Zenon DEF Max

LEMMA MaxOfOne ==
  ASSUME NEW n \in Nat
  PROVE  Max({n}) = n
<1>1. {n} \subseteq 0..n /\ {n} # {}
  OBVIOUS
<1> QED BY <1>1, MaxFacts

LEMMA OneOrMore ==
  ASSUME NEW S, IsFiniteSet(S), NEW a \in S
  PROVE  /\ (S = {a}) <=> (Cardinality(S) = 1)
         /\ (S # {a}) <=> (Cardinality(S) > 1)
<1>1. Cardinality(S) \in Nat /\ (Cardinality(S) = 0 <=> S = {})
  BY FS_CardinalityType, FS_EmptySet
<1>2. Cardinality(S) = 1 => S = {a}
  <2> SUFFICES ASSUME Cardinality(S) = 1 PROVE S = {a}
    OBVIOUS
  <2>1. \E x : S = {x}
    BY FS_Singleton
  <2> QED BY <2>1
<1>3. S = {a} => Cardinality(S) = 1
  BY FS_Singleton
<1> QED BY <1>1, <1>2, <1>3

\* A list made from a start and a step says both, if it has two values.
LEMMA SteppedFacts ==
  ASSUME NEW s \in Nat, NEW h \in Nat, h >= 2, NEW max \in Nat, s <= max
  PROVE  LET S == SteppedValues(s, h, max)
         IN /\ S \subseteq s..max /\ s \in S /\ IsFiniteSet(S) /\ Min(S) = s
            /\ S # {s} => StepOf(S) = h /\ S = SteppedValues(s, h, Max(S))
<1> DEFINE S == SteppedValues(s, h, max)
<1>1. 0 % h = 0 /\ h % h = 0 /\ \A d \in 1..(h - 1) : d % h # 0
  <2>1. 0 % h = 0 /\ h % h = 0
    OBVIOUS
  <2>2. \A d \in 1..(h - 1) : d % h # 0
    OBVIOUS
  <2> QED BY <2>1, <2>2
<1>2. S \subseteq s..max /\ s \in S
  BY <1>1 DEF SteppedValues
<1>3. \A x \in s..max : x \in S <=> (x - s) % h = 0
  BY DEF SteppedValues
<1> HIDE DEF S
<1>4. IsFiniteSet(S)
  <2>1. IsFiniteSet(s..max)
    BY FS_Interval
  <2> QED BY <1>2, <2>1, FS_Subset
<1>5. S \subseteq Nat /\ S # {} /\ Min(S) = s
  <2>1. S \subseteq Nat /\ S # {} /\ \A y \in S : s <= y
    BY <1>2
  <2> QED BY <1>2, <2>1, MinFacts
<1>6. ASSUME S # {s} PROVE StepOf(S) = h
  <2> DEFINE R == S \ {s}
  <2>1. PICK x \in S : x # s
    BY <1>2, <1>6
  <2>2. ASSUME NEW y \in R PROVE y >= s + h
    <3>1. y \in s..max /\ y # s /\ (y - s) % h = 0 /\ y \in Nat
      BY <1>2, <1>3
    <3>2. CASE y < s + h
      <4>1. y - s \in 1..(h - 1)
        BY <3>1, <3>2
      <4> QED BY <1>1, <3>1, <4>1
    <3> QED BY <3>1, <3>2
  <2>3. s + h \in R
    <3>1. x >= s + h /\ x <= max /\ x \in Nat
      BY <1>2, <2>1, <2>2
    <3>2. s + h \in s..max /\ (s + h) - s = h /\ s + h # s
      BY <3>1
    <3> QED BY <1>1, <1>3, <3>2
  <2>4. R \subseteq Nat /\ R # {}
    BY <1>5, <2>3
  <2> HIDE DEF R
  <2>5. Min(R) = s + h
    BY <2>2, <2>3, <2>4, MinFacts
  <2>6. StepOf(S) = Min(R) - s
    BY <1>5 DEF StepOf, R
  <2> QED BY <2>5, <2>6
<1>7. S = SteppedValues(s, h, Max(S))
  <2>1. S \subseteq 0..max
    BY <1>2
  <2>2. Max(S) \in S /\ \A y \in S : Max(S) >= y
    BY <1>5, <2>1, MaxFacts
  <2>3. Max(S) \in s..max
    BY <1>2, <2>2
  <2> DEFINE m == Max(S)
  <2> HIDE DEF m
  <2>4. \A x : x \in S <=> x \in s..m /\ (x - s) % h = 0
    <3>1. m \in s..max /\ \A y \in S : m >= y
      BY <2>2, <2>3 DEF m
    <3>2. S \subseteq s..m /\ s..m \subseteq s..max
      BY <1>2, <3>1
    <3> QED BY <1>3, <3>2, Zenon
  <2>5. S = {x \in s..m : (x - s) % h = 0}
    BY <2>4, Zenon
  <2> QED BY <2>5, Zenon DEF SteppedValues, m
<1> QED BY <1>2, <1>4, <1>5, <1>6, <1>7 DEF S

LEMMA LengthOfList ==
  ASSUME NEW n \in Nat, NEW S, S \subseteq 0..n, NEW a \in S
  PROVE  ((S = {a}) <=> (Cardinality(S) = 1)) /\ ((S # {a}) <=> (Cardinality(S) > 1))
<1>1. IsFiniteSet(0..n)
  BY FS_Interval
<1>2. IsFiniteSet(S)
  BY <1>1, FS_Subset
<1> QED BY <1>2, OneOrMore

\* What is read from a field that is a step or a list with one.
LEMMA ReadForm ==
  ASSUME NEW first \in {0, 1}, NEW max \in Nat, first <= max,
         NEW F \in TimeField, FieldForm(F, first..max), Simple(F)
  PROVE  StepIn(F) \in Nat /\ StartIn(F, first) \in first..max
<1>1. CASE F.is = "any"
  BY <1>1 DEF StepIn, StartIn
<1>2. CASE F.is = "every"
  <2>1. PICK n \in Nat : F.of = {n}
    BY <1>2 DEF FieldForm, TimeField
  <2> QED BY <1>2, <2>1, MaxOfOne DEF StepIn, StartIn
<1>3. CASE F.is = "list"
  <2> DEFINE S == F.of
             m == Min(S)
             R == S \ {m}
  <2>1. S \subseteq first..max /\ S # {} /\ Cardinality(S) > 1
    BY <1>3 DEF Simple, IsStepped, FieldForm
  <2>2. StepIn(F) = Min(R) - m /\ StartIn(F, first) = m
    BY <1>3 DEF StepIn, StartIn, StepOf
  <2> HIDE DEF S
  <2>3. m \in S /\ \A y \in S : m <= y
    <3>1. S \subseteq Nat
      BY <2>1
    <3> QED BY <2>1, <3>1, MinFacts
  <2> HIDE DEF m
  <2>4. R \subseteq Nat /\ R # {}
    <3>1. S \subseteq 0..max /\ S \subseteq Nat
      BY <2>1
    <3>2. S # {m}
      BY <2>1, <2>3, <3>1, LengthOfList
    <3> QED BY <2>3, <3>1, <3>2
  <2>5. Min(R) \in S
    <3> HIDE DEF R
    <3>1. Min(R) \in R
      BY <2>4, MinFacts
    <3> QED BY <3>1 DEF R
  <2> DEFINE k == Min(R)
  <2>6. k \in S /\ m <= k
    BY <2>3, <2>5
  <2> HIDE DEF k
  <2>7. k - m \in Nat /\ m \in first..max
    BY <2>1, <2>3, <2>6
  <2> QED BY <2>2, <2>7 DEF k
<1> QED BY <1>1, <1>2, <1>3 DEF TimeField

LEMMA SteppingForm ==
  ASSUME NEW first \in {0, 1}, NEW max \in Nat, first <= max,
         NEW step \in Nat, NEW start \in first..max
  PROVE  LET F == Stepping(step, start, first, max) IN F \in TimeField /\ FieldForm(F, first..max)
<1>1. CASE step <= 1
  BY <1>1 DEF Stepping, AnyTime, TimeField, FieldForm
<1>2. CASE step > 1 /\ ~(start > first)
  <2>1. Stepping(step, start, first, max) = Every(step)
    BY <1>2 DEF Stepping
  <2> QED BY <2>1 DEF Every, TimeField, FieldForm
<1>3. CASE step > 1 /\ start > first
  <2> DEFINE S == SteppedValues(start, step, max)
  <2>1. Stepping(step, start, first, max) = Only(S)
    BY <1>3 DEF Stepping
  <2>2. S \subseteq start..max /\ start \in S
    BY <1>3, SteppedFacts
  <2> HIDE DEF S
  <2>3. S \subseteq first..max /\ S \subseteq Nat /\ S # {}
    BY <2>2
  <2> QED BY <2>1, <2>3 DEF Only, TimeField, FieldForm
<1> QED BY <1>1, <1>2, <1>3

\* A field that was written from a step and a start is read back as it was, or
\* is one value.
LEMMA SteppingBack ==
  ASSUME NEW first \in {0, 1}, NEW max \in Nat, first <= max,
         NEW step \in Nat, NEW start \in first..max
  PROVE  LET F == Stepping(step, start, first, max)
         IN /\ Simple(F) => Stepping(StepIn(F), StartIn(F, first), first, max) = F
            /\ ~Simple(F) => F = Only({start})
<1>1. CASE step <= 1
  <2>1. Stepping(step, start, first, max) = AnyTime /\ Stepping(1, first, first, max) = AnyTime
    BY <1>1 DEF Stepping
  <2>2. Simple(AnyTime) /\ StepIn(AnyTime) = 1 /\ StartIn(AnyTime, first) = first
    BY DEF AnyTime, Simple, StepIn, StartIn
  <2> QED BY <2>1, <2>2
<1>2. CASE step > 1 /\ ~(start > first)
  <2>1. Stepping(step, start, first, max) = Every(step) /\ Stepping(step, first, first, max) = Every(step)
    BY <1>2 DEF Stepping
  <2>2. Simple(Every(step)) /\ StepIn(Every(step)) = step /\ StartIn(Every(step), first) = first
    BY MaxOfOne DEF Every, Simple, StepIn, StartIn
  <2> QED BY <2>1, <2>2
<1>3. CASE step > 1 /\ start > first
  <2> DEFINE S == SteppedValues(start, step, max)
  <2>1. Stepping(step, start, first, max) = Only(S)
    BY <1>3 DEF Stepping
  <2>2. /\ S \subseteq start..max /\ start \in S /\ Min(S) = start
        /\ S # {start} => StepOf(S) = step /\ S = SteppedValues(start, step, Max(S))
    BY <1>3, SteppedFacts
  <2>3. Only(S).is = "list" /\ Only(S).of = S
    BY DEF Only
  <2>4. StartIn(Only(S), first) = start /\ StepIn(Only(S)) = StepOf(S)
    BY <2>2, <2>3 DEF StartIn, StepIn
  <2>5. (S # {start}) <=> (Cardinality(S) > 1)
    <3> HIDE DEF S
    <3>1. S \subseteq 0..max
      BY <2>2
    <3> QED BY <2>2, <3>1, LengthOfList
  <2>6. Simple(Only(S)) <=> S # {start}
    <3> HIDE DEF S
    <3> QED BY <2>2, <2>3, <2>5 DEF Simple, IsStepped
  <2> HIDE DEF S
  <2> QED BY <2>1, <2>2, <2>4, <2>6
<1> QED BY <1>1, <1>2, <1>3

\* The ranges of a week say its days.
LEMMA RangesBack ==
  ASSUME NEW days \in SUBSET (0..6)
  PROVE  /\ Ranges(days) \subseteq (0..6) \X (0..6)
         /\ {d \in 0..6 : \E r \in Ranges(days) : r[1] <= d /\ d <= r[2]} = days
         /\ Ranges(days) = {} => days = {}
<1>1. Ranges(days) \subseteq (0..6) \X (0..6)
  BY DEF Ranges
<1>2. ASSUME NEW r \in Ranges(days), NEW d \in 0..6, r[1] <= d, d <= r[2] PROVE d \in days
  <2>1. r[1] \in 0..6 /\ r[2] \in 0..6 /\ r[1]..r[2] \subseteq days
    BY <1>2 DEF Ranges
  <2> QED BY <1>2, <2>1
<1>3. ASSUME NEW d \in days PROVE \E r \in Ranges(days) : r[1] <= d /\ d <= r[2]
  <2> DEFINE Low == {a \in 0..d : a..d \subseteq days}
             High == {b \in 0..7 : b > d /\ b \notin days}
  <2>1. PICK a \in Low : \A k \in Low : a <= k
    <3>1. d \in Low /\ Low \subseteq Nat
      OBVIOUS
    <3> HIDE DEF Low
    <3> QED BY <3>1, SmallestOne
  <2>2. PICK b \in High : \A k \in High : b <= k
    <3>1. 7 \in High /\ High \subseteq Nat
      OBVIOUS
    <3> HIDE DEF High
    <3> QED BY <3>1, SmallestOne
  <2>3. a - 1 \notin days
    <3> SUFFICES ASSUME a - 1 \in days PROVE FALSE
      OBVIOUS
    <3>1. a - 1 \in Low
      <4>1. a \in 0..d /\ a..d \subseteq days /\ a - 1 \in 0..d
        BY <2>1
      <4>2. \A x \in (a - 1)..d : x = a - 1 \/ x \in a..d
        BY <4>1
      <4> QED BY <4>1, <4>2
    <3>2. a <= a - 1 /\ a \in 0..d
      BY <2>1, <3>1
    <3> QED BY <3>2
  <2>4. a..(b - 1) \subseteq days
    <3> SUFFICES ASSUME NEW x \in a..(b - 1) PROVE x \in days
      OBVIOUS
    <3>1. a \in 0..d /\ a..d \subseteq days /\ b \in 0..7 /\ b > d
      BY <2>1, <2>2
    <3>2. CASE x <= d
      BY <3>1, <3>2
    <3>3. CASE x > d
      <4>1. x \in 0..7 /\ ~(b <= x)
        BY <3>1, <3>3
      <4>2. x \notin High
        BY <2>2, <4>1
      <4> QED BY <3>3, <4>1, <4>2
    <3> QED BY <3>1, <3>2, <3>3
  <2>5. a \in 0..6 /\ b - 1 \in 0..6 /\ a <= d /\ d <= b - 1 /\ (b - 1) + 1 \notin days
    BY <2>1, <2>2
  <2>6. a \in days /\ b - 1 \in days
    BY <2>4, <2>5
  <2>7. <<a, b - 1>> \in Ranges(days)
    <3>1. <<a, b - 1>> \in days \X days /\ <<a, b - 1>>[1] = a /\ <<a, b - 1>>[2] = b - 1
      BY <2>6
    <3> QED BY <2>3, <2>4, <2>5, <3>1 DEF Ranges
  <2> QED BY <2>5, <2>7
<1> QED BY <1>1, <1>2, <1>3

WellFormed(e) == e \in Expression /\ FieldForm(e.hour, 0..23) /\ FieldForm(e.day, 1..31)

Editors ==
  [mode : {"x_hours", "x_days", "certain_days", "custom"}, hours : Nat, startHour : 0..23, days : Nat,
   hour : 0..23, startDay : 1..31, week : SUBSET (0..6), weekHour : 0..23, left : Nat]

Written == {"x_hours", "x_days", "certain_days"}

LEMMA CronForm ==
  ASSUME NEW hour \in TimeField, FieldForm(hour, 0..23), NEW day \in TimeField, FieldForm(day, 1..31),
         NEW week \in SUBSET ((0..6) \X (0..6))
  PROVE  WellFormed(Cron(hour, day, week))
BY DEF Cron, Expression, WellFormed

\* What is written from the fields is well formed.
LEMMA WrittenForm ==
  ASSUME NEW f \in Editors, f.mode \in Written
  PROVE  WellFormed(Generated(f))
<1>1. AnyTime \in TimeField /\ FieldForm(AnyTime, 0..23) /\ FieldForm(AnyTime, 1..31)
  BY DEF AnyTime, TimeField, FieldForm
<1>2. ASSUME NEW h \in 0..23 PROVE Only({h}) \in TimeField /\ FieldForm(Only({h}), 0..23)
  BY DEF Only, TimeField, FieldForm
<1>3. {} \in SUBSET ((0..6) \X (0..6))
  OBVIOUS
<1>4. CASE f.mode = "x_hours"
  <2> DEFINE F == Stepping(f.hours, f.startHour, 0, 23)
  <2>1. F \in TimeField /\ FieldForm(F, 0..23)
    <3>1. f.hours \in Nat /\ f.startHour \in 0..23 /\ 0 \in {0, 1} /\ 23 \in Nat /\ 0 <= 23
      BY DEF Editors
    <3> QED BY <3>1, SteppingForm, Zenon
  <2>2. Generated(f) = Cron(F, AnyTime, {})
    BY <1>4 DEF Generated
  <2> HIDE DEF F
  <2> QED BY <1>1, <1>3, <2>1, <2>2, CronForm, Zenon
<1>5. CASE f.mode = "x_days"
  <2> DEFINE F == Stepping(f.days, f.startDay, 1, 31)
             A == Only({f.hour})
  <2>1. F \in TimeField /\ FieldForm(F, 1..31)
    <3>1. f.days \in Nat /\ f.startDay \in 1..31 /\ 1 \in {0, 1} /\ 31 \in Nat /\ 1 <= 31
      BY DEF Editors
    <3> QED BY <3>1, SteppingForm, Zenon
  <2>2. Generated(f) = Cron(A, F, {}) /\ f.hour \in 0..23
    BY <1>5 DEF Generated, Editors
  <2>3. A \in TimeField /\ FieldForm(A, 0..23)
    BY <1>2, <2>2, Zenon
  <2> HIDE DEF F, A
  <2> QED BY <1>3, <2>1, <2>2, <2>3, CronForm, Zenon
<1>6. CASE f.mode = "certain_days"
  <2> DEFINE W == Ranges(f.week)
             A == Only({f.weekHour})
  <2>1. W \in SUBSET ((0..6) \X (0..6)) /\ f.weekHour \in 0..23
    BY RangesBack DEF Editors
  <2>2. Generated(f) = Cron(A, AnyTime, W)
    BY <1>6 DEF Generated
  <2>3. A \in TimeField /\ FieldForm(A, 0..23)
    BY <1>2, <2>1, Zenon
  <2> HIDE DEF W, A
  <2> QED BY <1>1, <2>1, <2>2, <2>3, CronForm, Zenon
<1> QED BY <1>4, <1>5, <1>6 DEF Written

-----------------------------------------------------------------------------
(* Reading an expression.                                                   *)

LEMMA OneValue ==
  ASSUME NEW h \in 0..31
  PROVE  Single(Only({h})) /\ ~Simple(Only({h})) /\ Max(Only({h}).of) = h /\ Only({h}) # AnyTime
<1>1. Only({h}).is = "list" /\ Only({h}).of = {h}
  BY DEF Only
<1>2. Cardinality({h}) = 1
  BY FS_Singleton
<1>3. Max({h}) = h
  BY MaxOfOne
<1> QED BY <1>1, <1>2, <1>3 DEF Single, Simple, IsStepped, AnyTime

LEMMA AnyRead == Simple(AnyTime) /\ ~Single(AnyTime) /\ StepIn(AnyTime) = 1 /\ StartIn(AnyTime, 1) = 1
                 /\ Stepping(1, 1, 1, 31) = AnyTime
BY DEF AnyTime, Simple, Single, StepIn, StartIn, Stepping

LEMMA SimpleOrSingle == \A F : ~(Simple(F) /\ Single(F))
BY DEF Simple, IsStepped, Single

LEMMA ReadHours ==
  ASSUME NEW e, e # NoCron, e.day = AnyTime, e.week = {}, Simple(e.hour)
  PROVE  /\ ModeOf(e) = "x_hours"
         /\ Populated(e) = [Blank EXCEPT !.mode = "x_hours", !.hours = StepIn(e.hour),
                                         !.startHour = StartIn(e.hour, 0)]
         /\ Rewritten(e) = Cron(Stepping(StepIn(e.hour), StartIn(e.hour, 0), 0, 23), AnyTime, {})
<1>1. ModeOf(e) = "x_hours"
  BY SimpleOrSingle DEF ModeOf
<1>2. Populated(e) = [Blank EXCEPT !.mode = "x_hours", !.hours = StepIn(e.hour),
                                   !.startHour = StartIn(e.hour, 0)]
  BY <1>1 DEF Populated, Blank
<1>3. Populated(e).mode = "x_hours" /\ Populated(e).hours = StepIn(e.hour)
      /\ Populated(e).startHour = StartIn(e.hour, 0)
  BY <1>2 DEF Blank
<1> QED BY <1>1, <1>2, <1>3 DEF Rewritten, Generated

LEMMA ReadDays ==
  ASSUME NEW e, e # NoCron, ~(e.day = AnyTime /\ Simple(e.hour)), Single(e.hour), e.week = {}, Simple(e.day)
  PROVE  /\ ModeOf(e) = "x_days"
         /\ Populated(e) = [Blank EXCEPT !.mode = "x_days", !.hour = Max(e.hour.of), !.days = StepIn(e.day),
                                         !.startDay = StartIn(e.day, 1)]
         /\ Rewritten(e) = Cron(Only({Max(e.hour.of)}), Stepping(StepIn(e.day), StartIn(e.day, 1), 1, 31), {})
<1>1. ModeOf(e) = "x_days"
  BY SimpleOrSingle DEF ModeOf
<1>2. Populated(e) = [Blank EXCEPT !.mode = "x_days", !.hour = Max(e.hour.of), !.days = StepIn(e.day),
                                   !.startDay = StartIn(e.day, 1)]
  BY <1>1 DEF Populated, Blank
<1>3. Populated(e).mode = "x_days" /\ Populated(e).hour = Max(e.hour.of)
      /\ Populated(e).days = StepIn(e.day) /\ Populated(e).startDay = StartIn(e.day, 1)
  BY <1>2 DEF Blank
<1> QED BY <1>1, <1>2, <1>3 DEF Rewritten, Generated

DaysIn(e) == {d \in 0..6 : \E r \in e.week : r[1] <= d /\ d <= r[2]}

LEMMA ReadWeek ==
  ASSUME NEW e, e # NoCron, e.day = AnyTime, Single(e.hour), e.week # {}
  PROVE  /\ ModeOf(e) = "certain_days"
         /\ Populated(e) = [Blank EXCEPT !.mode = "certain_days", !.weekHour = Max(e.hour.of), !.week = DaysIn(e)]
         /\ Rewritten(e) = Cron(Only({Max(e.hour.of)}), AnyTime, Ranges(DaysIn(e)))
<1>1. ModeOf(e) = "certain_days"
  BY DEF ModeOf
<1>2. Populated(e) = [Blank EXCEPT !.mode = "certain_days", !.weekHour = Max(e.hour.of), !.week = DaysIn(e)]
  BY <1>1 DEF Populated, Blank, DaysIn
<1>3. Populated(e).mode = "certain_days" /\ Populated(e).weekHour = Max(e.hour.of)
      /\ Populated(e).week = DaysIn(e)
  BY <1>2 DEF Blank
<1> QED BY <1>1, <1>2, <1>3 DEF Rewritten, Generated

LEMMA ReadNothing ==
  /\ ModeOf(NoCron) = "x_hours" /\ Populated(NoCron) = Blank
  /\ Rewritten(NoCron) = Generated(Blank)
<1>1. ModeOf(NoCron) = "x_hours"
  BY DEF ModeOf
<1>2. Populated(NoCron) = Blank
  BY <1>1 DEF Populated, Blank
<1> QED BY <1>1, <1>2 DEF Rewritten

\* An expression that no mode reads is left as it is.
LEMMA ReadCustom ==
  ASSUME NEW e, ModeOf(e) = "custom"
  PROVE  Populated(e) = [Blank EXCEPT !.mode = "custom"] /\ Rewritten(e) = e
BY DEF Populated, Blank, Rewritten

\* What was written from the fields is written again when it is read.
LEMMA WrittenAgain ==
  ASSUME NEW f \in Editors, f.mode \in Written
  PROVE  Rewritten(Generated(f)) = Generated(f)
<1> DEFINE e == Generated(f)
<1>1. e # NoCron
  BY WrittenForm, CrontabAssumption DEF WellFormed
<1>2. \A hour, day, week : LET c == Cron(hour, day, week) IN c.hour = hour /\ c.day = day /\ c.week = week
  BY DEF Cron
<1>3. CASE f.mode = "x_hours"
  <2> DEFINE F == Stepping(f.hours, f.startHour, 0, 23)
  <2>1. e = Cron(F, AnyTime, {})
    BY <1>3 DEF Generated
  <2>2. f.hours \in Nat /\ f.startHour \in 0..23 /\ 0 \in {0, 1} /\ 23 \in Nat /\ 0 <= 23
    BY DEF Editors
  <2>3. /\ Simple(F) => Stepping(StepIn(F), StartIn(F, 0), 0, 23) = F
        /\ ~Simple(F) => F = Only({f.startHour})
    BY <2>2, SteppingBack, Zenon
  <2> HIDE DEF F, e
  <2>4. e.hour = F /\ e.day = AnyTime /\ e.week = {}
    BY <1>2, <2>1
  <2>5. ASSUME Simple(F) PROVE Rewritten(e) = e
    BY <1>1, <2>1, <2>3, <2>4, <2>5, ReadHours
  <2>6. ASSUME ~Simple(F) PROVE Rewritten(e) = e
    <3>1. Single(F) /\ Max(F.of) = f.startHour
      <4>1. f.startHour \in 0..31
        BY <2>2
      <4>2. Single(Only({f.startHour})) /\ Max(Only({f.startHour}).of) = f.startHour
        BY <4>1, OneValue, Zenon
      <4> QED BY <2>3, <2>6, <4>2
    <3>2. Rewritten(e) = Cron(Only({Max(F.of)}), Stepping(1, 1, 1, 31), {})
      BY <1>1, <2>4, <2>6, <3>1, ReadDays, AnyRead
    <3> QED BY <2>1, <2>3, <2>6, <3>1, <3>2, AnyRead
  <2> QED BY <2>5, <2>6 DEF e
<1>4. CASE f.mode = "x_days"
  <2> DEFINE F == Stepping(f.days, f.startDay, 1, 31)
             A == Only({f.hour})
  <2>1. e = Cron(A, F, {})
    BY <1>4 DEF Generated
  <2>2. f.days \in Nat /\ f.startDay \in 1..31 /\ 1 \in {0, 1} /\ 31 \in Nat /\ 1 <= 31 /\ f.hour \in 0..31
    BY DEF Editors
  <2>3. /\ Simple(F) => Stepping(StepIn(F), StartIn(F, 1), 1, 31) = F
        /\ ~Simple(F) => F = Only({f.startDay})
    BY <2>2, SteppingBack, Zenon
  <2>4. Single(A) /\ ~Simple(A) /\ Max(A.of) = f.hour
    BY <2>2, OneValue
  <2> HIDE DEF F, A, e
  <2>5. e.hour = A /\ e.day = F /\ e.week = {}
    BY <1>2, <2>1
  <2>6. ASSUME Simple(F) PROVE Rewritten(e) = e
    <3>1. Rewritten(e) = Cron(Only({Max(A.of)}), Stepping(StepIn(F), StartIn(F, 1), 1, 31), {})
      BY <1>1, <2>4, <2>5, <2>6, ReadDays
    <3> QED BY <2>1, <2>3, <2>4, <2>6, <3>1 DEF A
  <2>7. ASSUME ~Simple(F) PROVE Rewritten(e) = e
    <3>1. F # AnyTime
      BY <2>7, AnyRead
    <3>2. ModeOf(e) = "custom"
      BY <2>4, <2>5, <2>7, <3>1, <1>1 DEF ModeOf
    <3> QED BY <3>2, ReadCustom
  <2> QED BY <2>6, <2>7 DEF e
<1>5. CASE f.mode = "certain_days"
  <2> DEFINE W == Ranges(f.week)
             A == Only({f.weekHour})
  <2>1. e = Cron(A, AnyTime, W)
    BY <1>5 DEF Generated
  <2>2. f.week \in SUBSET (0..6) /\ f.weekHour \in 0..31
    BY DEF Editors
  <2>3. Single(A) /\ ~Simple(A) /\ Max(A.of) = f.weekHour
    BY <2>2, OneValue
  <2>4. {d \in 0..6 : \E r \in W : r[1] <= d /\ d <= r[2]} = f.week
    BY <2>2, RangesBack
  <2> HIDE DEF W, A, e
  <2>5. e.hour = A /\ e.day = AnyTime /\ e.week = W
    BY <1>2, <2>1
  <2>6. ASSUME W = {} PROVE Rewritten(e) = e
    <3>1. Rewritten(e) = Cron(Only({Max(A.of)}), Stepping(1, 1, 1, 31), {})
      BY <1>1, <2>3, <2>5, <2>6, ReadDays, AnyRead
    <3> QED BY <2>1, <2>3, <2>6, <3>1, AnyRead DEF A
  <2>7. ASSUME W # {} PROVE Rewritten(e) = e
    <3>1. DaysIn(e) = f.week
      BY <2>4, <2>5 DEF DaysIn
    <3>2. Rewritten(e) = Cron(Only({Max(A.of)}), AnyTime, Ranges(f.week))
      BY <1>1, <2>3, <2>5, <2>7, <3>1, ReadWeek
    <3> QED BY <2>1, <2>3, <3>2 DEF W, A
  <2> QED BY <2>6, <2>7 DEF e
<1> QED BY <1>3, <1>4, <1>5 DEF Written

LEMMA BlankForm == Blank \in Editors
BY CrontabAssumption DEF Blank, Editors

\* The fields of a picker that is opened.
LEMMA PopulatedForm ==
  ASSUME NEW e, WellFormed(e)
  PROVE  /\ Populated(e) \in Editors
         /\ Populated(e).mode \in Written => Rewritten(e) = Generated(Populated(e))
         /\ Populated(e).mode \notin Written => Rewritten(e) = e
<1>1. e # NoCron /\ e.hour \in TimeField /\ e.day \in TimeField
      /\ FieldForm(e.hour, 0..23) /\ FieldForm(e.day, 1..31)
  BY CrontabAssumption DEF WellFormed, Expression
<1>2. 0 \in {0, 1} /\ 1 \in {0, 1} /\ 23 \in Nat /\ 31 \in Nat /\ 0 <= 23 /\ 1 <= 31
  OBVIOUS
<1>3. Single(e.hour) => Max(e.hour.of) \in 0..23
  <2> SUFFICES ASSUME Single(e.hour) PROVE Max(e.hour.of) \in 0..23
    OBVIOUS
  <2>1. e.hour.of \subseteq 0..23 /\ e.hour.of # {}
    BY <1>1 DEF FieldForm, Single
  <2>2. Max(e.hour.of) \in e.hour.of
    BY <2>1, <1>2, MaxFacts
  <2> QED BY <2>1, <2>2
<1>4. CASE e.day = AnyTime /\ e.week = {} /\ Simple(e.hour)
  <2>1. StepIn(e.hour) \in Nat /\ StartIn(e.hour, 0) \in 0..23
    BY <1>1, <1>2, <1>4, ReadForm, Zenon
  <2>2. ModeOf(e) = "x_hours" /\ Populated(e) = [Blank EXCEPT !.mode = "x_hours", !.hours = StepIn(e.hour),
                                                               !.startHour = StartIn(e.hour, 0)]
    BY <1>1, <1>4, ReadHours
  <2>3. Populated(e) \in Editors /\ Populated(e).mode = "x_hours"
    BY <2>1, <2>2, BlankForm DEF Editors
  <2> QED BY <2>2, <2>3 DEF Rewritten, Written
<1>5. CASE ~(e.day = AnyTime /\ Simple(e.hour)) /\ Single(e.hour) /\ e.week = {} /\ Simple(e.day)
  <2>1. StepIn(e.day) \in Nat /\ StartIn(e.day, 1) \in 1..31
    BY <1>1, <1>2, <1>5, ReadForm, Zenon
  <2>2. ModeOf(e) = "x_days" /\ Populated(e) = [Blank EXCEPT !.mode = "x_days", !.hour = Max(e.hour.of),
                                                  !.days = StepIn(e.day), !.startDay = StartIn(e.day, 1)]
    BY <1>1, <1>5, ReadDays
  <2>3. Populated(e) \in Editors /\ Populated(e).mode = "x_days"
    <3> DEFINE hour == Max(e.hour.of) days == StepIn(e.day) start == StartIn(e.day, 1)
    <3>1. hour \in 0..23 /\ days \in Nat /\ start \in 1..31
      BY <1>3, <1>5, <2>1
    <3>2. Populated(e) = [Blank EXCEPT !.mode = "x_days", !.hour = hour, !.days = days, !.startDay = start]
      BY <2>2
    <3> HIDE DEF hour, days, start
    <3> QED BY <3>1, <3>2, BlankForm DEF Editors
  <2> QED BY <2>2, <2>3 DEF Rewritten, Written
<1>6. CASE e.day = AnyTime /\ Single(e.hour) /\ e.week # {}
  <2>1. ModeOf(e) = "certain_days" /\ Populated(e) = [Blank EXCEPT !.mode = "certain_days",
                                                        !.weekHour = Max(e.hour.of), !.week = DaysIn(e)]
    BY <1>1, <1>6, ReadWeek
  <2>2. DaysIn(e) \in SUBSET (0..6)
    BY DEF DaysIn
  <2>3. Populated(e) \in Editors /\ Populated(e).mode = "certain_days"
    BY <1>3, <1>6, <2>1, <2>2, BlankForm DEF Editors
  <2> QED BY <2>1, <2>3 DEF Rewritten, Written
<1>7. CASE /\ ~(e.day = AnyTime /\ e.week = {} /\ Simple(e.hour))
           /\ ~(Single(e.hour) /\ e.week = {} /\ Simple(e.day))
           /\ ~(e.day = AnyTime /\ Single(e.hour) /\ e.week # {})
  <2>1. ModeOf(e) = "custom"
    BY <1>1, <1>7 DEF ModeOf
  <2>2. Populated(e) = [Blank EXCEPT !.mode = "custom"] /\ Rewritten(e) = e
    BY <2>1, ReadCustom
  <2>3. Populated(e) \in Editors /\ Populated(e).mode = "custom"
    BY <2>2, BlankForm DEF Editors
  <2> QED BY <2>2, <2>3 DEF Written
<1> QED BY <1>4, <1>5, <1>6, <1>7

-----------------------------------------------------------------------------
(* The picker: what it hands on is what its fields say.                     *)

PickerInv ==
  page = "crontab" =>
    /\ editor = Closed \/ editor \in Editors
    /\ shown = NoCron \/ WellFormed(shown)
    /\ editor \in Editors /\ editor.mode \in Written => shown = Generated(editor)

LEMMA ClosedNot == Closed \notin Editors /\ Closed.mode = "closed"
BY DEF Closed, Editors

LEMMA OpenEditor == PickerInv /\ page = "crontab" /\ IsOpen => editor \in Editors
BY ClosedNot DEF PickerInv, IsOpen

LEMMA PickerInitInv == PickerInit => PickerInv
BY CrontabAssumption, ClosedNot DEF PickerInit, PickerInv, WellFormed

LEMMA PickerEdit ==
  ASSUME PickerInv, page = "crontab", NEW f \in Editors, f.left = editor.left, Edit(f)
  PROVE  PickerInv'
<1>1. f.left > 0 /\ editor' = [f EXCEPT !.left = f.left - 1]
  BY DEF Edit
<1>2. f.left - 1 \in Nat
  BY <1>1 DEF Editors
<1>3. editor' \in Editors /\ editor'.mode = f.mode
  BY <1>1, <1>2 DEF Editors
<1>4. Generated(editor') = Generated(f)
  <2>1. /\ editor'.hours = f.hours /\ editor'.startHour = f.startHour /\ editor'.days = f.days
        /\ editor'.startDay = f.startDay /\ editor'.hour = f.hour
        /\ editor'.week = f.week /\ editor'.weekHour = f.weekHour
    BY <1>1 DEF Editors
  <2> QED BY <1>3, <2>1 DEF Generated
<1>5. CASE f.mode = "custom"
  <2>1. shown' = shown /\ editor'.mode \notin Written
    BY <1>3, <1>5 DEF Edit, Written
  <2> QED BY <1>3, <2>1 DEF PickerInv, WellFormed
<1>6. CASE f.mode # "custom"
  <2>1. f.mode \in Written /\ shown' = Generated(f)
    BY <1>6 DEF Edit, Editors, Written
  <2>2. WellFormed(shown)'
    BY <2>1, WrittenForm DEF WellFormed
  <2> QED BY <1>3, <1>4, <2>1, <2>2 DEF PickerInv
<1> QED BY <1>5, <1>6

LEMMA PickerStep == PickerInv /\ PickerNext => PickerInv'
<1> SUFFICES ASSUME PickerInv, PickerNext PROVE PickerInv'
  OBVIOUS
<1>1. page = "crontab" /\ page' = page
  BY DEF PickerNext
<1>2. CASE OpenPicker
  <2>1. editor' = Populated(shown) /\ shown' = Rewritten(shown)
    BY <1>2 DEF OpenPicker
  <2>2. CASE shown = NoCron
    <3>1. editor' = Blank /\ shown' = Generated(Blank) /\ Blank.mode \in Written
      BY <2>1, <2>2, ReadNothing DEF Blank, Written
    <3>2. WellFormed(shown)'
      BY <3>1, BlankForm, WrittenForm DEF WellFormed
    <3> QED BY <3>1, <3>2, BlankForm DEF PickerInv
  <2>3. CASE WellFormed(shown)
    <3>1. /\ editor' \in Editors
          /\ editor'.mode \in Written => shown' = Generated(editor')
          /\ editor'.mode \notin Written => shown' = shown
      BY <2>1, <2>3, PopulatedForm
    <3>2. WellFormed(shown)'
      <4>1. CASE editor'.mode \in Written
        <5>1. WellFormed(Generated(editor'))
          BY <3>1, <4>1, WrittenForm
        <5> QED BY <3>1, <4>1, <5>1 DEF WellFormed
      <4>2. CASE editor'.mode \notin Written
        BY <2>3, <3>1, <4>2 DEF WellFormed
      <4> QED BY <4>1, <4>2
    <3> QED BY <3>1, <3>2 DEF PickerInv
  <2> QED BY <1>1, <2>2, <2>3 DEF PickerInv
<1>3. CASE SwitchMode
  <2>1. PICK m \in {"x_hours", "x_days", "certain_days", "custom"} : Edit([editor EXCEPT !.mode = m])
    BY <1>3 DEF SwitchMode
  <2>2. editor \in Editors
    BY <1>1, <2>1, OpenEditor DEF Edit
  <2>3. [editor EXCEPT !.mode = m] \in Editors /\ [editor EXCEPT !.mode = m].left = editor.left
    BY <2>2 DEF Editors
  <2> QED BY <1>1, <2>1, <2>3, PickerEdit
<1>4. CASE EditHours
  <2>1. PICK n \in Nat, h \in 0..23 : Edit([editor EXCEPT !.hours = n, !.startHour = h])
    <3>1. editor \in Editors
      BY <1>1, <1>4, OpenEditor DEF EditHours, IsOpen
    <3>2. CASE \E n \in HourStep : Edit([editor EXCEPT !.hours = n, !.startHour = IF n <= 1 THEN 0 ELSE @])
      <4>1. PICK n \in HourStep : Edit([editor EXCEPT !.hours = n, !.startHour = IF n <= 1 THEN 0 ELSE @])
        BY <3>2
      <4>2. n \in Nat /\ (IF n <= 1 THEN 0 ELSE editor.startHour) \in 0..23
        BY <3>1, CrontabAssumption DEF Editors
      <4> QED BY <4>1, <4>2
    <3>3. CASE \E h \in StartHour : Edit([editor EXCEPT !.startHour = h])
      <4>1. PICK h \in StartHour : Edit([editor EXCEPT !.startHour = h])
        BY <3>3
      <4>2. editor.hours \in Nat /\ h \in 0..23
        BY <3>1, CrontabAssumption DEF Editors
      <4>3. [editor EXCEPT !.startHour = h] = [editor EXCEPT !.hours = editor.hours, !.startHour = h]
        BY <3>1 DEF Editors
      <4> QED BY <4>1, <4>2, <4>3
    <3> QED BY <1>4, <3>2, <3>3 DEF EditHours
  <2>2. editor \in Editors
    BY <1>1, <2>1, OpenEditor DEF Edit
  <2> DEFINE f == [editor EXCEPT !.hours = n, !.startHour = h]
  <2>3. f \in Editors /\ f.left = editor.left
    BY <2>2 DEF Editors
  <2> HIDE DEF f
  <2> QED BY <1>1, <2>1, <2>3, PickerEdit DEF f
<1>5. CASE EditDays
  <2>1. PICK n \in Nat, d \in 1..31, h \in 0..23 : Edit([editor EXCEPT !.days = n, !.startDay = d, !.hour = h])
    <3>1. editor \in Editors
      BY <1>1, <1>5, OpenEditor DEF EditDays, IsOpen
    <3>2. CASE \E n \in DayStep : Edit([editor EXCEPT !.days = n, !.startDay = IF n <= 1 THEN 1 ELSE @])
      <4>1. PICK n \in DayStep : Edit([editor EXCEPT !.days = n, !.startDay = IF n <= 1 THEN 1 ELSE @])
        BY <3>2
      <4> DEFINE d == IF n <= 1 THEN 1 ELSE editor.startDay
      <4>2. n \in Nat /\ d \in 1..31 /\ editor.hour \in 0..23
        BY <3>1, CrontabAssumption DEF Editors
      <4>3. [editor EXCEPT !.days = n, !.startDay = d]
            = [editor EXCEPT !.days = n, !.startDay = d, !.hour = editor.hour]
        BY <3>1 DEF Editors
      <4> QED BY <4>1, <4>2, <4>3
    <3>3. CASE \E d \in StartDay : Edit([editor EXCEPT !.startDay = d])
      <4>1. PICK d \in StartDay : Edit([editor EXCEPT !.startDay = d])
        BY <3>3
      <4>2. editor.days \in Nat /\ d \in 1..31 /\ editor.hour \in 0..23
        BY <3>1, CrontabAssumption DEF Editors
      <4>3. [editor EXCEPT !.startDay = d]
            = [editor EXCEPT !.days = editor.days, !.startDay = d, !.hour = editor.hour]
        BY <3>1 DEF Editors
      <4> QED BY <4>1, <4>2, <4>3
    <3>4. CASE \E h \in AtHour : Edit([editor EXCEPT !.hour = h])
      <4>1. PICK h \in AtHour : Edit([editor EXCEPT !.hour = h])
        BY <3>4
      <4>2. editor.days \in Nat /\ editor.startDay \in 1..31 /\ h \in 0..23
        BY <3>1, CrontabAssumption DEF Editors
      <4>3. [editor EXCEPT !.hour = h]
            = [editor EXCEPT !.days = editor.days, !.startDay = editor.startDay, !.hour = h]
        BY <3>1 DEF Editors
      <4> QED BY <4>1, <4>2, <4>3
    <3> QED BY <1>5, <3>2, <3>3, <3>4 DEF EditDays
  <2>2. editor \in Editors
    BY <1>1, <2>1, OpenEditor DEF Edit
  <2> DEFINE f == [editor EXCEPT !.days = n, !.startDay = d, !.hour = h]
  <2>3. f \in Editors /\ f.left = editor.left
    BY <2>2 DEF Editors
  <2> HIDE DEF f
  <2> QED BY <1>1, <2>1, <2>3, PickerEdit DEF f
<1>6. CASE EditCertainDays
  <2>1. PICK w \in SUBSET (0..6), h \in 0..23 : Edit([editor EXCEPT !.week = w, !.weekHour = h])
    <3>1. editor \in Editors
      BY <1>1, <1>6, OpenEditor DEF EditCertainDays, IsOpen
    <3>2. CASE \E d \in Weekday : Edit([editor EXCEPT !.week = IF d \in @ THEN @ \ {d} ELSE @ \cup {d}])
      <4>1. PICK d \in Weekday : Edit([editor EXCEPT !.week = IF d \in @ THEN @ \ {d} ELSE @ \cup {d}])
        BY <3>2
      <4> DEFINE w == IF d \in editor.week THEN editor.week \ {d} ELSE editor.week \cup {d}
      <4>2. w \in SUBSET (0..6) /\ editor.weekHour \in 0..23
        BY <3>1, CrontabAssumption DEF Editors
      <4> HIDE DEF w
      <4>3. [editor EXCEPT !.week = w] = [editor EXCEPT !.week = w, !.weekHour = editor.weekHour]
        BY <3>1 DEF Editors
      <4> QED BY <4>1, <4>2, <4>3 DEF w
    <3>3. CASE \E h \in AtHour : Edit([editor EXCEPT !.weekHour = h])
      <4>1. PICK h \in AtHour : Edit([editor EXCEPT !.weekHour = h])
        BY <3>3
      <4>2. editor.week \in SUBSET (0..6) /\ h \in 0..23
        BY <3>1, CrontabAssumption DEF Editors
      <4>3. [editor EXCEPT !.weekHour = h] = [editor EXCEPT !.week = editor.week, !.weekHour = h]
        BY <3>1 DEF Editors
      <4> QED BY <4>1, <4>2, <4>3
    <3> QED BY <1>6, <3>2, <3>3 DEF EditCertainDays
  <2>2. editor \in Editors
    BY <1>1, <2>1, OpenEditor DEF Edit
  <2> DEFINE f == [editor EXCEPT !.week = w, !.weekHour = h]
  <2>3. f \in Editors /\ f.left = editor.left
    BY <2>2 DEF Editors
  <2> HIDE DEF f
  <2> QED BY <1>1, <2>1, <2>3, PickerEdit DEF f
<1>7. CASE EditCustom
  <2>1. editor.mode = "custom" /\ editor.left > 0 /\ shown' \in Typed
        /\ editor' = [editor EXCEPT !.left = editor.left - 1]
    BY <1>7 DEF EditCustom
  <2>2. editor \in Editors
    BY <1>1, <2>1, OpenEditor DEF IsOpen
  <2>3. editor' \in Editors /\ editor'.mode \notin Written
    BY <2>1, <2>2 DEF Editors, Written
  <2>4. WellFormed(shown)'
    BY <2>1, CrontabAssumption DEF WellFormed
  <2> QED BY <2>3, <2>4 DEF PickerInv
<1>8. CASE ClosePicker
  <2>1. editor' = Closed /\ shown' = shown
    BY <1>8 DEF ClosePicker
  <2> QED BY <1>1, <2>1, ClosedNot DEF PickerInv, WellFormed
<1> QED BY <1>2, <1>3, <1>4, <1>5, <1>6, <1>7, <1>8 DEF PickerNext

LEMMA PickerInvImplies == PickerInv => ReopenKeeps
<1> SUFFICES ASSUME PickerInv, page = "crontab", IsOpen, editor.mode # "custom"
             PROVE  Rewritten(shown) = shown
  BY DEF ReopenKeeps
<1>1. editor \in Editors /\ editor.mode \in Written
  BY OpenEditor DEF Editors, Written
<1> QED BY <1>1, WrittenAgain DEF PickerInv

-----------------------------------------------------------------------------
(* Schedules.                                                               *)

ScheduleOps == {"schedules", "sample", "add", "delete", "active", "close"}

FormOfSchedules(f) == f = [x \in {"open", "arg", "expr", "zone", "picker", "data"} |-> f[x]]
SessionOfSchedules(s) == s = [x \in {"open", "rows", "active", "sample", "result"} |-> s[x]]

\* What the form f asks for.
SampleOf(f) == [expr |-> f.expr, zone |-> f.zone]

\* The next runs of what is in the form were asked for last, are shown already,
\* or the dialog is shut after that.
SamplesAnswered(q, f, s) ==
  f.expr # NoCron =>
    LastAsked(q, "sample", "of", SampleOf(f), {"close"}, s.sample \in {Unset, SampleOf(f)})

SchedulesInv ==
  page = "schedules" =>
    /\ FormOfSchedules(scheduleForm) /\ SessionOfSchedules(schedules)
    /\ Queue(sent) /\ \A e \in Elements(sent) : e.op \in ScheduleOps
    /\ SamplesAnswered(sent, scheduleForm, schedules)

LEMMA SchedulesInitInv == sent = <<>> /\ SchedulesInit => SchedulesInv
<1> SUFFICES ASSUME sent = <<>>, SchedulesInit PROVE SchedulesInv
  OBVIOUS
<1>1. FormOfSchedules(scheduleForm) /\ SessionOfSchedules(schedules) /\ scheduleForm.expr = NoCron
  BY DEF SchedulesInit, FormOfSchedules, SessionOfSchedules
<1> QED BY <1>1, NoEvents DEF SchedulesInv, SamplesAnswered

\* Another event than a sample, or one for what the form has now.
LEMMA ScheduleEmitted ==
  ASSUME SchedulesInv, page = "schedules", UNCHANGED <<page, schedules>>, FormOfSchedules(scheduleForm'),
         NEW e, e.op \in ScheduleOps, sent' = Append(sent, e),
         \/ e.op # "sample" /\ SampleOf(scheduleForm') = SampleOf(scheduleForm)
         \/ e.op = "sample" /\ e.of = SampleOf(scheduleForm')
  PROVE  SchedulesInv'
<1> DEFINE F == SampleOf(scheduleForm)
           G == SampleOf(scheduleForm')
           done == schedules.sample \in {Unset, F}
           now == schedules.sample \in {Unset, G}
<1>1. Queue(sent) /\ \A x \in Elements(sent) : x.op \in ScheduleOps
  BY DEF SchedulesInv
<1>2. Queue(sent') /\ \A x \in Elements(sent') : x.op \in ScheduleOps
  BY <1>1, QueueSteps
<1>3. SamplesAnswered(sent', scheduleForm', schedules)
  <2>1. CASE e.op = "sample" /\ e.of = G
    <3>1. e["of"] = G
      BY <2>1
    <3> HIDE DEF G, now
    <3>2. LastAsked(sent', "sample", "of", G, {"close"}, now)
      BY <1>1, <2>1, <3>1, LastAskedGrows
    <3> QED BY <3>2 DEF SamplesAnswered, G, now
  <2>2. CASE e.op # "sample" /\ G = F
    <3> SUFFICES ASSUME scheduleForm'.expr # NoCron PROVE LastAsked(sent', "sample", "of", G, {"close"}, now)
      BY DEF SamplesAnswered
    <3>1. scheduleForm.expr # NoCron
      BY <2>2 DEF SampleOf
    <3>2. LastAsked(sent, "sample", "of", F, {"close"}, done)
      BY <3>1 DEF SchedulesInv, SamplesAnswered
    <3>3. now = done
      BY <2>2
    <3> HIDE DEF F, G, now, done
    <3>4. LastAsked(sent', "sample", "of", F, {"close"}, done)
      BY <1>1, <2>2, <3>2, LastAskedGrows
    <3> QED BY <2>2, <3>3, <3>4
  <2> QED BY <2>1, <2>2
<1> QED BY <1>2, <1>3 DEF SchedulesInv

LEMMA ScheduleUserStep ==
  ASSUME SchedulesInv, page = "schedules", UNCHANGED <<page, schedules>>, ScheduleUser
  PROVE  SchedulesInv'
<1>1. FormOfSchedules(scheduleForm) /\ SessionOfSchedules(schedules)
  BY DEF SchedulesInv
<1>2. CASE OpenSchedules
  <2> DEFINE e == [op |-> "schedules"]
  <2>1. sent' = Append(sent, e) /\ UNCHANGED scheduleForm /\ e.op = "schedules"
    BY <1>2 DEF OpenSchedules, Emit
  <2> HIDE DEF e
  <2>2. FormOfSchedules(scheduleForm') /\ SampleOf(scheduleForm') = SampleOf(scheduleForm)
    BY <1>1, <2>1
  <2> QED BY <2>1, <2>2, ScheduleEmitted DEF ScheduleOps
<1>3. CASE CloseSchedules
  <2> DEFINE e == [op |-> "close"]
  <2>1. sent' = Append(sent, e) /\ scheduleForm' = [scheduleForm EXCEPT !.open = FALSE] /\ e.op = "close"
    BY <1>3 DEF CloseSchedules, Emit, Filled
  <2> HIDE DEF e
  <2>2. FormOfSchedules(scheduleForm') /\ SampleOf(scheduleForm') = SampleOf(scheduleForm)
    BY <1>1, <2>1 DEF FormOfSchedules, SampleOf
  <2>3. e.op \in ScheduleOps /\ e.op # "sample"
    BY <2>1 DEF ScheduleOps
  <2> QED BY <2>1, <2>2, <2>3, ScheduleEmitted
<1>4. CASE PickSchedule
  <2>1. PICK x : Filled([scheduleForm EXCEPT !.picker = x, !.expr = x]) /\ AskSample(x, scheduleForm.zone)
    BY <1>4 DEF PickSchedule
  <2> DEFINE e == [op |-> "sample", of |-> [expr |-> x, zone |-> scheduleForm.zone]]
  <2>2. /\ sent' = Append(sent, e) /\ scheduleForm' = [scheduleForm EXCEPT !.picker = x, !.expr = x]
        /\ e.op = "sample" /\ e.of = [expr |-> x, zone |-> scheduleForm.zone]
    BY <2>1 DEF AskSample, Emit, Filled
  <2> HIDE DEF e
  <2>3. FormOfSchedules(scheduleForm') /\ e.of = SampleOf(scheduleForm')
    BY <1>1, <2>2 DEF FormOfSchedules, SampleOf
  <2> QED BY <2>2, <2>3, ScheduleEmitted DEF ScheduleOps
<1>5. CASE AddSchedule
  <2> DEFINE r == [arg |-> scheduleForm.arg, expr |-> scheduleForm.expr, zone |-> scheduleForm.zone]
             e == [op |-> "add", row |-> r]
  <2>1. sent' = Append(sent, e) /\ UNCHANGED scheduleForm /\ e.op = "add"
    BY <1>5 DEF AddSchedule, Emit, Filled
  <2> HIDE DEF e
  <2> QED BY <1>1, <2>1, ScheduleEmitted DEF ScheduleOps
<1>6. CASE RowButtons
  <2>1. PICK r : \/ Emit([op |-> "delete", row |-> r])
                 \/ Emit([op |-> "active", row |-> r, to |-> r \notin scheduleForm.data.active])
    BY <1>6 DEF RowButtons
  <2>2. PICK e : sent' = Append(sent, e) /\ e.op \in {"delete", "active"}
    <3> DEFINE on == r \notin scheduleForm.data.active
               d == [op |-> "delete", row |-> r]
               a == [op |-> "active", row |-> r, to |-> on]
    <3>1. (sent' = Append(sent, d) /\ d.op = "delete") \/ (sent' = Append(sent, a) /\ a.op = "active")
      BY <2>1 DEF Emit
    <3> HIDE DEF d, a
    <3> QED BY <3>1
  <2>3. UNCHANGED scheduleForm
    BY <1>6 DEF RowButtons, Filled
  <2> QED BY <1>1, <2>2, <2>3, ScheduleEmitted DEF ScheduleOps
<1>7. ASSUME NEW a \in Arg, ChooseArg(a) PROVE SchedulesInv'
  <2>1. scheduleForm' = [scheduleForm EXCEPT !.arg = a] /\ UNCHANGED sent
    BY <1>7 DEF ChooseArg, Filled
  <2>2. /\ FormOfSchedules(scheduleForm') /\ SampleOf(scheduleForm') = SampleOf(scheduleForm)
        /\ scheduleForm'.expr = scheduleForm.expr
    BY <1>1, <2>1 DEF FormOfSchedules, SampleOf
  <2> QED BY <1>1, <2>1, <2>2 DEF SchedulesInv, SamplesAnswered
<1>8. ASSUME NEW z \in Zone, ChooseZone(z) PROVE SchedulesInv'
  <2>1. scheduleForm' = [scheduleForm EXCEPT !.zone = z]
    BY <1>8 DEF ChooseZone, Filled
  <2>2. /\ FormOfSchedules(scheduleForm') /\ scheduleForm'.zone = z /\ scheduleForm'.expr = scheduleForm.expr
    BY <1>1, <2>1 DEF FormOfSchedules
  <2>3. CASE scheduleForm.expr # NoCron
    <3> DEFINE e == [op |-> "sample", of |-> [expr |-> scheduleForm.expr, zone |-> z]]
    <3>1. /\ sent' = Append(sent, e)
          /\ e.op = "sample" /\ e.of = [expr |-> scheduleForm.expr, zone |-> z]
      BY <1>8, <2>3 DEF ChooseZone, AskSample, Emit
    <3> HIDE DEF e
    <3>2. e.of = SampleOf(scheduleForm')
      BY <2>2, <3>1 DEF SampleOf
    <3> QED BY <2>2, <3>1, <3>2, ScheduleEmitted DEF ScheduleOps
  <2>4. CASE scheduleForm.expr = NoCron
    <3>1. UNCHANGED sent
      BY <1>8, <2>4 DEF ChooseZone
    <3> QED BY <1>1, <2>2, <2>4, <3>1 DEF SchedulesInv, SamplesAnswered
  <2> QED BY <2>3, <2>4
<1> QED BY <1>2, <1>3, <1>4, <1>5, <1>6, <1>7, <1>8 DEF ScheduleUser

\* An answer to a sample or to the closing of the dialog changes the sample.
LEMMA ScheduledFacts ==
  ASSUME NEW s, SessionOfSchedules(s), NEW e, e.op \in ScheduleOps
  PROVE  LET t == Scheduled(s, e)
         IN /\ SessionOfSchedules(t)
            /\ t.sample = CASE e.op = "sample" -> e.of [] e.op = "close" -> Unset [] OTHER -> s.sample
<1> DEFINE t == Scheduled(s, e)
<1> USE DEF SessionOfSchedules
<1>1. CASE e.op = "schedules"
  <2>1. t = [s EXCEPT !.open = TRUE]
    BY <1>1 DEF Scheduled
  <2> QED BY <1>1, <2>1
<1>2. CASE e.op = "sample"
  <2> DEFINE o == e.of
  <2>1. t = [s EXCEPT !.sample = o]
    BY <1>2 DEF Scheduled
  <2> HIDE DEF o, t
  <2>2. t.sample = o /\ SessionOfSchedules(t)
    BY <2>1
  <2> QED BY <1>2, <2>2 DEF o, t
<1>3. CASE e.op = "add"
  <2> DEFINE y == AddResult(s, e.row)
             rows == s.rows \cup {e.row}
             active == s.active \cup {e.row}
             m == [s EXCEPT !.result = y]
  <2>1. t = Added(s, e.row)
    BY <1>3 DEF Scheduled
  <2>2. m.result = y /\ m.rows = s.rows /\ m.active = s.active /\ m.sample = s.sample /\ SessionOfSchedules(m)
    <3> HIDE DEF y
    <3> QED OBVIOUS
  <2>3. t = m \/ t = [m EXCEPT !.rows = rows, !.active = active]
    BY <2>1, <2>2 DEF Added
  <2> HIDE DEF m, rows, active, t
  <2>4. SessionOfSchedules(t) /\ t.sample = s.sample
    BY <2>2, <2>3
  <2> QED BY <1>3, <2>4 DEF t
<1>4. CASE e.op = "delete"
  <2> DEFINE rows == s.rows \ {e.row}
             active == s.active \ {e.row}
  <2>1. t = [s EXCEPT !.rows = rows, !.active = active, !.result = Unset]
    BY <1>4 DEF Scheduled
  <2> HIDE DEF rows, active, t
  <2>2. SessionOfSchedules(t) /\ t.sample = s.sample
    BY <2>1
  <2> QED BY <1>4, <2>2 DEF t
<1>5. CASE e.op = "active"
  <2> DEFINE active == IF e.to THEN (s.active \cup {e.row}) \cap s.rows ELSE s.active \ {e.row}
  <2>1. t = [s EXCEPT !.active = active, !.result = Unset]
    BY <1>5 DEF Scheduled
  <2> HIDE DEF active, t
  <2>2. SessionOfSchedules(t) /\ t.sample = s.sample
    BY <2>1
  <2> QED BY <1>5, <2>2 DEF t
<1>6. CASE e.op = "close"
  <2>1. t = [s EXCEPT !.open = FALSE, !.result = Unset, !.sample = Unset]
    BY <1>6 DEF Scheduled
  <2> HIDE DEF t
  <2>2. SessionOfSchedules(t) /\ t.sample = Unset
    BY <2>1
  <2> QED BY <1>6, <2>2 DEF t
<1> QED BY <1>1, <1>2, <1>3, <1>4, <1>5, <1>6 DEF ScheduleOps

\* What arrives keeps the expression and the zone or clears the expression.
LEMMA ScheduleBuilt ==
  ASSUME NEW f, FormOfSchedules(f), NEW data
  PROVE  LET g == DialogBuilt(f, data)
         IN /\ FormOfSchedules(g)
            /\ g.expr = NoCron \/ SampleOf(g) = SampleOf(f)
<1> DEFINE g == [f EXCEPT !.data = data]
           o == [g EXCEPT !.open = TRUE]
           b == [o EXCEPT !.arg = Unset, !.expr = NoCron, !.zone = HomeZone]
           d == DialogBuilt(f, data)
<1> USE DEF FormOfSchedules, SampleOf
<1>1. d = f \/ d = g \/ d = b \/ d = o
  BY DEF DialogBuilt, Blanked
<1>2. FormOfSchedules(g) /\ SampleOf(g) = SampleOf(f)
  OBVIOUS
<1> HIDE DEF g
<1>3. FormOfSchedules(o) /\ SampleOf(o) = SampleOf(f)
  BY <1>2
<1> HIDE DEF o
<1>4. FormOfSchedules(b) /\ b.expr = NoCron
  BY <1>3
<1> HIDE DEF b, d
<1>5. FormOfSchedules(d) /\ (d.expr = NoCron \/ SampleOf(d) = SampleOf(f))
  BY <1>1, <1>2, <1>3, <1>4
<1> QED BY <1>5 DEF d

LEMMA SchedulesServed ==
  ASSUME SchedulesInv, page = "schedules", UNCHANGED page, ServeSchedules
  PROVE  SchedulesInv'
<1> DEFINE e == Head(sent)
           G == SampleOf(scheduleForm')
           done == schedules.sample \in {Unset, G}
           now == schedules'.sample \in {Unset, G}
<1>1. /\ schedules' = Scheduled(schedules, e) /\ scheduleForm' = DialogBuilt(scheduleForm, Built(schedules'))
      /\ sent # <<>> /\ sent' = Tail(sent)
      /\ FormOfSchedules(scheduleForm) /\ SessionOfSchedules(schedules)
      /\ Queue(sent) /\ \A x \in Elements(sent) : x.op \in ScheduleOps
  BY DEF ServeSchedules, Take, SchedulesInv
<1>2. Queue(sent') /\ (\A x \in Elements(sent') : x.op \in ScheduleOps) /\ e.op \in ScheduleOps
  BY <1>1, QueueSteps
<1>3. /\ SessionOfSchedules(schedules')
      /\ schedules'.sample = CASE e.op = "sample" -> e.of [] e.op = "close" -> Unset [] OTHER -> schedules.sample
  BY <1>1, <1>2, ScheduledFacts
<1>4. FormOfSchedules(scheduleForm') /\ (scheduleForm'.expr = NoCron \/ G = SampleOf(scheduleForm))
  BY <1>1, ScheduleBuilt
<1>5. ASSUME scheduleForm'.expr # NoCron PROVE LastAsked(sent', "sample", "of", G, {"close"}, now)
  <2>1. G = SampleOf(scheduleForm) /\ scheduleForm.expr # NoCron
    BY <1>4, <1>5 DEF SampleOf
  <2>2. LastAsked(sent, "sample", "of", G, {"close"}, done)
    BY <2>1 DEF SchedulesInv, SamplesAnswered
  <2>3. /\ e.op \in {"close"} \/ (e.op = "sample" /\ e["of"] = G) => now
        /\ e.op # "sample" /\ done => now
    BY <1>3
  <2> HIDE DEF G, now, done
  <2> QED BY <1>1, <2>2, <2>3, LastAskedServed
<1> QED BY <1>2, <1>3, <1>4, <1>5 DEF SchedulesInv, SamplesAnswered

LEMMA SchedulesStep == SchedulesInv /\ SchedulesNext => SchedulesInv'
<1> SUFFICES ASSUME SchedulesInv, SchedulesNext, page = "schedules" PROVE SchedulesInv'
  BY DEF SchedulesInv, SchedulesNext
<1> QED BY ScheduleUserStep, SchedulesServed DEF SchedulesNext

LEMMA SchedulesInvImplies == SchedulesInv => SampleInStep
<1> SUFFICES ASSUME SchedulesInv, page = "schedules", sent = <<>>, scheduleForm.expr # NoCron
             PROVE  schedules.sample \in {Unset, SampleOf(scheduleForm)}
  BY DEF SampleInStep, Quiet, SampleOf
<1>1. DOMAIN sent = {}
  OBVIOUS
<1> QED BY <1>1 DEF SchedulesInv, SamplesAnswered, LastAsked

-----------------------------------------------------------------------------
(* The wizard of table groups.                                              *)

GroupField == {"mode", "results", "saved", "chosen", "used", "running", "info", "filter"}
GroupForm(s) == s = [f \in GroupField |-> s[f]]

WizardField == {"open", "step", "group", "verified", "preview", "chosen", "complete", "data"}
WizardForm(d) == d = [f \in WizardField |-> d[f]] /\ d.group \in FormValues

\* Whatever the browser shows as verified is what it was told last.
Told(d) ==
  /\ d.step = 1 => d.verified = Succeeded(d.preview)
  /\ d.data # NoGroup => d.preview = d.data.preview

\* The preview that is open was asked for last, for what is in the form.
PreviewAsked(d, q) ==
  d.step = 1 /\ (\A e \in Elements(q) : e.op # "close") =>
    /\ d.open
    /\ q = <<>> => d.verified = (d.group.scope \in Works)
    /\ q # <<>> => q[Len(q)].op = "preview" /\ q[Len(q)].group = d.group

WizardInv ==
  page = "wizard" =>
    /\ WizardForm(dialog) /\ Told(dialog) /\ GroupForm(groups)
    /\ Queue(sent) /\ PreviewAsked(dialog, sent)

LEMMA PreviewFacts ==
  ASSUME NEW c \in FormValues
  PROVE  Succeeded(Preview(c)) = (c.scope \in Works)
<1>1. Preview(c) \in [of : FormValues, success : BOOLEAN] /\ Preview(c).success = (c.scope \in Works)
  BY DEF Preview
<1>2. Preview(c) # NoGroup
  BY <1>1, GroupsAssumption
<1> QED BY <1>1, <1>2 DEF Succeeded

LEMMA PreviewedFacts ==
  ASSUME NEW d, WizardForm(d), NEW p
  PROVE  LET n == PreviewedIn(d, p)
         IN /\ WizardForm(n) /\ n.step = d.step /\ n.group = d.group /\ n.open = d.open /\ n.data = d.data
            /\ n.preview = p /\ (d.step = 1 => n.verified = Succeeded(p))
<1> DEFINE v == IF d.step = 1 THEN Succeeded(p) ELSE d.verified
           n == [d EXCEPT !.preview = p, !.verified = v]
<1>1. PreviewedIn(d, p) = n
  BY DEF PreviewedIn
<1>2. d.step = 1 => v = Succeeded(p)
  OBVIOUS
<1> HIDE DEF v
<1>3. /\ WizardForm(n) /\ n.step = d.step /\ n.group = d.group /\ n.open = d.open /\ n.data = d.data
      /\ n.preview = p /\ n.verified = v
  BY DEF WizardForm, WizardField
<1> QED BY <1>1, <1>2, <1>3

LEMMA EmptyFormFacts == EmptyForm \in FormValues
<1> DEFINE s == CHOOSE s \in Scope : TRUE
           e == CHOOSE e \in Extra["wizard"] : TRUE
<1>1. s \in Scope /\ e \in Extra["wizard"]
  BY GroupsAssumption
<1>2. EmptyForm = [name |-> NoGroup, scope |-> s, extra |-> e]
  BY DEF EmptyForm
<1> HIDE DEF s, e
<1>3. e \in UNION {Extra[p] : p \in DOMAIN Extra}
  BY <1>1, GroupsAssumption
<1> QED BY <1>1, <1>2, <1>3 DEF FormValues

LEMMA NoWizardFacts == WizardForm(NoWizard) /\ Told(NoWizard) /\ NoWizard.step = 0
<1> DEFINE x == EmptyForm
<1>1. x \in FormValues
  BY EmptyFormFacts
<1> HIDE DEF x
<1>2. /\ NoWizard = [f \in WizardField |-> NoWizard[f]] /\ NoWizard.group = x /\ NoWizard.step = 0
      /\ NoWizard.data = NoGroup
  BY DEF NoWizard, WizardField, x
<1> QED BY <1>1, <1>2 DEF WizardForm, Told

LEMMA WizardInitInv == sent = <<>> /\ GroupsInit => WizardInv
<1> SUFFICES ASSUME sent = <<>>, GroupsInit, page = "wizard" PROVE WizardInv
  BY DEF WizardInv
<1>1. dialog = NoWizard /\ GroupForm(groups)
  BY DEF GroupsInit, NoSession, GroupForm, GroupField
<1> QED BY <1>1, NoWizardFacts, NoEvents DEF WizardInv, PreviewAsked

\* A step of the wizard, by a button or by the progress indicator.
LEMMA EnterStepKeeps ==
  ASSUME WizardInv, page = "wizard", UNCHANGED <<page, groups>>, WizardShown, NEW i, EnterStep(i)
  PROVE  WizardInv'
<1> DEFINE c == [dialog EXCEPT !.step = i]
           e == [op |-> "preview", group |-> dialog.group]
<1>1. WizardForm(dialog) /\ Told(dialog) /\ Queue(sent)
  BY DEF WizardInv
<1>2. /\ WizardForm(c) /\ c.step = i /\ c.group = dialog.group /\ c.open = dialog.open /\ c.data = dialog.data
  BY <1>1 DEF WizardForm, WizardField
<1>3. dialog' = PreviewedIn(c, dialog.preview)
  BY DEF EnterStep, Show
<1> HIDE DEF c
<1>4. /\ WizardForm(dialog') /\ dialog'.step = i /\ dialog'.group = dialog.group /\ dialog'.open = dialog.open
      /\ dialog'.data = dialog.data /\ dialog'.preview = dialog.preview
      /\ (i = 1 => dialog'.verified = Succeeded(dialog.preview))
  BY <1>2, <1>3, PreviewedFacts
<1>5. Told(dialog')
  BY <1>1, <1>4 DEF Told
<1>6. Queue(sent')
  <2>1. \/ sent' = sent \/ \E x : sent' = Append(sent, x)
    BY DEF EnterStep, Emit
  <2> QED BY <1>1, <2>1, QueueSteps
<1>7. PreviewAsked(dialog', sent')
  <2>1. CASE i = 1
    <3>1. sent' = Append(sent, e) /\ e.op = "preview" /\ e.group = dialog.group
      BY <2>1 DEF EnterStep, Emit
    <3> HIDE DEF e
    <3>2. sent' # <<>> /\ sent'[Len(sent')] = e
      BY <1>1, <3>1, AppendFacts
    <3>3. dialog.open
      BY DEF WizardShown
    <3> QED BY <1>4, <3>1, <3>2, <3>3 DEF PreviewAsked
  <2>2. CASE i # 1
    BY <1>4, <2>2 DEF PreviewAsked
  <2> QED BY <2>1, <2>2
<1> QED BY <1>4, <1>5, <1>6, <1>7 DEF WizardInv

\* The wizard stays where it is, elsewhere than at the preview.
LEMMA OtherStepKeeps ==
  ASSUME WizardInv, page = "wizard", UNCHANGED <<page, groups>>, WizardForm(dialog'), Queue(sent'),
         dialog.step # 1, dialog'.step = dialog.step, dialog'.data = dialog.data, dialog'.preview = dialog.preview
  PROVE  WizardInv'
BY DEF WizardInv, Told, PreviewAsked

LEMMA WizardUserStep ==
  ASSUME WizardInv, page = "wizard", UNCHANGED <<page, groups>>, GroupUser
  PROVE  WizardInv'
<1>1. WizardForm(dialog) /\ Told(dialog) /\ Queue(sent) /\ PreviewAsked(dialog, sent)
  BY DEF WizardInv
<1>q. (sent' = sent \/ \E x : sent' = Append(sent, x)) => Queue(sent')
  BY <1>1, QueueSteps
<1>2. ASSUME NEW c \in FormValues, FormTyped(c) PROVE WizardInv'
  <2>1. dialog' = [dialog EXCEPT !.group = c] /\ UNCHANGED sent /\ dialog.step = 0
    BY <1>2 DEF FormTyped, FormShown
  <2>2. WizardForm(dialog') /\ dialog'.step = 0 /\ dialog'.data = dialog.data /\ dialog'.preview = dialog.preview
    BY <1>1, <2>1 DEF WizardForm, WizardField
  <2> QED BY <1>q, <2>1, <2>2, OtherStepKeeps
<1>3. CASE TypeName \/ TypeScope \/ SetSettings
  <2>1. CASE TypeName
    <3>1. PICK n \in Name \cup {NoGroup} : FormTyped([dialog.group EXCEPT !.name = n])
      BY <2>1 DEF TypeName
    <3>2. [dialog.group EXCEPT !.name = n] \in FormValues
      BY <1>1 DEF WizardForm, FormValues
    <3> QED BY <1>2, <3>1, <3>2
  <2>2. CASE TypeScope
    <3>1. PICK n \in Scope : FormTyped([dialog.group EXCEPT !.scope = n])
      BY <2>2 DEF TypeScope
    <3>2. [dialog.group EXCEPT !.scope = n] \in FormValues
      BY <1>1 DEF WizardForm, FormValues
    <3> QED BY <1>2, <3>1, <3>2
  <2>3. CASE SetSettings
    <3>1. PICK n \in Extra["wizard"] : FormTyped([dialog.group EXCEPT !.extra = n])
      BY <2>3 DEF SetSettings
    <3>2. n \in UNION {Extra[p] : p \in DOMAIN Extra}
      BY GroupsAssumption
    <3>3. [dialog.group EXCEPT !.extra = n] \in FormValues
      BY <1>1, <3>2 DEF WizardForm, FormValues
    <3> QED BY <1>2, <3>1, <3>3
  <2> QED BY <1>3, <2>1, <2>2, <2>3
<1>4. CASE OpenWizard
  <2>1. /\ (\E x : sent' = Append(sent, x)) /\ dialog' = dialog /\ ~dialog.open
    BY <1>4 DEF OpenWizard, Emit
  <2>2. CASE dialog.step # 1
    BY <1>1, <1>q, <2>1, <2>2, OtherStepKeeps
  <2>3. CASE dialog.step = 1
    <3>1. \E e \in Elements(sent) : e.op = "close"
      BY <1>1, <2>1, <2>3 DEF PreviewAsked
    <3>2. Elements(sent) \subseteq Elements(sent')
      <4>1. PICK x : sent' = Append(sent, x)
        BY <2>1
      <4> QED BY <1>1, <4>1, AppendFacts DEF Elements
    <3>3. PreviewAsked(dialog', sent')
      BY <3>1, <3>2 DEF PreviewAsked
    <3> QED BY <1>1, <1>q, <2>1, <3>3 DEF WizardInv
  <2> QED BY <2>2, <2>3
<1>5. CASE Step \/ JumpBack
  <2>1. WizardShown /\ \E i : EnterStep(i)
    BY <1>5 DEF Step, JumpBack
  <2> QED BY <2>1, EnterStepKeeps
<1>6. CASE RunProfilingStep \/ TestSuiteStep \/ MonitorStep
  <2>1. PICK i : Toggled(i) /\ i # 1
    BY <1>6 DEF RunProfilingStep, TestSuiteStep, MonitorStep
  <2> DEFINE s == IF i \in dialog.chosen THEN dialog.chosen \ {i} ELSE dialog.chosen \cup {i}
  <2>2. dialog' = [dialog EXCEPT !.chosen = s] /\ dialog.step = i /\ UNCHANGED sent
    BY <2>1 DEF Toggled, Show
  <2> HIDE DEF s
  <2>3. WizardForm(dialog') /\ dialog'.step = i /\ dialog'.data = dialog.data /\ dialog'.preview = dialog.preview
    BY <1>1, <2>2 DEF WizardForm, WizardField
  <2> QED BY <1>q, <2>1, <2>2, <2>3, OtherStepKeeps
<1>7. CASE VerifyAccess
  <2> DEFINE e == [op |-> "preview", group |-> dialog.group]
  <2>1. sent' = Append(sent, e) /\ dialog' = dialog /\ dialog.open /\ e.op = "preview" /\ e.group = dialog.group
    BY <1>7 DEF VerifyAccess, WizardShown, Show, Emit
  <2> HIDE DEF e
  <2>2. sent' # <<>> /\ sent'[Len(sent')] = e
    BY <1>1, <2>1, AppendFacts
  <2> QED BY <1>1, <1>q, <2>1, <2>2 DEF WizardInv, PreviewAsked
<1>8. CASE SaveWizard
  <2>1. dialog' = dialog /\ dialog.step = 4 /\ \E x : sent' = Append(sent, x)
    BY <1>8 DEF SaveWizard, Show, Emit
  <2> QED BY <1>1, <1>q, <2>1, OtherStepKeeps
<1>9. CASE CloseWizard
  <2> DEFINE e == [op |-> "close"]
  <2>1. dialog' = [dialog EXCEPT !.open = FALSE] /\ sent' = Append(sent, e) /\ e.op = "close"
    BY <1>9 DEF CloseWizard, Show, Emit
  <2> HIDE DEF e
  <2>2. e \in Elements(sent')
    BY <1>1, <2>1, AppendFacts DEF Elements
  <2>3. /\ WizardForm(dialog') /\ dialog'.step = dialog.step /\ dialog'.data = dialog.data
        /\ dialog'.preview = dialog.preview /\ dialog'.verified = dialog.verified
    BY <1>1, <2>1 DEF WizardForm, WizardField
  <2> QED BY <1>1, <1>q, <2>1, <2>2, <2>3 DEF WizardInv, Told, PreviewAsked
<1> QED
  BY <1>3, <1>4, <1>5, <1>6, <1>7, <1>8, <1>9
  DEF GroupUser, OpenEdit, GoToVerify, GoBackToForm, SaveEdit, CloseEdit, Show, ConfirmRelated, DeleteShown,
      DeleteGroup, CloseDeleteGroup, OpenDeleteGroup, FilterGroups

LEMMA WizardSession ==
  ASSUME GroupForm(groups), ServeWizard
  PROVE  GroupForm(groups')
<1> DEFINE e == Head(sent)
           s == [groups EXCEPT !.results = NoGroup]
           saved_ == s.saved \cup {e.group}
           chosen == e.chosen
<1>1. GroupForm(s)
  BY DEF GroupForm, GroupField
<1>2. \/ groups' = [s EXCEPT !.mode = "add"] \/ groups' = [s EXCEPT !.mode = NoGroup] \/ groups' = s
      \/ groups' = [s EXCEPT !.results = "failure"]
      \/ groups' = [s EXCEPT !.saved = saved_, !.chosen = chosen, !.results = "success"]
  BY DEF ServeWizard, WizardSaved
<1> HIDE DEF s, saved_, chosen
<1> QED BY <1>1, <1>2 DEF GroupForm, GroupField

LEMMA WizardServed ==
  ASSUME WizardInv, page = "wizard", UNCHANGED page, ServeWizard
  PROVE  WizardInv'
<1> DEFINE e == Head(sent)
           data == WizardData(groups', e)
           p == data.preview
           n == PreviewedIn(dialog, p)
           k == data.results = "success"
           m == [n EXCEPT !.open = TRUE, !.complete = k, !.data = data]
<1>1. /\ WizardForm(dialog) /\ Told(dialog) /\ Queue(sent) /\ PreviewAsked(dialog, sent) /\ GroupForm(groups)
      /\ sent # <<>> /\ sent' = Tail(sent) /\ dialog' = WizardBuilt(dialog, data)
  BY DEF WizardInv, ServeWizard, Take
<1>2. Queue(sent') /\ GroupForm(groups')
  BY <1>1, QueueSteps, WizardSession
<1>3. /\ WizardForm(n) /\ n.step = dialog.step /\ n.group = dialog.group /\ n.open = dialog.open
      /\ n.data = dialog.data /\ n.preview = p /\ (dialog.step = 1 => n.verified = Succeeded(p))
  BY <1>1, PreviewedFacts
<1>4. /\ e.op = "preview" /\ data # NoGroup => p = Preview(e.group)
      /\ e.op = "close" => data = NoGroup
  <2>1. e.op = "close" => groups'.mode = NoGroup
    <3>1. e.op = "close" => groups' = [[groups EXCEPT !.results = NoGroup] EXCEPT !.mode = NoGroup]
      BY DEF ServeWizard
    <3> QED BY <1>1, <3>1 DEF GroupForm, GroupField
  <2> QED BY <2>1 DEF WizardData
<1> HIDE DEF n, p, k
<1>5. /\ WizardForm(m) /\ m.step = dialog.step /\ m.group = dialog.group /\ m.open = TRUE
      /\ m.data = data /\ m.preview = p /\ (dialog.step = 1 => m.verified = Succeeded(p))
  <2> HIDE DEF data
  <2> QED BY <1>3 DEF WizardForm, WizardField
<1> HIDE DEF e, m
<1>6. CASE data = NoGroup
  <2>1. dialog' = NoWizard
    BY <1>1, <1>6 DEF WizardBuilt
  <2> QED BY <1>2, <2>1, NoWizardFacts DEF WizardInv, PreviewAsked
<1>7. CASE data # NoGroup
  <2>1. (dialog' = dialog /\ data = dialog.data) \/ dialog' = m
    BY <1>1, <1>7 DEF WizardBuilt, m, n, p, k
  <2>2. /\ WizardForm(dialog') /\ dialog'.step = dialog.step /\ dialog'.group = dialog.group
        /\ dialog'.open \in {TRUE, dialog.open}
        /\ dialog'.data = data /\ dialog'.preview = p /\ (dialog.step = 1 => dialog'.verified = Succeeded(p))
    <3>1. CASE dialog' = m
      BY <1>5, <3>1
    <3>2. CASE dialog' = dialog /\ data = dialog.data
      BY <1>1, <1>7, <3>2 DEF Told, p
    <3> QED BY <2>1, <3>1, <3>2
  <2>3. Told(dialog')
    BY <2>2 DEF Told, p
  <2>4. PreviewAsked(dialog', sent')
    <3> SUFFICES ASSUME dialog.step = 1, \A x \in Elements(sent') : x.op # "close"
                 PROVE  /\ dialog'.open
                        /\ sent' = <<>> => dialog'.verified = (dialog.group.scope \in Works)
                        /\ sent' # <<>> => /\ sent'[Len(sent')].op = "preview"
                                           /\ sent'[Len(sent')].group = dialog.group
      BY <2>2 DEF PreviewAsked
    <3>1. /\ Len(sent) \in Nat /\ DOMAIN sent = 1..Len(sent) /\ Len(sent) > 0 /\ sent[1] = e
          /\ Len(sent') = Len(sent) - 1 /\ DOMAIN sent' = 1..(Len(sent) - 1)
          /\ \A j \in DOMAIN sent' : sent'[j] = sent[j + 1]
          /\ Len(sent) = 1 => sent' = <<>>
      BY <1>1, TailFacts DEF e
    <3>2. \A x \in Elements(sent) : x.op # "close"
      <4> SUFFICES ASSUME NEW j \in DOMAIN sent PROVE sent[j].op # "close"
        BY DEF Elements
      <4>1. CASE j = 1
        BY <1>4, <1>7, <3>1, <4>1
      <4>2. CASE j # 1
        <5>1. j - 1 \in DOMAIN sent' /\ sent'[j - 1] = sent[j]
          BY <3>1, <4>2
        <5> QED BY <5>1 DEF Elements
      <4> QED BY <4>1, <4>2
    <3>3. dialog.open /\ sent[Len(sent)].op = "preview" /\ sent[Len(sent)].group = dialog.group
      BY <1>1, <3>2 DEF PreviewAsked
    <3>4. CASE Len(sent) = 1
      <4>1. sent' = <<>> /\ p = Preview(dialog.group)
        BY <1>4, <1>7, <3>1, <3>3, <3>4
      <4>2. dialog'.verified = (dialog.group.scope \in Works)
        BY <1>1, <2>2, <4>1, PreviewFacts DEF WizardForm
      <4> QED BY <2>2, <3>3, <4>1, <4>2
    <3>5. CASE Len(sent) > 1
      <4>1. sent' # <<>> /\ sent'[Len(sent')] = sent[Len(sent)]
        <5>1. Len(sent') \in DOMAIN sent' /\ Len(sent') > 0 /\ sent'[Len(sent')] = sent[Len(sent)]
          BY <3>1, <3>5
        <5>2. Len(<<>>) = 0
          OBVIOUS
        <5> QED BY <5>1, <5>2
      <4> QED BY <2>2, <3>3, <4>1
    <3> QED BY <3>1, <3>4, <3>5
  <2> QED BY <1>2, <2>2, <2>3, <2>4 DEF WizardInv
<1> QED BY <1>6, <1>7

LEMMA WizardStep == WizardInv /\ GroupsNext => WizardInv'
<1> SUFFICES ASSUME WizardInv, GroupsNext, page = "wizard" PROVE WizardInv'
  BY DEF WizardInv, GroupsNext
<1>1. UNCHANGED page /\ ((GroupUser /\ UNCHANGED groups) \/ ServeWizard)
  BY DEF GroupsNext, ServeEdit, ServeGroups, UseGroup
<1> QED BY <1>1, WizardUserStep, WizardServed

LEMMA WizardInvImplies == WizardInv => PreviewInStep
<1> SUFFICES ASSUME WizardInv, page = "wizard", sent = <<>>, dialog.step = 1
             PROVE  dialog.verified = (dialog.group.scope \in Works)
  BY DEF PreviewInStep, Quiet
<1> QED BY NoEvents DEF WizardInv, PreviewAsked

-----------------------------------------------------------------------------
(* The list of table groups.                                                *)

GroupListField == {"listed", "filter", "lastSent", "info", "open", "confirmed"}
GroupListForm(d) == d = [f \in GroupListField |-> d[f]]

\* The filter on the screen was sent last and is in effect, or will be.
GroupListInv ==
  page = "groupList" =>
    /\ GroupListForm(dialog) /\ GroupForm(groups) /\ Queue(sent)
    /\ dialog.lastSent = dialog.filter /\ dialog.listed = ListedGroups(groups)
    /\ LastAsked(sent, "filter", "filter", dialog.filter, {}, groups.filter = dialog.filter)

LEMMA GroupListInitInv == sent = <<>> /\ GroupsInit => GroupListInv
<1> SUFFICES ASSUME sent = <<>>, GroupsInit, page = "groupList" PROVE GroupListInv
  BY DEF GroupListInv
<1>1. dialog = NoList /\ groups = [NoSession EXCEPT !.saved = Group]
  BY DEF GroupsInit
<1>2. GroupListForm(dialog) /\ dialog.lastSent = dialog.filter /\ dialog.filter = NoGroup /\ dialog.listed = Group
  BY <1>1 DEF NoList, GroupListForm, GroupListField
<1>3. GroupForm(groups) /\ groups.filter = NoGroup /\ groups.saved = Group
  BY <1>1 DEF NoSession, GroupForm, GroupField
<1>4. DOMAIN sent = {}
  OBVIOUS
<1> QED BY <1>2, <1>3, <1>4, NoEvents DEF GroupListInv, ListedGroups, LastAsked

\* An event that asks for something else than a filter.
LEMMA GroupListEmitted ==
  ASSUME GroupListInv, page = "groupList", UNCHANGED <<page, groups>>, GroupListForm(dialog'),
         dialog'.filter = dialog.filter, dialog'.lastSent = dialog.lastSent, dialog'.listed = dialog.listed,
         NEW e, e.op # "filter", sent' = Append(sent, e)
  PROVE  GroupListInv'
<1>1. Queue(sent) /\ LastAsked(sent, "filter", "filter", dialog.filter, {}, groups.filter = dialog.filter)
  BY DEF GroupListInv
<1>2. Queue(sent') /\ LastAsked(sent', "filter", "filter", dialog.filter, {}, groups.filter = dialog.filter)
  BY <1>1, QueueSteps, LastAskedGrows
<1> QED BY <1>2 DEF GroupListInv

LEMMA GroupListUserStep ==
  ASSUME GroupListInv, page = "groupList", UNCHANGED <<page, groups>>, GroupUser
  PROVE  GroupListInv'
<1>1. /\ GroupListForm(dialog) /\ GroupForm(groups) /\ Queue(sent)
      /\ dialog.lastSent = dialog.filter /\ dialog.listed = ListedGroups(groups)
      /\ LastAsked(sent, "filter", "filter", dialog.filter, {}, groups.filter = dialog.filter)
  BY DEF GroupListInv
<1>2. ASSUME NEW f, FilterGroups(f) PROVE GroupListInv'
  <2> DEFINE l == IF f = dialog.lastSent THEN dialog.lastSent ELSE LastSent(dialog, f)
             e == [op |-> "filter", filter |-> f]
  <2>1. dialog' = [dialog EXCEPT !.filter = f, !.lastSent = l] /\ f # dialog.lastSent
    BY <1>1, <1>2 DEF FilterGroups, Show
  <2>2. l = f
    BY <1>1, <1>2 DEF FilterGroups, LastSent
  <2>3. sent' = Append(sent, e) /\ e.op = "filter" /\ e["filter"] = f
    BY <1>1, <1>2 DEF FilterGroups, Emit
  <2> HIDE DEF l, e
  <2>4. GroupListForm(dialog') /\ dialog'.filter = f /\ dialog'.lastSent = f /\ dialog'.listed = dialog.listed
    BY <1>1, <2>1, <2>2 DEF GroupListForm, GroupListField
  <2>5. Queue(sent')
    BY <1>1, <2>3, QueueSteps
  <2> DEFINE done == groups.filter = f
  <2> HIDE DEF done
  <2>6. LastAsked(sent', "filter", "filter", f, {}, done)
    BY <1>1, <2>3, LastAskedGrows
  <2> QED BY <1>1, <2>4, <2>5, <2>6 DEF GroupListInv, done
<1>3. ASSUME NEW g, OpenDeleteGroup(g) PROVE GroupListInv'
  <2> DEFINE e == [op |-> "openDelete", id |-> g]
  <2>1. sent' = Append(sent, e) /\ dialog' = dialog /\ e.op # "filter"
    BY <1>3 DEF OpenDeleteGroup, Emit
  <2> HIDE DEF e
  <2> QED BY <1>1, <2>1, GroupListEmitted
<1>4. CASE DeleteGroup
  <2> DEFINE e == [op |-> "delete", id |-> dialog.info.id]
  <2>1. sent' = Append(sent, e) /\ dialog' = dialog /\ e.op # "filter"
    BY <1>4 DEF DeleteGroup, Emit, Show
  <2> HIDE DEF e
  <2> QED BY <1>1, <2>1, GroupListEmitted
<1>5. CASE CloseDeleteGroup
  <2> DEFINE e == [op |-> "dismiss"]
  <2>1. sent' = Append(sent, e) /\ dialog' = [dialog EXCEPT !.open = FALSE, !.confirmed = FALSE] /\ e.op # "filter"
    BY <1>5 DEF CloseDeleteGroup, Emit, Show
  <2> HIDE DEF e
  <2>2. /\ GroupListForm(dialog') /\ dialog'.filter = dialog.filter /\ dialog'.lastSent = dialog.lastSent
        /\ dialog'.listed = dialog.listed
    BY <1>1, <2>1 DEF GroupListForm, GroupListField
  <2> QED BY <2>1, <2>2, GroupListEmitted
<1>6. CASE ConfirmRelated
  <2> DEFINE c == ~dialog.confirmed
  <2>1. dialog' = [dialog EXCEPT !.confirmed = c] /\ UNCHANGED sent
    BY <1>6 DEF ConfirmRelated, Show
  <2> HIDE DEF c
  <2>2. /\ GroupListForm(dialog') /\ dialog'.filter = dialog.filter /\ dialog'.lastSent = dialog.lastSent
        /\ dialog'.listed = dialog.listed
    BY <1>1, <2>1 DEF GroupListForm, GroupListField
  <2> QED BY <1>1, <2>1, <2>2 DEF GroupListInv
<1> QED
  BY <1>2, <1>3, <1>4, <1>5, <1>6
  DEF GroupUser, TypeName, TypeScope, SetSettings, FormTyped, FormShown, OpenWizard, Step, JumpBack, WizardShown,
      VerifyAccess, SaveWizard, CloseWizard, RunProfilingStep, TestSuiteStep, MonitorStep, Toggled,
      OpenEdit, GoToVerify, GoBackToForm, SaveEdit, CloseEdit, Show

LEMMA GroupListServed ==
  ASSUME GroupListInv, page = "groupList", UNCHANGED page, ServeGroups
  PROVE  GroupListInv'
<1> DEFINE e == Head(sent)
           done == groups.filter = dialog.filter
           now == groups'.filter = dialog.filter
           listed == ListedGroups(groups')
           info == groups'.info
           open == dialog.open \/ (groups'.info # NoGroup /\ groups'.info # dialog.info)
<1>1. /\ GroupListForm(dialog) /\ GroupForm(groups) /\ Queue(sent) /\ dialog.lastSent = dialog.filter
      /\ LastAsked(sent, "filter", "filter", dialog.filter, {}, done)
      /\ sent # <<>> /\ sent' = Tail(sent) /\ groups' = ListAfter(groups, e)
      /\ dialog' = [dialog EXCEPT !.listed = listed, !.info = info, !.open = open]
  BY DEF GroupListInv, ServeGroups, Take
<1>2. GroupForm(groups') /\ groups'.filter = IF e.op = "filter" THEN e.filter ELSE groups.filter
  <2> DEFINE d == [id |-> e.id, related |-> e.id \in groups.used]
             s == groups.saved \ {e.id}
             f == e.filter
  <2>1. \/ e.op = "filter" /\ groups' = [groups EXCEPT !.filter = f]
        \/ e.op # "filter" /\ groups' = [groups EXCEPT !.info = d]
        \/ e.op # "filter" /\ groups' = [groups EXCEPT !.saved = s, !.info = NoGroup]
        \/ e.op # "filter" /\ groups' = [groups EXCEPT !.info = NoGroup]
    BY <1>1 DEF ListAfter
  <2> HIDE DEF d, s, f, e
  <2> QED BY <1>1, <2>1 DEF GroupForm, GroupField, f
<1>3. /\ e.op = "filter" /\ e["filter"] = dialog.filter => now
      /\ e.op # "filter" /\ done => now
  BY <1>2
<1> HIDE DEF listed, info, open
<1>4. /\ GroupListForm(dialog') /\ dialog'.filter = dialog.filter /\ dialog'.lastSent = dialog.lastSent
      /\ dialog'.listed = listed
  BY <1>1 DEF GroupListForm, GroupListField
<1> HIDE DEF done, now
<1>5. LastAsked(sent', "filter", "filter", dialog.filter, {}, now)
  BY <1>1, <1>3, LastAskedServed
<1>6. Queue(sent')
  BY <1>1, QueueSteps
<1> QED BY <1>1, <1>2, <1>4, <1>5, <1>6 DEF GroupListInv, listed, now

LEMMA GroupListStep == GroupListInv /\ GroupsNext => GroupListInv'
<1> SUFFICES ASSUME GroupListInv, GroupsNext, page = "groupList" PROVE GroupListInv'
  BY DEF GroupListInv, GroupsNext
<1>1. UNCHANGED page
  BY DEF GroupsNext
<1>2. ASSUME NEW g \in Group, UseGroup(g) PROVE GroupListInv'
  <2> DEFINE minus == groups.running \ {g}
             plus == groups.running \cup {g}
             used == groups.used \cup {g}
  <2>1. /\ groups' = [groups EXCEPT !.running = minus, !.used = used] \/ groups' = [groups EXCEPT !.running = plus]
        /\ UNCHANGED <<sent, dialog>>
    BY <1>2 DEF UseGroup
  <2> HIDE DEF minus, plus, used
  <2>2. GroupForm(groups') /\ groups'.filter = groups.filter /\ groups'.saved = groups.saved
    BY <2>1 DEF GroupForm, GroupField, GroupListInv
  <2> QED BY <1>1, <2>1, <2>2 DEF GroupListInv, ListedGroups
<1>3. (GroupUser /\ UNCHANGED groups) \/ ServeGroups \/ \E g \in Group : UseGroup(g)
  BY DEF GroupsNext, ServeEdit, ServeWizard
<1> QED BY <1>1, <1>2, <1>3, GroupListUserStep, GroupListServed

LEMMA GroupListInvImplies == GroupListInv => GroupsFiltered
<1> SUFFICES ASSUME GroupListInv, page = "groupList", sent = <<>>
             PROVE  dialog.listed = ListedGroups([groups EXCEPT !.filter = dialog.filter])
  BY DEF GroupsFiltered, Quiet
<1>1. DOMAIN sent = {}
  OBVIOUS
<1>2. groups.filter = dialog.filter /\ dialog.listed = ListedGroups(groups) /\ GroupForm(groups)
  BY <1>1 DEF GroupListInv, LastAsked
<1> DEFINE s == [groups EXCEPT !.filter = dialog.filter]
<1>3. s.saved = groups.saved /\ s.filter = groups.filter
  BY <1>2 DEF GroupForm, GroupField
<1> QED BY <1>2, <1>3 DEF ListedGroups

-----------------------------------------------------------------------------
(* The edit dialog of a table group.                                         *)

\* What the edit dialog stored shows tables.
EditInv == page = "editGroup" => GroupForm(groups) /\ \A g \in groups.saved : g.scope \in Works

LEMMA EditInitInv == page \in GroupPage /\ GroupsInit => EditInv
<1> SUFFICES ASSUME page = "editGroup", GroupsInit PROVE EditInv
  BY DEF EditInv
<1>1. PICK c \in [name : Name, scope : Works, extra : Extra[page]] : groups = [NoSession EXCEPT !.saved = {c}]
  BY DEF GroupsInit
<1>2. GroupForm(NoSession)
  BY DEF NoSession, GroupForm, GroupField
<1>3. GroupForm(groups)
  BY <1>1, <1>2 DEF GroupForm
<1>4. groups.saved = {c}
  BY <1>1, <1>2 DEF GroupForm, GroupField
<1> QED BY <1>3, <1>4 DEF EditInv

LEMMA EditStep == EditInv /\ GroupsNext => EditInv'
<1> SUFFICES ASSUME EditInv, GroupsNext, page = "editGroup" PROVE EditInv'
  BY DEF EditInv, GroupsNext
<1>1. page' = page
  BY DEF GroupsNext
<1>2. UNCHANGED groups \/ ServeEdit
  BY DEF GroupsNext, ServeWizard, ServeGroups, UseGroup
<1>3. CASE UNCHANGED groups
  BY <1>1, <1>3 DEF EditInv
<1>4. CASE ServeEdit
  <2> DEFINE e == Head(sent)
             s == [groups EXCEPT !.results = NoGroup]
             Good(x) == GroupForm(x) /\ \A g \in x.saved : g.scope \in Works
  <2>1. Good(groups)
    BY DEF EditInv
  <2>2. GroupForm(s) /\ s.saved = groups.saved
    BY <2>1 DEF GroupForm, GroupField
  <2>3. \/ groups' = [s EXCEPT !.mode = "edit"]
        \/ groups' = EditSaved(s, e)
        \/ groups' = [s EXCEPT !.mode = NoGroup]
        \/ groups' = s
    BY <1>4 DEF ServeEdit
  <2> HIDE DEF s, e
  <2>4. Good(s)
    BY <2>1, <2>2
  <2>5. \A m : Good([s EXCEPT !.mode = m])
    BY <2>4 DEF GroupForm, GroupField
  <2>6. Good(EditSaved(s, e))
    <3>1. CASE Preview(e.group).success
      <4>1. EditSaved(s, e) = [s EXCEPT !.saved = {e.group}, !.mode = NoGroup]
        BY <3>1 DEF EditSaved
      <4>2. GroupForm(EditSaved(s, e)) /\ EditSaved(s, e).saved = {e.group}
        BY <2>4, <4>1 DEF GroupForm, GroupField
      <4>3. e.group.scope \in Works
        BY <3>1 DEF Preview
      <4> QED BY <4>2, <4>3
    <3>2. CASE ~Preview(e.group).success
      <4>1. EditSaved(s, e) = [s EXCEPT !.results = "failure"]
        BY <3>2 DEF EditSaved
      <4>2. GroupForm(EditSaved(s, e)) /\ EditSaved(s, e).saved = s.saved
        BY <2>4, <4>1 DEF GroupForm, GroupField
      <4> QED BY <2>4, <4>2
    <3> QED BY <3>1, <3>2
  <2>7. Good(groups')
    BY <2>3, <2>4, <2>5, <2>6
  <2> QED BY <1>1, <2>7 DEF EditInv
<1> QED BY <1>2, <1>3, <1>4

-----------------------------------------------------------------------------
(* Notifications.                                                           *)

NoticeOps == {"open", "close", "add", "update", "pause", "resume", "delete"}

NoticesField == {"items", "made", "copies", "result", "open"}

NoticesForm(s) == s = [f \in NoticesField |-> s[f]]

NoticesInv ==
  page = "notifications" =>
    /\ NoticesForm(notices)
    /\ Queue(sent) /\ \A e \in Elements(sent) : e.op \in NoticeOps

\* Reading a notification changes the cache alone.
LEMMA FetchedFacts ==
  ASSUME NEW s, NoticesForm(s), NEW n
  PROVE  NoticesForm(Fetched(s, n)) /\ Fetched(s, n).items = s.items /\ Fetched(s, n).open = s.open
<1> DEFINE c == [i \in DOMAIN s.copies \cup {n} |-> Object(s, i)]
<1>1. Fetched(s, n) = s \/ Fetched(s, n) = [s EXCEPT !.copies = c]
  BY DEF Fetched
<1> HIDE DEF c
<1> QED BY <1>1 DEF NoticesForm, NoticesField

\* What is handled leaves the session as it was.
LEMMA HandledForm ==
  ASSUME NEW s, NoticesForm(s), NEW e, e.op \in NoticeOps \ {"open", "close"}
  PROVE  NoticesForm(Handled(s, e)) /\ Handled(s, e).open = s.open
<1>1. CASE e.op = "add"
  <2> DEFINE n == CHOOSE n \in Notification : n \notin s.made
             m == s.made \cup {n}
             i == [k \in DOMAIN s.items \cup {n} |->
                     IF k \in DOMAIN s.items THEN s.items[k]
                     ELSE [recipients |-> e.recipients, rule |-> e.rule, enabled |-> TRUE]]
  <2>1. Handled(s, e) = [s EXCEPT !.made = m, !.items = i]
    BY <1>1 DEF Handled
  <2> HIDE DEF n, m, i
  <2> QED BY <2>1 DEF NoticesForm, NoticesField
<1>2. CASE e.op # "add"
  <2>1. PICK i : Handled(s, e) = [s EXCEPT !.items = i]
    <3>1. CASE e.op = "delete"
      BY <3>1, Zenon DEF Handled
    <3>2. CASE e.op \in {"update", "pause", "resume"}
      <4> DEFINE i == [k \in DOMAIN s.items |-> IF k = e.id THEN Updated(s, e) ELSE s.items[k]]
      <4>1. Handled(s, e) = [s EXCEPT !.items = i]
        BY <3>2 DEF Handled
      <4> HIDE DEF i
      <4> QED BY <4>1
    <3> QED BY <1>2, <3>1, <3>2 DEF NoticeOps
  <2> QED BY <2>1 DEF NoticesForm, NoticesField
<1> QED BY <1>1, <1>2

LEMMA CalledForm ==
  ASSUME NEW s, NoticesForm(s), NEW e, e.op \in NoticeOps
  PROVE  NoticesForm(NoticeCalled(s, e))
<1>1. CASE e.op \in {"open", "close"}
  <2>1. NoticeCalled(s, e) = [s EXCEPT !.open = TRUE]
        \/ NoticeCalled(s, e) = [s EXCEPT !.result = NoResult, !.open = FALSE]
    BY <1>1 DEF NoticeCalled
  <2> QED BY <2>1 DEF NoticesForm, NoticesField
<1>2. CASE e.op \notin {"open", "close"}
  <2> DEFINE f == Fetched(s, e.id)
             h == Handled(f, e)
             r == [message |-> e.op, success |-> TRUE]
             x == [message |-> "error", success |-> FALSE]
  <2>1. NoticesForm(f) /\ NoticesForm(h)
    BY <1>2, FetchedFacts, HandledForm
  <2>2. NoticeCalled(s, e) = [h EXCEPT !.result = r] \/ NoticeCalled(s, e) = [f EXCEPT !.result = x]
    BY <1>2 DEF NoticeCalled
  <2> HIDE DEF f, h, r, x
  <2> QED BY <2>1, <2>2 DEF NoticesForm, NoticesField
<1> QED BY <1>1, <1>2

LEMMA NoticesInitInv == sent = <<>> /\ NotificationsInit => NoticesInv
<1> SUFFICES ASSUME sent = <<>>, NotificationsInit PROVE NoticesInv
  OBVIOUS
<1>1. PICK items, made : notices = [items |-> items, made |-> made, copies |-> <<>>,
                                    result |-> NoResult, open |-> FALSE]
  BY DEF NotificationsInit
<1>2. NoticesForm(notices)
  BY <1>1 DEF NoticesForm, NoticesField
<1> QED BY <1>2, NoEvents DEF NoticesInv

LEMMA NoticesStep == NoticesInv /\ NotificationsNext => NoticesInv'
<1> SUFFICES ASSUME NoticesInv, NotificationsNext, page = "notifications" PROVE NoticesInv'
  BY DEF NoticesInv, NotificationsNext
<1>1. CASE ServeNotices
  <2>1. Head(sent).op \in NoticeOps /\ Queue(sent') /\ \A e \in Elements(sent') : e.op \in NoticeOps
    BY <1>1, QueueSteps DEF ServeNotices, Take, NoticesInv
  <2>2. PICK copies : notices' = NoticeCalled([notices EXCEPT !.copies = copies], Head(sent))
    BY <1>1 DEF ServeNotices
  <2>3. NoticesForm([notices EXCEPT !.copies = copies])
    BY DEF NoticesInv, NoticesForm, NoticesField
  <2>4. NoticesForm(notices')
    BY <2>1, <2>2, <2>3, CalledForm
  <2> QED BY <2>1, <2>4 DEF NoticesInv
<1>2. CASE NotificationsUser /\ UNCHANGED notices
  <2>1. ASSUME NEW e, e.op \in NoticeOps, Emit(e) PROVE NoticesInv'
    BY <1>2, <2>1, QueueSteps DEF NoticesInv, Emit
  <2>2. ASSUME UNCHANGED sent PROVE NoticesInv'
    BY <1>2, <2>2 DEF NoticesInv, NoticesForm
  <2>3. CASE SaveNotice
    <3> DEFINE o == IF panel.form.isEdit THEN "update" ELSE "add"
               e == [op |-> o, id |-> panel.form.id, recipients |-> panel.form.recipients, rule |-> panel.form.rule]
    <3>1. Emit(e) /\ e.op \in NoticeOps
      BY <2>3 DEF SaveNotice, NoticeOps
    <3> HIDE DEF e
    <3> QED BY <2>1, <3>1
  <2>4. ASSUME NEW n \in Notification, ButtonClicked(n) PROVE NoticesInv'
    <3>1. PICK op \in {"pause", "resume", "delete"} : Emit([op |-> op, id |-> n, item |-> Listing[n]])
      BY <2>4 DEF ButtonClicked
    <3> DEFINE e == [op |-> op, id |-> n, item |-> Listing[n]]
    <3>2. e.op \in NoticeOps
      BY DEF NoticeOps
    <3> HIDE DEF e
    <3> QED BY <2>1, <3>1, <3>2 DEF e
  <2>5. CASE OpenNotices \/ CloseNotices
    BY <2>1, <2>5 DEF OpenNotices, CloseNotices, NoticeOps
  <2>6. CASE TypeNotice \/ CancelEdit \/ \E n \in Notification : EditNotice(n)
    BY <2>2, <2>6 DEF TypeNotice, CancelEdit, EditNotice
  <2> QED BY <1>2, <2>3, <2>4, <2>5, <2>6 DEF NotificationsUser
<1> QED BY <1>1, <1>2 DEF NotificationsNext

PanelForm(p) ==
  /\ p = [f \in {"data", "form", "open"} |-> p[f]]
  /\ p.form = [f \in {"id", "recipients", "rule", "isEdit"} |-> p.form[f]]

\* After a success, what is edited is in the list.
EditedListed(p) ==
  "items" \in DOMAIN p.data /\ p.data.result.success /\ p.form.isEdit => p.form.id \in DOMAIN p.data.items

PanelInv == page = "notifications" => PanelForm(panel) /\ EditedListed(panel)

LEMMA PanelInitInv == NotificationsInit => PanelInv
<1> SUFFICES ASSUME panel = [data |-> NoData, form |-> EmptyNotice, open |-> FALSE] PROVE PanelInv
  BY DEF NotificationsInit
<1>1. "items" \notin DOMAIN NoData
  BY DEF NoData
<1>2. PanelForm(panel)
  <2>1. EmptyNotice = [f \in {"id", "recipients", "rule", "isEdit"} |-> EmptyNotice[f]]
    BY DEF EmptyNotice
  <2> HIDE DEF NoData, EmptyNotice
  <2> QED BY <2>1 DEF PanelForm
<1>3. panel.data = NoData
  OBVIOUS
<1> QED BY <1>1, <1>2, <1>3 DEF PanelInv, EditedListed

LEMMA PanelUserStep ==
  ASSUME PanelInv, page = "notifications", NotificationsUser
  PROVE  PanelForm(panel') /\ EditedListed(panel')
<1> DEFINE FormFields == {"id", "recipients", "rule", "isEdit"}
           Good(p) == PanelForm(p) /\ EditedListed(p)
<1>1. /\ panel = [f \in {"data", "form", "open"} |-> panel[f]]
      /\ panel.form = [f \in FormFields |-> panel.form[f]] /\ Good(panel)
  BY DEF PanelInv, PanelForm
<1>2. ASSUME NEW f, f = [x \in FormFields |-> f[x]],
             f.isEdit => (panel.form.isEdit /\ f.id = panel.form.id) \/ f.id \in DOMAIN Listing
      PROVE  Good([panel EXCEPT !.form = f])
  <2> DEFINE p == [panel EXCEPT !.form = f]
  <2>1. p = [x \in {"data", "form", "open"} |-> p[x]] /\ p.form = f /\ p.data = panel.data
    BY <1>1
  <2> HIDE DEF p
  <2>2. PanelForm(p)
    BY <1>2, <2>1 DEF PanelForm
  <2>3. EditedListed(p)
    BY <1>1, <1>2, <2>1 DEF EditedListed, Listing
  <2> QED BY <2>2, <2>3 DEF p
<1>3. CASE TypeNotice
  <2>1. ASSUME NEW r, panel' = [panel EXCEPT !.form.recipients = r] PROVE Good(panel')
    <3> DEFINE f == [panel.form EXCEPT !.recipients = r]
    <3>1. panel' = [panel EXCEPT !.form = f]
      BY <1>1, <2>1
    <3>2. f = [x \in FormFields |-> f[x]] /\ f.isEdit = panel.form.isEdit /\ f.id = panel.form.id
      BY <1>1
    <3> HIDE DEF f, Good
    <3> QED BY <1>2, <3>1, <3>2
  <2>2. ASSUME NEW r, panel' = [panel EXCEPT !.form.rule = r] PROVE Good(panel')
    <3> DEFINE f == [panel.form EXCEPT !.rule = r]
    <3>1. panel' = [panel EXCEPT !.form = f]
      BY <1>1, <2>2
    <3>2. f = [x \in FormFields |-> f[x]] /\ f.isEdit = panel.form.isEdit /\ f.id = panel.form.id
      BY <1>1
    <3> HIDE DEF f, Good
    <3> QED BY <1>2, <3>1, <3>2
  <2> QED BY <1>3, <2>1, <2>2 DEF TypeNotice
<1>4. ASSUME NEW n \in Notification, EditNotice(n) PROVE Good(panel')
  <2> DEFINE f == [id |-> n, recipients |-> Listing[n].recipients, rule |-> Listing[n].rule, isEdit |-> TRUE]
  <2>1. panel' = [panel EXCEPT !.form = f] /\ n \in DOMAIN Listing
    BY <1>4 DEF EditNotice, Buttons
  <2>2. f = [x \in FormFields |-> f[x]] /\ f.id = n
    OBVIOUS
  <2> HIDE DEF f, Good
  <2> QED BY <1>2, <2>1, <2>2
<1>5. CASE CancelEdit
  <2>1. panel' = [panel EXCEPT !.form = EmptyNotice]
    BY <1>5 DEF CancelEdit
  <2>2. EmptyNotice = [x \in FormFields |-> EmptyNotice[x]] /\ ~EmptyNotice.isEdit
    BY DEF EmptyNotice
  <2> QED BY <1>2, <2>1, <2>2
<1>6. CASE CloseNotices
  <2>1. panel' = [panel EXCEPT !.open = FALSE]
    BY <1>6 DEF CloseNotices
  <2>2. /\ panel' = [x \in {"data", "form", "open"} |-> panel'[x]]
        /\ panel'.form = panel.form /\ panel'.data = panel.data
    BY <1>1, <2>1
  <2> QED BY <1>1, <2>2 DEF PanelForm, EditedListed
<1>7. CASE UNCHANGED panel
  BY <1>1, <1>7 DEF PanelForm, EditedListed
<1> QED BY <1>3, <1>4, <1>5, <1>6, <1>7
        DEF NotificationsUser, OpenNotices, SaveNotice, ButtonClicked

LEMMA PanelServed ==
  ASSUME PanelInv, page = "notifications", ServeNotices
  PROVE  PanelForm(panel') /\ EditedListed(panel') /\ panel'.data = DataOf(notices')
<1> DEFINE data == DataOf(notices')
           f == FormAfter(panel.form, data)
           open == panel.open \/ data # NoData
           p == [panel EXCEPT !.data = data, !.open = open, !.form = f]
<1>1. panel = [x \in {"data", "form", "open"} |-> panel[x]] /\ PanelForm(panel) /\ EditedListed(panel)
  BY DEF PanelInv, PanelForm
<1>2. panel' = IF data = panel.data THEN panel ELSE p
  BY <1>1 DEF ServeNotices
<1>3. "items" \notin DOMAIN NoData /\ ~EmptyNotice.isEdit
  BY DEF NoData, EmptyNotice
<1>4. f = [x \in {"id", "recipients", "rule", "isEdit"} |-> f[x]]
  BY <1>1 DEF PanelForm, FormAfter, EmptyNotice
<1>5. "items" \in DOMAIN data /\ data.result.success => ~f.isEdit
  BY <1>3 DEF FormAfter
<1> HIDE DEF data, f, open
<1>6. p = [x \in {"data", "form", "open"} |-> p[x]] /\ p.form = f /\ p.data = data
  BY <1>1
<1> HIDE DEF p
<1>7. PanelForm(p) /\ EditedListed(p)
  BY <1>4, <1>5, <1>6 DEF PanelForm, EditedListed
<1> QED BY <1>1, <1>2, <1>6, <1>7 DEF data

LEMMA PanelStep == PanelInv /\ NotificationsNext => PanelInv'
<1> SUFFICES ASSUME PanelInv, NotificationsNext, page = "notifications" PROVE PanelInv'
  BY DEF PanelInv, NotificationsNext
<1> QED BY PanelUserStep, PanelServed DEF PanelInv, NotificationsNext

\* A deletion is a success, and its list is without what was deleted.
LEMMA NoticeDeleted ==
  NoticesInv /\ PanelInv /\ NotificationsNext /\ Take /\ page = "notifications"
    /\ Head(sent).op = "delete" /\ notices.open =>
  ~(panel'.form.isEdit /\ panel'.form.id = Head(sent).id)
<1> SUFFICES ASSUME NoticesInv, PanelInv, NotificationsNext, Take, page = "notifications",
                    Head(sent).op = "delete", notices.open
             PROVE  ~(panel'.form.isEdit /\ panel'.form.id = Head(sent).id)
  OBVIOUS
<1>1. CASE ServeNotices
  <2> DEFINE e == Head(sent)
             h == [n \in DOMAIN notices.items \ {e.id} |-> notices.items[n]]
             r == [message |-> "delete", success |-> TRUE]
  <2>1. PICK copies : notices' = NoticeCalled([notices EXCEPT !.copies = copies], e)
    BY <1>1 DEF ServeNotices
  <2> DEFINE s == [notices EXCEPT !.copies = copies]
             f == Fetched(s, e.id)
  <2>2. NoticesForm(s) /\ s.items = notices.items /\ s.open = notices.open
    BY DEF NoticesInv, NoticesForm, NoticesField
  <2> HIDE DEF s
  <2>3. NoticesForm(f) /\ f.items = notices.items /\ f.open = notices.open
    BY <2>2, FetchedFacts
  <2>4. notices'.open /\ notices'.items = h /\ notices'.result = r
    <3>1. NoticeCalled(s, e) = [[f EXCEPT !.items = [n \in DOMAIN f.items \ {e.id} |-> f.items[n]]] EXCEPT !.result = r]
      BY DEF NoticeCalled, Valid, Handled
    <3> HIDE DEF f, r, h
    <3>2. [n \in DOMAIN f.items \ {e.id} |-> f.items[n]] = h
      BY <2>3 DEF h
    <3> QED BY <2>1, <2>3, <3>1, <3>2 DEF s, NoticesForm, NoticesField
  <2>9. DOMAIN h = DOMAIN notices.items \ {e.id} /\ r.success
    OBVIOUS
  <2> HIDE DEF e, h, r
  <2>5. DataOf(notices') = [result |-> r, items |-> h]
    BY <2>4 DEF DataOf
  <2>6. panel'.data = [result |-> r, items |-> h] /\ EditedListed(panel')
    BY <1>1, <2>5, PanelServed
  <2>7. "items" \in DOMAIN panel'.data /\ panel'.data.result = r /\ panel'.data.items = h
    BY <2>6
  <2> QED BY <2>6, <2>7, <2>9 DEF EditedListed, e
<1>2. CASE NotificationsUser
  <2>1. sent' = sent \/ \E e : sent' = Append(sent, e)
    BY <1>2 DEF NotificationsUser, OpenNotices, CloseNotices, TypeNotice, CancelEdit, SaveNotice,
      EditNotice, ButtonClicked, Emit
  <2>2. Queue(sent) /\ sent # <<>> /\ sent' = Tail(sent)
    BY DEF NoticesInv, Take
  <2> QED BY <2>1, <2>2, TailFacts, AppendFacts
<1> QED BY <1>1, <1>2 DEF NotificationsNext
=============================================================================
