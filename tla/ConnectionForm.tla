--------------------------- MODULE ConnectionForm ---------------------------
(***************************************************************************)
(* The connection page: its form (components/connection_form.js), the page   *)
(* around it (pages/connections.js) and the callbacks of its view            *)
(* (views/connections.py). The form keeps what its fields show and, beside   *)
(* it, the connection it would submit; a change that alters the connection   *)
(* string is sent to the server, which answers with the string it generates. *)
(*                                                                          *)
(* "postgresql" stands for the seven types that share one form. A host, a    *)
(* password and a key are followed; the other fields are treated alike. The  *)
(* form for BigQuery is left out.                                            *)
(***************************************************************************)
EXTENDS Browser, FiniteSets

CONSTANTS
  DefaultPort,  \* DefaultPort[f]: the port of database type f
  Host,         \* host names a user may enter
  MaxEdits,     \* bound on what the user does in the form
  Nil           \* no value: an empty field, an absent secret

ASSUME ConnectionAssumption ==
  /\ DOMAIN DefaultPort \subseteq {"postgresql", "azure_mssql", "databricks", "snowflake"}
  /\ MaxEdits \in Nat

VARIABLES
  connection,  \* the form in the browser
  saved,       \* the connection in the database
  fetched,     \* the copy of it that the server's cache holds, or Nil
  typed        \* history: the URL entered by the user

connectionVars == <<connection, saved, fetched, typed>>

Flavor == DOMAIN DefaultPort

\* The string the server generates: after the prefix, the URL the user gave or
\* one made from the fields.
UrlOf(v) == [flavor |-> v.flavor,
             url |-> IF v.byUrl THEN v.url ELSE <<"generated", v.host, v.port>>]

-----------------------------------------------------------------------------
(* The fields on the screen.                                                *)

\* A radio group of the form: key pair (snowflake), OAuth (databricks), managed
\* identity (azure_mssql).
MethodOf(v, isNew) ==
  CASE v.flavor = "snowflake"   -> isNew \/ v.byKey
    [] v.flavor = "databricks"  -> v.byKey
    [] v.flavor = "azure_mssql" -> v.identity
    [] OTHER                    -> FALSE

\* The fields that are checked, and those of them with an error.
SecretField(c) ==
  CASE c.conn.flavor = "snowflake" /\ c.method -> {"private_key"}
    [] c.conn.flavor = "databricks"            -> {"password"}
    [] OTHER                                   -> {}

Wrong(c) ==
  {f \in {"host", "url"} \cup SecretField(c) :
     \/ f = "host" /\ ~c.byUrl /\ c.host = Nil
     \/ f = "url" /\ c.byUrl /\ c.url = Nil
     \/ f = "password" /\ ~c.hadPassword /\ c.password = Nil
     \/ f = "private_key" /\ ~c.hadKey /\ c.key = Nil}

\* A field that left the screen keeps its verdict.
Checked(c) ==
  [c EXCEPT !.invalid = (@ \ ({"host", "url"} \cup SecretField(c))) \cup Wrong(c)]

\* What the fields make of the connection to submit.
Published(c) ==
  LET v == c.conn
  IN [c EXCEPT !.conn = [v EXCEPT !.host = c.host, !.port = c.port, !.url = c.url,
        !.byUrl = c.byUrl, !.password = c.password,
        !.byKey = v.flavor \in {"databricks", "snowflake"} /\ c.method,
        !.identity = IF v.flavor = "azure_mssql" THEN c.method ELSE v.identity,
        !.key = IF v.flavor = "snowflake" THEN c.key ELSE v.key]]

\* Mutant: the URL field follows every string that arrives.
UrlFollowsAlways(c, u) == [c EXCEPT !.dynamic = u, !.url = u.url]

\* The generated string arrives: the URL field follows it unless the user
\* connects by URL.
UrlFollows(c, u) ==
  IF u = c.dynamic THEN c
  ELSE [c EXCEPT !.dynamic = u, !.url = IF c.byUrl THEN @ ELSE u.url]

\* The form of another database type, with what was entered so far.
FormRebuilt(c) ==
  LET v == c.conn
  IN Published(Checked([c EXCEPT !.host = v.host, !.port = v.port, !.byUrl = v.byUrl,
       !.method = MethodOf(v, c.isNew), !.password = v.password, !.key = v.key, !.invalid = {},
       !.url = IF v.byUrl THEN v.url ELSE c.dynamic.url]))

\* A default port follows the type in what would be submitted. The field was
\* built before and keeps the port it shows.
PortFollows(c, old) ==
  [c EXCEPT !.conn.port = IF @ = DefaultPort[old] THEN DefaultPort[c.conn.flavor] ELSE @]

\* Opened on a new connection or on the stored one; secrets stay on the server.
FormOpened(s) ==
  LET isNew == ~s.exists
      v == [flavor |-> s.flavor, host |-> s.host, port |-> s.port, url |-> s.url,
            byUrl |-> s.byUrl, byKey |-> s.byKey, identity |-> s.identity,
            password |-> Nil, key |-> Nil]
  IN FormRebuilt([conn |-> v, isNew |-> isNew, dynamic |-> UrlOf(v),
       hadPassword |-> s.password # Nil, hadKey |-> s.key # Nil, host |-> Nil, port |-> Nil,
       url |-> Nil, byUrl |-> FALSE, method |-> FALSE, password |-> Nil, key |-> Nil,
       invalid |-> {}, testing |-> FALSE, status |-> Nil, edits |-> 0,
       prop |-> [v |-> v, status |-> Nil]])

\* Save is offered when no field is in error: the form lacks keys of the
\* connection it was opened on, so the comparison always finds it changed.
CanSave(c) == c.invalid = {}

-----------------------------------------------------------------------------
(* What the user does.                                                      *)

\* Whether a change asks for a new connection string.
RefreshesUrl(old, v) ==
  ~v.byUrl /\ \E f \in {"flavor", "host", "port", "byKey", "identity"} : old[f] # v[f]

Edited(c) ==
  /\ page = "connection" /\ connection.edits < MaxEdits
  /\ connection' = [c EXCEPT !.edits = @ + 1]
  /\ IF RefreshesUrl(connection.conn, c.conn) THEN Emit([op |-> "update", v |-> c.conn])
                                              ELSE UNCHANGED sent

ChooseFlavor(f) ==
  LET old == connection.conn.flavor
  IN /\ f # old
     /\ Edited(PortFollows(FormRebuilt([connection EXCEPT !.conn.flavor = f]), old))
     /\ UNCHANGED typed

EnterHost(h) ==
  /\ ~connection.byUrl
  /\ Edited(Published(Checked([connection EXCEPT !.host = h])))
  /\ UNCHANGED typed

EnterUrl(u) ==
  /\ connection.byUrl
  /\ Edited(Published(Checked([connection EXCEPT !.url = u])))
  /\ typed' = u

ConnectBy(byUrl) ==
  /\ byUrl # connection.byUrl
  /\ ~(connection.conn.flavor = "databricks" /\ connection.method)
  /\ Edited(Published(Checked([connection EXCEPT !.byUrl = byUrl])))
  /\ typed' = Nil

\* The radio group of a form: the fields of the other method go.
ChooseMethod(flavor, c) ==
  /\ connection.conn.flavor = flavor /\ c.method # connection.method
  /\ Edited(Published(Checked(c)))
  /\ typed' = IF connection'.byUrl THEN typed ELSE Nil

ChooseIdentity(m) == ChooseMethod("azure_mssql", [connection EXCEPT !.method = m])

\* The secret of the other method is dropped, and OAuth has no URL.
ChooseOAuth(m) ==
  ChooseMethod("databricks",
    [connection EXCEPT !.method = m, !.password = Nil, !.byUrl = @ /\ ~m])

ChooseKeyPair(m) == ChooseMethod("snowflake", [connection EXCEPT !.method = m])

EnterPassword ==
  /\ connection.conn.flavor \in {"snowflake", "azure_mssql"} => ~connection.method
  /\ Edited(Published(Checked([connection EXCEPT !.password = "entered"])))
  /\ UNCHANGED typed

UploadKey ==
  /\ "private_key" \in SecretField(connection)
  /\ Edited(Published(Checked([connection EXCEPT !.key = "uploaded"])))
  /\ UNCHANGED typed

TestConnection ==
  /\ page = "connection" /\ ~connection.testing /\ connection.edits < MaxEdits
  /\ connection' = [connection EXCEPT !.testing = TRUE, !.status = Nil, !.edits = @ + 1]
  /\ Emit([op |-> "test", v |-> connection.conn])
  /\ UNCHANGED typed

SaveConnection ==
  /\ page = "connection" /\ CanSave(connection) /\ connection.edits < MaxEdits
  /\ connection' = [connection EXCEPT !.edits = @ + 1]
  /\ Emit([op |-> "save", v |-> connection.conn])
  /\ UNCHANGED typed

-----------------------------------------------------------------------------
(* The server.                                                              *)

\* The secrets that the callback of an event empties, for they belong to the
\* other way to sign in.
Emptied(e) ==
  LET usesKey == e.v.byKey /\ e.v.flavor # "databricks"
  IN {f \in {"password", "key"} :
        \/ f = "password" /\ e.op # "update" /\ e.v.identity
        \/ f = "password" /\ e.op = "save" /\ usesKey
        \/ f = "key" /\ e.op = "save" /\ ~usesKey}

\* Mutant: an empty secret is taken for the new one.
LeftNone(e) == {}

\* Those it leaves out, for they were not entered. An update leaves out none.
LeftOut(e) ==
  IF e.op = "update" THEN {} ELSE {f \in {"password", "key"} \ Emptied(e) : e.v[f] = Nil}

\* What is assigned to the connection.
Assigned(e) ==
  [f \in DOMAIN e.v \ LeftOut(e) |-> IF f \in Emptied(e) THEN Nil ELSE e.v[f]]

\* Of what is given, that which differs from the object it was assigned to is
\* written to the row.
RowAfter(row, object, given) ==
  [f \in DOMAIN row |-> IF f \in DOMAIN given /\ given[f] # object[f] THEN given[f] ELSE row[f]]

\* A connection equal to the last one delivered is dropped; the outcome of a
\* test never is, for a random number goes with it.
StatusDelivered(c, p) ==
  IF p = c.prop /\ p.status = Nil THEN c
  ELSE [c EXCEPT !.prop = p, !.status = p.status, !.testing = @ /\ p.status = Nil]

\* The script assigns what it was given to the cached copy, which is not attached
\* to the database session, or, when there is none, to the row itself, which is
\* cached as it was read; any session that loads or leaves a page may have cleared
\* the cache. A save writes, and clears the cache; it may fail. The end of the run
\* commits an attached row in any case: its changes are written though nobody
\* saved them. A commit that fails is not noticed.
ServeConnection ==
  /\ page = "connection" /\ Take
  /\ \E copy \in {fetched, Nil} :
     LET e == Head(sent)
         object == IF copy = Nil THEN saved ELSE copy
         written == RowAfter(saved, object, Assigned(e))
     IN /\ \E result \in IF e.op = "test" THEN {"good", "bad"} ELSE {Nil} :
             connection' = UrlFollows(StatusDelivered(connection, [v |-> e.v, status |-> result]),
                                      UrlOf(e.v))
        /\ \/ /\ e.op = "save" /\ fetched' = Nil
              /\ saved' \in {saved, [written EXCEPT !.exists = TRUE]}
           \/ /\ fetched' = IF saved.exists THEN object ELSE Nil
              /\ saved' \in IF e.op # "save" /\ copy = Nil /\ saved.exists THEN {saved, written}
                                                                       ELSE {saved}
  /\ UNCHANGED typed

ConnectionInit ==
  /\ saved \in [flavor : Flavor, host : Host \cup {Nil}, port : {DefaultPort[f] : f \in Flavor},
                url : {Nil}, byUrl : {FALSE}, byKey : BOOLEAN, identity : {FALSE},
                password : {Nil, "stored"}, key : {Nil, "key"}, exists : BOOLEAN]
  /\ saved.exists <=> saved.host # Nil
  /\ saved.port = DefaultPort[saved.flavor]
  /\ saved.byKey => saved.flavor \in {"databricks", "snowflake"}
  /\ saved.key # Nil => saved.byKey /\ saved.flavor = "snowflake" /\ saved.password = Nil
  /\ saved.host = Nil => saved.password = Nil /\ ~saved.byKey
  /\ fetched = IF saved.exists THEN saved ELSE Nil
  /\ connection = FormOpened(saved)
  /\ typed = Nil

ConnectionNext ==
  /\ UNCHANGED page
  /\ \/ /\ \/ \E f \in Flavor : ChooseFlavor(f)
           \/ \E h \in Host : EnterHost(h)
           \/ EnterUrl(<<"entered">>)
           \/ \E b \in BOOLEAN : ConnectBy(b) \/ ChooseIdentity(b) \/ ChooseOAuth(b) \/ ChooseKeyPair(b)
           \/ EnterPassword \/ UploadKey \/ TestConnection \/ SaveConnection
        /\ UNCHANGED <<saved, fetched>>
     \/ ServeConnection

-----------------------------------------------------------------------------
(* Properties.                                                              *)

\* A URL the user entered stays while the user connects by URL, though strings
\* generated for what was entered before arrive later, and though the database
\* type is changed.
UrlEditsKept ==
  page = "connection" /\ connection.byUrl /\ typed # Nil =>
    connection.url = typed /\ connection.conn.url = typed

\* A save removes the stored password only for a key or a managed identity,
\* though every event of the form carries an empty password, and though the copy
\* it is compared with may be older than the row.
SaveKeepsPassword ==
  [][page = "connection" /\ saved.password # Nil /\ saved'.password = Nil /\ Head(sent).op = "save" =>
       LET v == Head(sent).v
       IN v.identity \/ (v.flavor = "snowflake" /\ v.byKey)]_<<page, sent, connectionVars>>

\* The stored password, which the form tells is "<hidden for safety reasons>", is
\* removed by such a save alone.
PasswordKept ==
  [][page = "connection" /\ saved.password # Nil /\ saved'.password = Nil =>
       LET e == Head(sent)
       IN e.op = "save" /\ (e.v.identity \/ (e.v.flavor = "snowflake" /\ e.v.byKey))
    ]_<<page, sent, connectionVars>>

=============================================================================
