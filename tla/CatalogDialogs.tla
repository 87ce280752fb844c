--------------------------- MODULE CatalogDialogs ---------------------------
(***************************************************************************)
(* The dialogs of the data catalog (pages/data_catalog.js): those that show   *)
(* details of an item, the one that starts profiling, and the one that        *)
(* imports metadata from a file, with their callbacks (views/data_catalog.py). *)
(* The session remembers which are open and what they show.                  *)
(*                                                                          *)
(* The body of the import dialog is built again for all new data, and for a   *)
(* file that is chosen, since it reads the state that holds the file. What    *)
(* was chosen in it is then gone, and a success that it shows starts a timer  *)
(* that closes the dialog.                                                   *)
(***************************************************************************)
EXTENDS Browser, FiniteSets

CONSTANTS
  Cataloged,      \* the table groups
  Unprofiled,     \* those the catalog knows no columns of
  Detail,         \* the dialogs about an item
  MaxUploads,     \* bound on the files uploaded
  NoBox

ASSUME CatalogDialogsAssumption ==
  /\ Unprofiled \subseteq Cataloged /\ NoBox \notin Cataloged
  /\ MaxUploads \in Nat
  /\ {"profiling", "import"} \cap Detail = {}

VARIABLES
  boxes,    \* the dialogs in the browser
  kept      \* the query parameter, the session, and what the imports wrote

boxVars == <<boxes, kept>>

Box == {"profiling", "import"} \cup Detail
Blanks == {"keep", "clear"}

Parsed == {"matched", "unmatched", "broken"}

NoImport == [preview |-> NoBox, result |-> NoBox]
NoBoxData == [of |-> NoBox]

-----------------------------------------------------------------------------
(* What reaches the browser.                                                *)

\* The data of a dialog that the session holds open: about what, and the last
\* answer.
BoxData(s, d) ==
  IF s.of[d] = NoBox THEN NoBoxData
  ELSE [of |-> s.of[d], answer |-> IF d = "import" THEN s.import ELSE s.answer[d]]

ImportShown(b, data) ==
  LET anew == data["import"] # b.data["import"]
  IN [b EXCEPT !.blank = IF anew THEN "keep" ELSE @,
               !.timers = IF anew /\ data["import"] # NoBoxData /\ data["import"].answer.result = "success"
                            THEN @ + 1 ELSE @]

\* Mutant: a dialog opens with its data and closes by its button alone.
BoxesShownOnly(b, data) == b.open \cup {d \in Box : data[d] # NoBoxData /\ data[d] # b.data[d]}

\* A dialog follows its data whenever they change, also after the user closed
\* it. That of the imports closes by its button alone.
BoxesShown(b, data) ==
  {d \in Box : data[d] # NoBoxData /\ data[d] # b.data[d]}
    \cup {d \in b.open : d = "import" \/ data[d] # NoBoxData}

BoxesBuilt(b, s) ==
  LET data == [d \in Box |-> BoxData(s, d)]
  IN [ImportShown(b, data) EXCEPT !.group = s.chosen, !.data = data, !.open = BoxesShown(b, data)]

-----------------------------------------------------------------------------
(* The browser.                                                             *)

OnCatalog == page = "catalogDialogs"
NothingOpen == OnCatalog /\ boxes.open = {}

ChooseCatalog(g) ==
  /\ NothingOpen /\ g # boxes.group
  /\ Emit([op |-> "group", of |-> g]) /\ UNCHANGED boxes

\* The menu of exports. The file is made by the run that answers.
ExportColumns == NothingOpen /\ Emit([op |-> "export"]) /\ UNCHANGED boxes

OpenImport == NothingOpen /\ Emit([op |-> "import"]) /\ UNCHANGED boxes

\* A group without columns offers to profile it.
OfferProfiling ==
  /\ NothingOpen /\ boxes.group \in Unprofiled
  /\ Emit([op |-> "profile"]) /\ UNCHANGED boxes

OpenDetail(d) ==
  /\ NothingOpen /\ boxes.group \notin Unprofiled
  /\ Emit([op |-> "detail", dialog |-> d, of |-> boxes.group]) /\ UNCHANGED boxes

\* Another run of the history.
AskDetail(d) ==
  /\ OnCatalog /\ d \in boxes.open
  /\ \E n \in {1, 2} : Emit([op |-> "ask", dialog |-> d, run |-> n])
  /\ UNCHANGED boxes

RunProfiling ==
  /\ OnCatalog /\ "profiling" \in boxes.open /\ boxes.data["profiling"].answer = NoBox
  /\ Emit([op |-> "run", of |-> boxes.data["profiling"].of]) /\ UNCHANGED boxes

ImportFilled == OnCatalog /\ "import" \in boxes.open /\ boxes.data["import"] # NoBoxData

ChooseBlank(b) ==
  /\ ImportFilled /\ b # boxes.blank
  /\ boxes' = [boxes EXCEPT !.blank = b] /\ UNCHANGED sent

\* A file that is chosen is sent, with how its blanks are to be read.
FileChosen == Emit([op |-> "upload", blank |-> boxes.blank])

UploadFile ==
  /\ ImportFilled
  /\ kept.uploads + Cardinality({i \in DOMAIN sent : sent[i].op = "upload"}) < MaxUploads
  /\ FileChosen
  /\ boxes' = [boxes EXCEPT !.blank = "keep",
                 !.timers = IF boxes.data["import"].answer.result = "success" THEN @ + 1 ELSE @]

\* The button below a preview that shows what is to be imported.
ConfirmImport ==
  /\ ImportFilled
  /\ LET answer == boxes.data["import"].answer
     IN answer.result = NoBox /\ answer.preview # NoBox /\ answer.preview.as = "matched"
  /\ Emit([op |-> "confirm"]) /\ UNCHANGED boxes

CloseBox(d) ==
  /\ OnCatalog /\ d \in boxes.open
  /\ Emit([op |-> "close", dialog |-> d])
  /\ boxes' = [boxes EXCEPT !.open = @ \ {d}]

\* Two seconds after a success was shown, whatever is shown then.
AutoClose ==
  /\ OnCatalog /\ boxes.timers > 0
  /\ Emit([op |-> "close", dialog |-> "import"])
  /\ boxes' = [boxes EXCEPT !.open = @ \ {"import"}, !.timers = @ - 1]

BoxUser ==
  \/ \E g \in Cataloged : ChooseCatalog(g)
  \/ ExportColumns \/ OpenImport \/ OfferProfiling
  \/ \E d \in Detail : OpenDetail(d) \/ AskDetail(d)
  \/ RunProfiling
  \/ \E b \in Blanks : ChooseBlank(b)
  \/ UploadFile \/ ConfirmImport
  \/ \E d \in Box : CloseBox(d)
  \/ AutoClose

-----------------------------------------------------------------------------
(* The server.                                                              *)

WithBox(s, d, g) == [s EXCEPT !.of = [s.of EXCEPT ![d] = g]]
WithAnswer(s, d, a) == [s EXCEPT !.answer = [s.answer EXCEPT ![d] = a]]

BoxClosed(s, d) ==
  [WithAnswer(WithBox(s, d, NoBox), d, NoBox)
     EXCEPT !.import = IF d = "import" THEN NoImport ELSE s.import]

\* A file is parsed for the group that the dialog was opened for.
FileParsed(s, blank, as) ==
  IF s.of["import"] = NoBox THEN s
  ELSE [s EXCEPT !.uploads = s.uploads + 1,
                 !.import = [s.import EXCEPT !.preview = [no |-> s.uploads + 1, blank |-> blank, as |-> as]]]

\* Mutant: what was imported stays to be imported.
ImportedKept(s, result) ==
  IF s.import.preview = NoBox \/ s.import.preview.as = "broken" THEN s
  ELSE [s EXCEPT !.imports = [s.imports EXCEPT ![s.import.preview.no] = s.imports[s.import.preview.no] + 1],
                 !.import = [s.import EXCEPT !.result = result]]

\* The import of what was parsed last, for better or worse.
Imported(s, result) ==
  IF s.import.preview = NoBox \/ s.import.preview.as = "broken" THEN s
  ELSE [s EXCEPT !.imports = [s.imports EXCEPT ![s.import.preview.no] = s.imports[s.import.preview.no] + 1],
                 !.import = [preview |-> NoBox, result |-> result]]

\* What a callback may leave.
BoxCalls(e) ==
  CASE e.op = "group" -> {[kept EXCEPT !.chosen = e.of]}
    [] e.op = "import" -> {[WithBox(kept, "import", kept.chosen) EXCEPT !.import = NoImport]}
    [] e.op = "profile" -> {WithBox(kept, "profiling", kept.chosen)}
    [] e.op = "detail" -> {WithAnswer(WithBox(kept, e.dialog, e.of), e.dialog, NoBox)}
    [] e.op = "ask" -> {IF kept.of[e.dialog] = NoBox THEN kept ELSE WithAnswer(kept, e.dialog, e.run)}
    [] e.op = "run" -> {WithAnswer(kept, "profiling", r) : r \in {"success", "failure"}}
    [] e.op = "upload" -> {FileParsed(kept, e.blank, as) : as \in Parsed}
    [] e.op = "confirm" -> {Imported(kept, r) : r \in {"success", "failure"}}
    [] e.op = "close" -> {BoxClosed(kept, e.dialog)}
    [] OTHER -> {kept}

ServeBoxes ==
  /\ OnCatalog /\ Take
  /\ kept' \in BoxCalls(Head(sent))
  /\ boxes' = BoxesBuilt(boxes, kept')

BoxesInit ==
  /\ \E g \in Cataloged :
       kept = [chosen |-> g, of |-> [d \in Box |-> NoBox], answer |-> [d \in Box |-> NoBox],
               import |-> NoImport, uploads |-> 0, imports |-> [n \in 1..MaxUploads |-> 0]]
  /\ boxes = [group |-> kept.chosen, data |-> [d \in Box |-> NoBoxData], open |-> {},
              blank |-> "keep", timers |-> 0]

BoxesNext ==
  /\ UNCHANGED page
  /\ (BoxUser /\ UNCHANGED kept) \/ ServeBoxes

-----------------------------------------------------------------------------
(* Properties.                                                              *)

\* Once nothing is on its way, the dialogs on the screen are those the session
\* holds open, whoever closed them and whatever was delivered in between. That
\* of the imports may also be there, empty.
BoxesFollow ==
  OnCatalog /\ Quiet =>
    \A d \in Box : /\ kept.of[d] # NoBox => d \in boxes.open
                   /\ d \in boxes.open => d = "import" \/ kept.of[d] # NoBox

\* A file that was uploaded is imported at most once, however often and in
\* which dialog the import is confirmed before it is answered.
ImportedOnce == OnCatalog => \A n \in DOMAIN kept.imports : kept.imports[n] <= 1
=============================================================================
