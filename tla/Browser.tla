------------------------------ MODULE Browser ------------------------------
(***************************************************************************)
(* What the pages of the user interface share. A page is a component in the *)
(* browser, whose properties come from a run of the page's script on the    *)
(* server. A handler in the browser changes the component's own state at    *)
(* once and may emit an event; the event's callback runs on the server      *)
(* later, the script runs again and its properties replace those in the     *)
(* browser, while the user goes on. Events are handled one at a time in the *)
(* order they were emitted. What a handler writes and what follows from it  *)
(* through van.derive is one step.                                          *)
(***************************************************************************)
EXTENDS Naturals, Sequences

CONSTANTS
  MaxSent   \* MaxSent[p]: bound on the events of page p emitted and not handled yet

ASSUME BrowserAssumption == MaxSent \in [DOMAIN MaxSent -> Nat \ {0}]

VARIABLES
  page,     \* the page that is open
  sent      \* the events emitted and not handled yet

\* emit(): the component hands one more event to Streamlit.
Emit(e) == Len(sent) < MaxSent[page] /\ sent' = Append(sent, e)

\* The server takes the oldest event.
Take == sent # <<>> /\ sent' = Tail(sent)

Quiet == sent = <<>>
=============================================================================
