-------------------------- MODULE DiagnosticsPublisher --------------------------
(***************************************************************************)
(* What the language server promises about diagnostics, without workers,    *)
(* queues, timers or caches: for every document it displays either nothing  *)
(* or the analysis of its newest content under the context of the moment of *)
(* publishing; closing a document clears it at once; an open document that  *)
(* is not up to date is eventually published.  LspServer implements it.     *)
(***************************************************************************)
EXTENDS Naturals

CONSTANTS Uris

VARIABLES
  running,    \* the server has not stopped
  open,       \* the open documents
  text,       \* the newest content of each document
  context,    \* the generation of the project context
  wanted,     \* the generation every open document must reach
  shown       \* the content and generation displayed: nothing is content 0

vars == <<running, open, text, context, wanted, shown>>

Nothing == [text |-> 0, generation |-> 0]

Init ==
  /\ running = TRUE
  /\ open = {}
  /\ text = [u \in Uris |-> 0]
  /\ context = 0
  /\ wanted = 0
  /\ shown = [u \in Uris |-> Nothing]

\* The client opens or edits a document.
Write(u) ==
  /\ open' = open \union {u}
  /\ text' = [text EXCEPT ![u] = @ + 1]
  /\ UNCHANGED <<running, context, wanted, shown>>

Close(u) ==
  /\ u \in open
  /\ open' = open \ {u}
  /\ shown' = [shown EXCEPT ![u] = Nothing]
  /\ UNCHANGED <<running, text, context, wanted>>

\* A project event: a new context every open document is analysed again under.
ProjectEvent ==
  /\ context' = context + 1
  /\ wanted' = context'
  /\ UNCHANGED <<running, open, text, shown>>

\* The server falls back to another context of its own accord.
ChangePosture ==
  /\ context' = context + 1
  /\ UNCHANGED <<running, open, text, wanted, shown>>

\* The newest content of u is published; the context may move on with it.
Publish(u) ==
  /\ u \in open
  /\ shown' = [shown EXCEPT ![u] = [text |-> text[u], generation |-> context]]
  /\ context' \in {context, context + 1}
  /\ UNCHANGED <<running, open, text, wanted>>

Stop == running' = FALSE /\ UNCHANGED <<open, text, context, wanted, shown>>

Next ==
  /\ running
  /\ \/ \E u \in Uris : Write(u) \/ Close(u) \/ Publish(u)
     \/ ProjectEvent
     \/ ChangePosture
     \/ Stop

UpToDate(u) == shown[u].text = text[u] /\ shown[u].generation >= wanted

Fairness == \A u \in Uris : WF_vars(running /\ ~UpToDate(u) /\ Publish(u))

Safe == Init /\ [][Next]_vars

Spec == Safe /\ Fairness
================================================================================
