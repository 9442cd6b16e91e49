------------------------------ MODULE MCLspServer ------------------------------
(***************************************************************************)
(* LspServer for TLC: document symmetry, and the abstract publisher it      *)
(* implements.                                                              *)
(***************************************************************************)
EXTENDS LspServer, TLC

Symmetry == Permutations(Uris)

Publisher == INSTANCE DiagnosticsPublisher WITH
  context <- project.generation,
  wanted  <- reanalysed,
  shown   <- [u \in Uris |-> [text       |-> shown[u].text,
                              generation |-> shown[u].generation]]

(***************************************************************************)
(* The server with its workers, queue, debounce, stale-drop and caches      *)
(* implements the abstract publisher, its liveness included.                *)
(***************************************************************************)
ImplementsPublisher == Publisher!Spec
================================================================================
