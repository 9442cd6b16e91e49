------------------------------- MODULE RunsOnce -------------------------------
(***************************************************************************)
(* What run_command_thread promises main: the command starts once, and     *)
(* what the process exits with is what that one run came to.               *)
(***************************************************************************)
CONSTANT Outcomes       \* the exit codes of the command, and its panic

VARIABLES phase, outcome

Init == phase = "waiting" /\ outcome = "none"

Start == phase = "waiting" /\ phase' = "running" /\ UNCHANGED outcome

Finish == /\ phase = "running"
          /\ phase' = "finished"
          /\ outcome' \in Outcomes

Report == phase = "finished" /\ phase' = "reported" /\ UNCHANGED outcome

Next == Start \/ Finish \/ Report

(* The command may run for as long as it likes (lsp does); it is started,  *)
(* and reported once it has finished.                                      *)
Safe == Init /\ [][Next]_<<phase, outcome>>
Spec == Safe /\ WF_<<phase, outcome>>(Start) /\ WF_<<phase, outcome>>(Report)
===============================================================================
