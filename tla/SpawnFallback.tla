---------------------------- MODULE SpawnFallback ----------------------------
(***************************************************************************)
(* The analysis threads (crates/rigor-cli/src/threads.rs): main starts the *)
(* workers of the global pool, then the command thread, each with the      *)
(* first stack size the host grants.  A spawn consumes its closure even    *)
(* when it is refused, so the job waits in a slot that only the running    *)
(* thread empties; when no size is granted, main runs the command itself.  *)
(*                                                                         *)
(* A started thread may run, and even end, before the spawn returns.       *)
(***************************************************************************)
EXTENDS Naturals

CONSTANTS
    Workers,     \* the number of workers of the pool
    Sizes,       \* the number of stack sizes in STACK_FALLBACK, the largest first
    Codes        \* the exit codes the command can return

ASSUME CountsAssumption == Workers \in Nat /\ Sizes \in Nat
ASSUME CodesAssumption == Codes \cap {"none", "panic"} = {} /\ "failure" \in Codes

Command == Workers + 1
Tasks   == 1 .. Command

VARIABLES
    main,        \* what main does: "spawning", "spawned" (the spawn succeeded but
                 \* has not returned), "joining", "inline" or "ended"
    task,        \* the task it spawns
    tried,       \* the sizes refused to it
    slot,        \* the job of each task: "job", or "empty"
    thread,      \* "none", "started", "running" or "ended"
    pool,        \* "starting", "ready" or "failed"
    warned,      \* lines note_stack printed
    result,      \* what the command came to: a code or "panic", else "none"
    exit         \* what main returns or panics with

vars == <<main, task, tried, slot, thread, pool, warned, result, exit>>

Init ==
    /\ main = "spawning"
    /\ task = 1
    /\ tried = 0
    /\ slot = [t \in Tasks |-> "job"]
    /\ thread = [t \in Tasks |-> "none"]
    /\ pool = IF Workers = 0 THEN "ready" ELSE "starting"
    /\ warned = 0
    /\ result = "none"
    /\ exit = "none"

(* note_stack: one line per process, when a thread got less than it wanted *)
Warned(short) == IF short THEN 1 ELSE warned

(* Fault: an attempt takes the job along when it is made. *)
RefusedConsumes ==
    /\ main = "spawning" /\ tried < Sizes
    /\ tried' = tried + 1
    /\ slot' = [slot EXCEPT ![task] = "empty"]
    /\ UNCHANGED <<main, task, thread, pool, warned, result, exit>>
(* The host refuses this size: the attempt's closure is dropped unrun. *)
Refused ==
    /\ main = "spawning" /\ tried < Sizes
    /\ tried' = tried + 1
    /\ UNCHANGED <<main, task, slot, thread, pool, warned, result, exit>>

(* The host grants it. *)
Accepted ==
    /\ main = "spawning" /\ tried < Sizes
    /\ main' = "spawned"
    /\ thread' = [thread EXCEPT ![task] = "started"]
    /\ UNCHANGED <<task, tried, slot, pool, warned, result, exit>>

(* The spawn returns: rayon asks for the next worker, main for the command *)
(* thread after the last one, and then joins it.                           *)
Returned ==
    /\ main = "spawned"
    /\ warned' = Warned(tried > 0)
    /\ IF task = Command
       THEN main' = "joining" /\ UNCHANGED <<task, tried, pool>>
       ELSE /\ main' = "spawning"
            /\ task' = task + 1
            /\ tried' = 0
            /\ pool' = IF task = Workers THEN "ready" ELSE pool
    /\ UNCHANGED <<slot, thread, result, exit>>

(* Every size was refused to a worker: the pool is not built, and never    *)
(* will be.                                                                *)
PoolFails ==
    /\ main = "spawning" /\ tried = Sizes /\ task < Command
    /\ pool' = "failed"
    /\ task' = Command
    /\ tried' = 0
    /\ slot' = [slot EXCEPT ![task] = "empty"]
    /\ UNCHANGED <<main, thread, warned, result, exit>>

(* Fault: main reports a failure instead of running the command itself. *)
GiveUp ==
    /\ main = "spawning" /\ tried = Sizes /\ task = Command
    /\ main' = "ended"
    /\ exit' = "failure"
    /\ warned' = 1
    /\ UNCHANGED <<task, tried, slot, thread, pool, result>>
(* Every size was refused to the command: it runs on main's own stack, as  *)
(* a fresh call of the fn; the job in the slot is dropped.                 *)
RunInline ==
    /\ main = "spawning" /\ tried = Sizes /\ task = Command
    /\ main' = "inline"
    /\ slot' = [slot EXCEPT ![task] = "empty"]
    /\ warned' = Warned(TRUE)
    /\ UNCHANGED <<task, tried, thread, pool, result, exit>>

(* A started thread takes its job; one that finds none just ends. *)
Take(t) ==
    /\ thread[t] = "started"
    /\ thread' = [thread EXCEPT ![t] = IF slot[t] = "job" THEN "running" ELSE "ended"]
    /\ slot' = [slot EXCEPT ![t] = "empty"]
    /\ UNCHANGED <<main, task, tried, pool, warned, result, exit>>

(* A worker leaves its loop once building the pool has failed. *)
WorkerEnds(t) ==
    /\ t < Command /\ thread[t] = "running" /\ pool = "failed"
    /\ thread' = [thread EXCEPT ![t] = "ended"]
    /\ UNCHANGED <<main, task, tried, slot, pool, warned, result, exit>>

(* The command returns a code or panics, on its thread or on main. *)
CommandEnds ==
    /\ result = "none"
    /\ thread[Command] = "running" \/ main = "inline"
    /\ result' \in Codes \cup {"panic"}
    /\ thread' = IF main = "inline" THEN thread ELSE [thread EXCEPT ![Command] = "ended"]
    /\ UNCHANGED <<main, task, tried, slot, pool, warned, exit>>

(* join: a panic goes on, a code is returned, none is a failure. *)
Exit ==
    /\ \/ main = "joining" /\ thread[Command] = "ended"
       \/ main = "inline" /\ result # "none"
    /\ main' = "ended"
    /\ exit' = IF result = "none" THEN "failure" ELSE result
    /\ UNCHANGED <<task, tried, slot, thread, pool, warned, result>>

Ended == main = "ended" /\ UNCHANGED vars

MainStep == Refused \/ Accepted \/ Returned \/ PoolFails \/ RunInline \/ Exit

Next == MainStep \/ CommandEnds \/ Ended
        \/ \E t \in Tasks : Take(t) \/ WorkerEnds(t)

(* Threads are scheduled and main goes on; the command need not end. *)
Spec == Init /\ [][Next]_vars /\ WF_vars(MainStep) /\ WF_vars(Take(Command))

----------------------------------------------------------------------------
TypeOK ==
    /\ main \in {"spawning", "spawned", "joining", "inline", "ended"}
    /\ task \in Tasks
    /\ tried \in 0 .. Sizes
    /\ slot \in [Tasks -> {"job", "empty"}]
    /\ thread \in [Tasks -> {"none", "started", "running", "ended"}]
    /\ pool \in {"starting", "ready", "failed"}
    /\ warned \in {0, 1}
    /\ result \in Codes \cup {"none", "panic"}
    /\ exit \in Codes \cup {"none", "panic"}

(* What the process is to its caller: the command starts once and the exit *)
(* is what that run came to.                                               *)
phase == IF exit # "none" THEN "reported"
         ELSE IF result # "none" THEN "finished"
         ELSE IF thread[Command] = "running" \/ main = "inline" THEN "running"
         ELSE "waiting"

Once == INSTANCE RunsOnce WITH Outcomes <- Codes \cup {"panic"},
                               outcome <- IF exit = "none" THEN result ELSE exit

(* Whatever sizes the host refuses to whichever thread, and however early  *)
(* or late the threads run, the command is run exactly once and its code   *)
(* or panic is what the process ends with (run_command_thread_with,        *)
(* spawn_fallback).                                                        *)
ImplementsRunsOnce == Once!Spec

(* A pool that reports itself built has a thread for every worker, and     *)
(* each still has its loop to run or is running it: no fallback lost a     *)
(* worker's job (spawn_pool_thread_with).                                  *)
PoolIsWhole ==
    pool = "ready" => \A t \in 1 .. Workers :
        \/ thread[t] = "started" /\ slot[t] = "job"
        \/ thread[t] = "running"
=============================================================================
