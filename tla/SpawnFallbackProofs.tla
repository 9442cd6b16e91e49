------------------------- MODULE SpawnFallbackProofs -------------------------
(***************************************************************************)
(* SpawnFallback for every number of workers and of stack sizes: it is     *)
(* well typed, a pool that is ready has all its workers, and it runs the   *)
(* command once, as RunsOnce promises.                                     *)
(***************************************************************************)
EXTENDS SpawnFallback, TLAPS

(* How far the command is, by what main does.                              *)
CommandInv ==
    /\ main = "spawning" \/ (main = "spawned" /\ task # Command)
         => thread[Command] = "none" /\ slot[Command] = "job" /\ result = "none"
    /\ (main = "spawned" /\ task = Command) \/ main = "joining"
         => /\ thread[Command] \in {"started", "running", "ended"}
            /\ thread[Command] = "started" => slot[Command] = "job"
            /\ thread[Command] = "ended" <=> result # "none"
    /\ main = "inline" => thread[Command] = "none"
    /\ main = "joining" => task = Command
    /\ main # "ended" <=> exit = "none"
    /\ main = "ended" => /\ result # "none"
                         /\ exit = result
                         /\ thread[Command] \in {"none", "ended"}

(* How far the workers are, by the task main spawns.                       *)
WorkerInv ==
    /\ pool = "starting" => task < Command
    /\ pool = "ready" => task = Command
    /\ pool = "failed" => task = Command
    /\ \A t \in 1 .. Workers :
         /\ t > task \/ (t = task /\ main = "spawning") => thread[t] = "none" /\ slot[t] = "job"
         /\ (t < task \/ (t = task /\ main # "spawning")) /\ pool # "failed"
              => \/ thread[t] = "started" /\ slot[t] = "job"
                 \/ thread[t] = "running"
    /\ task < Command => main \in {"spawning", "spawned"}

IInv == TypeOK /\ CommandInv /\ WorkerInv

LEMMA CommandIsATask == Command \in Tasks /\ Command \in Nat /\ Workers = Command - 1
BY CountsAssumption DEF Command, Tasks

LEMMA InitEstablishes == Init => IInv
BY CountsAssumption, CodesAssumption, CommandIsATask
DEF Init, IInv, TypeOK, CommandInv, WorkerInv, Tasks, Command

LEMMA StepPreservesType == IInv /\ [Next]_vars => TypeOK'
<1> SUFFICES ASSUME IInv, [Next]_vars PROVE TypeOK'
  OBVIOUS
<1> USE CountsAssumption, CodesAssumption, CommandIsATask DEF IInv, TypeOK
<1>1. CASE Refused BY <1>1 DEF Refused
<1>2. CASE Accepted BY <1>2 DEF Accepted
<1>3. CASE Returned BY <1>3 DEF Returned, Warned, Tasks, Command
<1>4. CASE PoolFails BY <1>4 DEF PoolFails
<1>5. CASE RunInline BY <1>5 DEF RunInline, Warned
<1>6. CASE Exit BY <1>6 DEF Exit
<1>7. CASE CommandEnds BY <1>7 DEF CommandEnds
<1>8. ASSUME NEW t \in Tasks, Take(t) PROVE TypeOK' BY <1>8 DEF Take
<1>9. ASSUME NEW t \in Tasks, WorkerEnds(t) PROVE TypeOK' BY <1>9 DEF WorkerEnds
<1>10. CASE UNCHANGED vars BY <1>10 DEF vars
<1> QED BY <1>1, <1>2, <1>3, <1>4, <1>5, <1>6, <1>7, <1>8, <1>9, <1>10 DEF Next, MainStep, Ended

LEMMA StepPreservesCommand == IInv /\ [Next]_vars => CommandInv'
<1> SUFFICES ASSUME IInv, [Next]_vars PROVE CommandInv'
  OBVIOUS
<1> USE CountsAssumption, CodesAssumption, CommandIsATask DEF IInv, TypeOK, CommandInv
<1>1. CASE Refused BY <1>1 DEF Refused
<1>2. CASE Accepted BY <1>2 DEF Accepted
<1>3. CASE Returned BY <1>3 DEF Returned
<1>4. CASE PoolFails BY <1>4 DEF PoolFails
<1>5. CASE RunInline BY <1>5 DEF RunInline
<1>6. CASE Exit BY <1>6 DEF Exit
<1>7. CASE CommandEnds BY <1>7 DEF CommandEnds
<1>8. ASSUME NEW t \in Tasks, Take(t) PROVE CommandInv' BY <1>8 DEF Take
<1>9. ASSUME NEW t \in Tasks, WorkerEnds(t) PROVE CommandInv' BY <1>9 DEF WorkerEnds
<1>10. CASE UNCHANGED vars BY <1>10 DEF vars
<1> QED BY <1>1, <1>2, <1>3, <1>4, <1>5, <1>6, <1>7, <1>8, <1>9, <1>10 DEF Next, MainStep, Ended

LEMMA StepPreservesWorkers == IInv /\ [Next]_vars => WorkerInv'
<1> SUFFICES ASSUME IInv, [Next]_vars PROVE WorkerInv'
  OBVIOUS
<1> USE CountsAssumption, CommandIsATask DEF IInv, TypeOK, WorkerInv, Tasks, Command
<1>1. CASE Refused BY <1>1 DEF Refused
<1>2. CASE Accepted BY <1>2 DEF Accepted
<1>3. CASE Returned BY <1>3 DEF Returned
<1>4. CASE PoolFails BY <1>4 DEF PoolFails
<1>5. CASE RunInline BY <1>5 DEF RunInline
<1>6. CASE Exit BY <1>6 DEF Exit, CommandInv
<1>7. CASE CommandEnds BY <1>7 DEF CommandEnds
<1>8. ASSUME NEW t \in Tasks, Take(t) PROVE WorkerInv' BY <1>8 DEF Take
<1>9. ASSUME NEW t \in Tasks, WorkerEnds(t) PROVE WorkerInv' BY <1>9 DEF WorkerEnds
<1>10. CASE UNCHANGED vars BY <1>10 DEF vars
<1> QED BY <1>1, <1>2, <1>3, <1>4, <1>5, <1>6, <1>7, <1>8, <1>9, <1>10 DEF Next, MainStep, Ended

(* Every reachable state: how far the command and the workers are is what  *)
(* main is doing (run_command_thread_with, configure_global_pool).         *)
THEOREM Inductive == Spec => []IInv
<1>1. IInv /\ [Next]_vars => IInv'
  BY StepPreservesType, StepPreservesCommand, StepPreservesWorkers DEF IInv
<1> QED BY InitEstablishes, <1>1, PTL DEF Spec

(* Every reachable state is well typed.                                    *)
THEOREM TypeCorrect == Spec => []TypeOK
<1>1. IInv => TypeOK BY DEF IInv
<1> QED BY <1>1, Inductive, PTL

(* A pool reported as built has a thread with its loop for every worker    *)
(* (spawn_pool_thread_with).                                               *)
THEOREM ReadyPoolIsWhole == Spec => []PoolIsWhole
<1>1. IInv => PoolIsWhole
  BY CountsAssumption, CommandIsATask DEF IInv, TypeOK, WorkerInv, PoolIsWhole, Tasks, Command
<1> QED BY <1>1, Inductive, PTL

LEMMA StepRefines ==
    IInv /\ IInv' /\ [Next]_vars
      => [Once!Next]_<<phase, IF exit = "none" THEN result ELSE exit>>
<1> SUFFICES ASSUME IInv, IInv', [Next]_vars
             PROVE  [Once!Next]_<<phase, IF exit = "none" THEN result ELSE exit>>
  OBVIOUS
<1> USE CodesAssumption, CommandIsATask
    DEF IInv, TypeOK, CommandInv, phase, Once!Next, Once!Start, Once!Finish, Once!Report
<1>1. CASE Refused BY <1>1 DEF Refused
<1>2. CASE Accepted BY <1>2 DEF Accepted
<1>3. CASE Returned BY <1>3 DEF Returned
<1>4. CASE PoolFails BY <1>4 DEF PoolFails
<1>5. CASE RunInline BY <1>5 DEF RunInline
<1>6. CASE Exit BY <1>6 DEF Exit
<1>7. CASE CommandEnds BY <1>7 DEF CommandEnds
<1>8. ASSUME NEW t \in Tasks, Take(t)
      PROVE  [Once!Next]_<<phase, IF exit = "none" THEN result ELSE exit>>
  BY <1>8 DEF Take
<1>9. ASSUME NEW t \in Tasks, WorkerEnds(t)
      PROVE  [Once!Next]_<<phase, IF exit = "none" THEN result ELSE exit>>
  BY <1>9 DEF WorkerEnds
<1>10. CASE UNCHANGED vars BY <1>10 DEF vars
<1> QED BY <1>1, <1>2, <1>3, <1>4, <1>5, <1>6, <1>7, <1>8, <1>9, <1>10 DEF Next, MainStep, Ended

(* However the host refuses stacks and however the threads interleave, the *)
(* command starts at most once, and the exit is what that run came to: the *)
(* safety part of ImplementsRunsOnce.                                      *)
THEOREM RunsTheCommandOnce == Spec => Once!Safe
<1>1. Init => Once!Init
  BY CodesAssumption, CommandIsATask DEF Init, phase, Once!Init
<1> QED BY <1>1, StepRefines, Inductive, PTL DEF Spec, Once!Safe
=============================================================================
