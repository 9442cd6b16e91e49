-------------------------------- MODULE Sidecar --------------------------------
(***************************************************************************)
(* The Ruby sidecar (crates/rigor-cli/src/sidecar.rs and sidecar.rb): a      *)
(* child process that executes constant folds.  One run spawns it, waits     *)
(* for its handshake with a timeout, and shares it between the threads that  *)
(* analyse files: a Mutex around the request/reply channel and the memo.     *)
(* The child may exit at any moment, in the middle of a line too, or answer  *)
(* nothing at all.                                                           *)
(***************************************************************************)
EXTENDS Naturals, Sequences

CONSTANTS
  Threads,       \* the threads that analyse files
  Folds,         \* the calls (receiver, method, arguments) to be folded
  Ruby,          \* a function: what Ruby answers for each, Declined included
  Declined,      \* None: the call is typed without a constant
  Ready, Cut,    \* lines other than answers: a usable handshake, and what parses
                 \* as nothing (a partial line, another protocol version)
  Nobody,
  MaxCalls       \* bound: the folds one thread asks for

ASSUME RubyAssumption ==
  /\ DOMAIN Ruby = Folds
  /\ Cut \notin {Ruby[k] : k \in Folds} \union {Ready}
  /\ Nobody \notin Threads
  /\ MaxCalls \in Nat

VARIABLES
  mode,          \* the coverage posture asked for
  posture,       \* the one the run is in
  child,         \* the Ruby process
  stdin, stdout, \* its pipes: the folds asked and the lines answered
  handshake,     \* what the reading thread sent to the channel of spawn
  dead,          \* Sidecar.dead
  memo,          \* FolderState.memo
  holder,        \* the thread that holds the Mutex
  pc, fold,      \* of each thread: where it is and which fold it is in
  left,          \* the folds it has still to ask for
  asked,         \* history: how often each fold went to the child
  given          \* history: the answers handed to the analysis

childVars == <<child, stdin, stdout>>
folderVars == <<dead, memo, holder, pc, fold, left, asked, given>>
vars == <<mode, posture, childVars, handshake, folderVars>>

Answers == {Ruby[k] : k \in Folds} \union {Declined}
Lines == {Ruby[k] : k \in Folds} \union {Ready, Cut}

Init ==
  /\ mode \in {"off", "auto", "require", "lsp"}
  /\ posture = IF mode = "off" THEN "subset" ELSE "probing"
  /\ child = "none"
  /\ stdin = << >> /\ stdout = << >>
  /\ handshake = "pending"
  /\ dead = FALSE
  /\ memo = << >>
  /\ holder = Nobody
  /\ pc = [t \in Threads |-> "idle"]
  /\ fold \in [Threads -> Folds]
  /\ left = [t \in Threads |-> MaxCalls]
  /\ asked = [k \in Folds |-> 0]
  /\ given = {}
--------------------------------------------------------------------------------
(* The child *)

\* It writes its handshake, a usable one or not, and starts its request loop.
Greet ==
  /\ child = "starting"
  /\ child' = "running"
  /\ \E line \in {Ready, Cut} : stdout' = Append(stdout, line)
  /\ UNCHANGED <<mode, posture, stdin, handshake, folderVars>>

\* It reads a request and answers it with one line.
Answer ==
  /\ child = "running" /\ stdin # << >>
  /\ stdin' = Tail(stdin)
  /\ stdout' = Append(stdout, Ruby[Head(stdin)])
  /\ UNCHANGED <<mode, posture, child, handshake, folderVars>>

\* It dies, between two lines or in the middle of one; what it wrote can still be
\* read.
Exit ==
  /\ child \in {"starting", "running"}
  /\ child' = "exited"
  /\ stdin' = << >>
  /\ \/ UNCHANGED stdout
     \/ stdout' = Append(stdout, Cut)
  /\ UNCHANGED <<mode, posture, handshake, folderVars>>
--------------------------------------------------------------------------------
(* Sidecar::spawn, as build_sidecar_folder and rigor lsp call it *)

\* The posture of a run whose sidecar cannot be brought up.
WithoutSidecar == IF mode = "require" THEN "refused" ELSE "subset"

Spawn ==
  /\ posture = "probing" /\ child = "none"
  /\ \/ child' = "starting" /\ UNCHANGED posture
     \/ posture' = WithoutSidecar /\ UNCHANGED child
  /\ UNCHANGED <<mode, stdin, stdout, handshake, folderVars>>

\* read_handshake, on the reading thread: one line or the end of the pipe
ReadHandshake ==
  /\ posture = "probing" /\ handshake = "pending" /\ child # "none"
  /\ stdout # << >> \/ child = "exited"
  /\ handshake' = IF stdout # << >> /\ Head(stdout) = Ready THEN "usable" ELSE "unusable"
  /\ stdout' = IF stdout = << >> THEN stdout ELSE Tail(stdout)
  /\ UNCHANGED <<mode, posture, child, stdin, folderVars>>

\* Failing, spawn kills and reaps the child.
GiveUp ==
  /\ posture' = WithoutSidecar
  /\ child' = "reaped" /\ stdin' = << >>
  /\ UNCHANGED <<mode, stdout, handshake, folderVars>>

\* recv_timeout returns: with what the reading thread sent ...
Receive ==
  /\ posture = "probing" /\ handshake # "pending"
  /\ IF handshake = "usable"
     THEN posture' = "full" /\ UNCHANGED <<mode, childVars, handshake, folderVars>>
     ELSE GiveUp

\* Fault: the handshake is awaited without a timeout.
NoTimeOut == FALSE /\ UNCHANGED vars

\* ... or with nothing.
TimeOut ==
  /\ posture = "probing" /\ child # "none" /\ handshake = "pending"
  /\ GiveUp
--------------------------------------------------------------------------------
(* SidecarFolder::fold *)

\* A thread reaches a call that is sidecar_foldable.
Call(t, k) ==
  /\ posture = "full" /\ pc[t] = "idle" /\ left[t] > 0
  /\ pc' = [pc EXCEPT ![t] = "locking"]
  /\ fold' = [fold EXCEPT ![t] = k]
  /\ left' = [left EXCEPT ![t] = @ - 1]
  /\ UNCHANGED <<mode, posture, childVars, handshake, dead, memo, holder, asked, given>>

\* Thread t leaves with the answer for its fold, and the Mutex is free.
Return(t, answer) ==
  /\ holder' = Nobody
  /\ pc' = [pc EXCEPT ![t] = "idle"]
  /\ given' = given \union {<<fold[t], answer>>}
  /\ UNCHANGED <<fold, left>>

Memoised(k, answer) ==
  [j \in DOMAIN memo \union {k} |-> IF j = k THEN answer ELSE memo[j]]

\* Fault: only answers are remembered, not refusals.
ConcludeForgettingRefusals(t, answer) ==
  /\ memo' = IF answer = Declined THEN memo ELSE Memoised(fold[t], answer)
  /\ Return(t, answer)

\* Sidecar::fold is over: its result is remembered, a refusal too.
Conclude(t, answer) ==
  /\ memo' = Memoised(fold[t], answer)
  /\ Return(t, answer)

\* Fault: a dead child is noticed before the memo is asked.
LockDeadFirst(t) ==
  /\ pc[t] = "locking" /\ holder = Nobody
  /\ IF dead THEN Conclude(t, Declined) /\ UNCHANGED <<dead, asked>>
     ELSE IF fold[t] \in DOMAIN memo
     THEN Return(t, memo[fold[t]]) /\ UNCHANGED <<dead, memo, asked>>
     ELSE /\ holder' = t
          /\ pc' = [pc EXCEPT ![t] = "sending"]
          /\ UNCHANGED <<dead, memo, fold, left, asked, given>>
  /\ UNCHANGED <<mode, posture, childVars, handshake>>

\* It takes the Mutex, asks the memo, then whether the child is known dead.
Lock(t) ==
  /\ pc[t] = "locking" /\ holder = Nobody
  /\ IF fold[t] \in DOMAIN memo
     THEN Return(t, memo[fold[t]]) /\ UNCHANGED <<dead, memo, asked>>
     ELSE IF dead THEN Conclude(t, Declined) /\ UNCHANGED <<dead, asked>>
     ELSE /\ holder' = t
          /\ pc' = [pc EXCEPT ![t] = "sending"]
          /\ UNCHANGED <<dead, memo, fold, left, asked, given>>
  /\ UNCHANGED <<mode, posture, childVars, handshake>>

\* Fault: the Mutex is released while the answer is awaited.
SendUnlocking(t) ==
  /\ pc[t] = "sending" /\ child = "running"
  /\ stdin' = Append(stdin, fold[t])
  /\ asked' = [asked EXCEPT ![fold[t]] = @ + 1]
  /\ pc' = [pc EXCEPT ![t] = "reading"]
  /\ holder' = Nobody
  /\ UNCHANGED <<mode, posture, child, stdout, handshake, dead, memo, fold, left, given>>

\* request: the line is written, or the pipe is broken
Send(t) ==
  /\ pc[t] = "sending"
  /\ IF child = "running"
     THEN /\ stdin' = Append(stdin, fold[t])
          /\ asked' = [asked EXCEPT ![fold[t]] = @ + 1]
          /\ pc' = [pc EXCEPT ![t] = "reading"]
          /\ UNCHANGED <<dead, memo, holder, fold, left, given>>
     ELSE /\ dead' = TRUE
          /\ Conclude(t, Declined)
          /\ UNCHANGED <<stdin, asked>>
  /\ UNCHANGED <<mode, posture, child, stdout, handshake>>

\* Fault: the end of the pipe is read again and again.
ReadRetryingAtEnd(t) ==
  /\ pc[t] = "reading" /\ stdout # << >>
  /\ stdout' = Tail(stdout)
  /\ IF Head(stdout) = Cut
     THEN dead' = TRUE /\ Conclude(t, Declined)
     ELSE Conclude(t, Head(stdout)) /\ UNCHANGED dead
  /\ UNCHANGED <<mode, posture, child, stdin, handshake, asked>>

\* One line is read and parsed; the end of the pipe and what does not parse mark
\* the child dead for good.
Read(t) ==
  /\ pc[t] = "reading" /\ (stdout # << >> \/ child = "exited")
  /\ stdout' = IF stdout = << >> THEN stdout ELSE Tail(stdout)
  /\ IF stdout = << >> \/ Head(stdout) = Cut
     THEN dead' = TRUE /\ Conclude(t, Declined)
     ELSE Conclude(t, Head(stdout)) /\ UNCHANGED dead
  /\ UNCHANGED <<mode, posture, child, stdin, handshake, asked>>

\* The files are analysed and the Sidecar is dropped.
Drop ==
  /\ posture = "full" /\ \A t \in Threads : pc[t] = "idle"
  /\ posture' = "done"
  /\ child' = "reaped" /\ stdin' = << >>
  /\ UNCHANGED <<mode, stdout, handshake, folderVars>>
--------------------------------------------------------------------------------
Analyse(t) == (\E k \in Folds : Call(t, k)) \/ Lock(t) \/ Send(t) \/ Read(t)
Starting == Spawn \/ ReadHandshake \/ Receive \/ TimeOut

Next ==
  \/ Greet \/ Answer \/ Exit
  \/ Starting
  \/ \E t \in Threads : Analyse(t)
  \/ Drop

Spec == Init /\ [][Next]_vars

\* Every thread runs on.  The Mutex need not be fair: a file has finitely many
\* calls, so the others stop taking it.
ThreadFairness ==
  /\ WF_vars(Starting)
  /\ \A t \in Threads : WF_vars(Lock(t) \/ Send(t) \/ Read(t))

\* Nothing is assumed of Ruby: it may hang.
HungSpec == Spec /\ ThreadFairness

\* Ruby answers what it is asked, or dies.
FairSpec == Spec /\ ThreadFairness /\ WF_vars(Answer)
--------------------------------------------------------------------------------
(* Properties *)

TypeOK ==
  /\ posture \in {"probing", "full", "subset", "refused", "done"}
  /\ child \in {"none", "starting", "running", "exited", "reaped"}
  /\ stdin \in Seq(Folds) /\ stdout \in Seq(Lines)
  /\ handshake \in {"pending", "usable", "unusable"}
  /\ dead \in BOOLEAN
  /\ DOMAIN memo \subseteq Folds /\ \A k \in DOMAIN memo : memo[k] \in Answers
  /\ holder \in Threads \union {Nobody}
  /\ pc \in [Threads -> {"idle", "locking", "sending", "reading"}]
  /\ fold \in [Threads -> Folds]
  /\ left \in [Threads -> 0 .. MaxCalls]
  /\ asked \in [Folds -> Nat]
  /\ given \subseteq Folds \X Answers

(***************************************************************************)
(* What a thread is given for a fold is what Ruby answers for that fold, or *)
(* a refusal: never the answer to another thread's fold, nor a left-over    *)
(* line of a handshake or of a call that failed.                            *)
(***************************************************************************)
AnswersAreRuby == \A g \in given : g[2] \in {Ruby[g[1]], Declined}

(***************************************************************************)
(* A fold is answered the same way all through the run, whichever thread    *)
(* asks and whether the child has died in between: two files never          *)
(* disagree on the type of one literal call.                                *)
(***************************************************************************)
AnswersAreStable == \A g, h \in given : g[1] = h[1] => g[2] = h[2]

(***************************************************************************)
(* "The memo collapses repeated folds to a single round trip", refused ones *)
(* included, for all the threads together.                                  *)
(***************************************************************************)
OneRoundTrip == \A k \in Folds : asked[k] <= 1

(***************************************************************************)
(* A run gets started, or refused, even when Ruby hangs before or during    *)
(* its handshake.                                                           *)
(***************************************************************************)
StartEnds == posture = "probing" ~> posture # "probing"

(***************************************************************************)
(* Every fold returns, the thread that asked goes on with its file.         *)
(***************************************************************************)
FoldsReturn == \A t \in Threads : pc[t] # "idle" ~> pc[t] = "idle"

(***************************************************************************)
(* ADR-0008: a worker crash "is caught as EOF; the call declines and the    *)
(* worker respawns": it costs the one call it interrupts.                   *)
(***************************************************************************)
CrashCostsOneCall ==
  \A j, k \in DOMAIN memo :
    memo[j] # Ruby[j] /\ memo[k] # Ruby[k] => j = k
================================================================================
