------------------------------ MODULE SidecarProofs ------------------------------
(***************************************************************************)
(* Sidecar for every set of threads, of folds and of answers: what a       *)
(* thread is given for a fold is what Ruby answers for it or a refusal, it *)
(* is the same for every thread and at every time, and each fold goes to   *)
(* the child once at most.                                                 *)
(*                                                                         *)
(* One reply channel serves all the threads, so the properties need to     *)
(* know what is in the pipes: with nobody reading nothing is asked and     *)
(* nothing can be read but the end of a child that died; and while a       *)
(* thread reads, what lies in the pipes is about its fold.                 *)
(***************************************************************************)
EXTENDS Sidecar, SequenceTheorems, TLAPS

Reading(t) == pc[t] = "reading"
Quiet      == \A t \in Threads : ~ Reading(t)

(* The Mutex is held by the thread between its lookup and its reply, and   *)
(* only a run with a usable child has threads in a fold.                   *)
MutexInv ==
    /\ \A t \in Threads : holder = t <=> pc[t] \in {"sending", "reading"}
    /\ \A t \in Threads : pc[t] # "idle" => posture = "full"
    /\ posture \in {"full", "done"} => handshake = "usable"

(* The pipes before the handshake is read, ...                             *)
BeforeHandshake ==
    /\ child \in {"none", "starting"} => stdout = << >>
    /\ child = "running" => stdout = <<Ready>> \/ stdout = <<Cut>>
    /\ \/ stdout = << >> \/ stdout = <<Ready>> \/ stdout = <<Cut>>
       \/ stdout = <<Ready, Cut>> \/ stdout = <<Cut, Cut>>
(* ... between two folds, ...                                              *)
BetweenFolds ==
    /\ child \in {"running", "exited", "reaped"}
    /\ stdout = << >> \/ (stdout = <<Cut>> /\ child # "running")
(* ... and while thread t waits for its reply.                             *)
Waiting(t) ==
    /\ child \in {"running", "exited"}
    /\ \/ child = "running" /\ stdin = <<fold[t]>> /\ stdout = << >>
       \/ stdin = << >> /\ stdout = <<Ruby[fold[t]]>>
       \/ /\ child = "exited" /\ stdin = << >>
          /\ \/ stdout = << >> \/ stdout = <<Cut>> \/ stdout = <<Ruby[fold[t]], Cut>>

PipeInv ==
    /\ Quiet => stdin = << >>
    /\ handshake = "pending" => BeforeHandshake
    /\ handshake = "usable" /\ Quiet => BetweenFolds
    /\ \A t \in Threads : Reading(t) => Waiting(t)

(* What was given is in the memo, and what was asked is there too or is    *)
(* being waited for.                                                       *)
MemoInv ==
    /\ \A k \in DOMAIN memo : memo[k] \in {Ruby[k], Declined}
    /\ \A g \in given : g[1] \in DOMAIN memo /\ g[2] = memo[g[1]]
    /\ \A t \in Threads : pc[t] \in {"sending", "reading"} => fold[t] \notin DOMAIN memo
    /\ \A k \in Folds : asked[k] = 0 \/ (asked[k] = 1 /\ (k \in DOMAIN memo
                                            \/ \E t \in Threads : Reading(t) /\ fold[t] = k))

IInv == TypeOK /\ MutexInv /\ PipeInv /\ MemoInv

----------------------------------------------------------------------------
(* Short sequences.                                                        *)

LEMMA AppendToEmpty ==
    ASSUME NEW S, NEW a \in S
    PROVE  Append(<< >>, a) = <<a>>
<1>1. << >> \in Seq(S) OBVIOUS
<1>2. <<a>> \in Seq(S) /\ Len(<<a>>) = 1 /\ <<a>>[1] = a OBVIOUS
<1>3. Append(<< >>, a) \in Seq(S) /\ Len(Append(<< >>, a)) = 1 /\ Append(<< >>, a)[1] = a
  BY <1>1, AppendProperties
<1> QED BY <1>2, <1>3, SeqEqual

LEMMA AppendToOne ==
    ASSUME NEW S, NEW a \in S, NEW b \in S
    PROVE  Append(<<a>>, b) = <<a, b>>
<1>1. <<a>> \in Seq(S) /\ Len(<<a>>) = 1 /\ <<a>>[1] = a OBVIOUS
<1>2. <<a, b>> \in Seq(S) /\ Len(<<a, b>>) = 2 /\ <<a, b>>[1] = a /\ <<a, b>>[2] = b OBVIOUS
<1>3. /\ Append(<<a>>, b) \in Seq(S) /\ Len(Append(<<a>>, b)) = 2
      /\ Append(<<a>>, b)[1] = a /\ Append(<<a>>, b)[2] = b
  BY <1>1, AppendProperties
<1>4. \A i \in 1 .. 2 : Append(<<a>>, b)[i] = <<a, b>>[i]
  BY <1>2, <1>3
<1> QED BY <1>2, <1>3, <1>4, SeqEqual

LEMMA EndsOfShort ==
    ASSUME NEW S, NEW a \in S, NEW b \in S
    PROVE  /\ <<a>> # << >> /\ Head(<<a>>) = a /\ Tail(<<a>>) = << >>
           /\ <<a, b>> # << >> /\ Head(<<a, b>>) = a /\ Tail(<<a, b>>) = <<b>>
OBVIOUS

LEMMA LineTypes == /\ Ready \in Lines /\ Cut \in Lines
                   /\ \A k \in Folds : Ruby[k] \in Lines /\ Ruby[k] # Cut
                   /\ Ready # Cut /\ Nobody \notin Threads
BY RubyAssumption DEF Lines

(* What the steps do to the pipes, in the cases that occur.                *)
LEMMA ShortLines ==
    /\ \A l \in Lines : /\ Append(<< >>, l) = <<l>> /\ Append(<<l>>, Cut) = <<l, Cut>>
                        /\ <<l>> # << >> /\ Head(<<l>>) = l /\ Tail(<<l>>) = << >>
                        /\ <<l, Cut>> # << >> /\ Head(<<l, Cut>>) = l /\ Tail(<<l, Cut>>) = <<Cut>>
    /\ \A k \in Folds : /\ Append(<< >>, k) = <<k>>
                        /\ <<k>> # << >> /\ Head(<<k>>) = k /\ Tail(<<k>>) = << >>
<1>1. \A l \in Lines : Append(<< >>, l) = <<l>> /\ Append(<<l>>, Cut) = <<l, Cut>>
  BY AppendToEmpty, AppendToOne, LineTypes
<1>2. \A l \in Lines : /\ <<l>> # << >> /\ Head(<<l>>) = l /\ Tail(<<l>>) = << >>
                       /\ <<l, Cut>> # << >> /\ Head(<<l, Cut>>) = l /\ Tail(<<l, Cut>>) = <<Cut>>
  BY EndsOfShort, LineTypes
<1>3. \A k \in Folds : /\ Append(<< >>, k) = <<k>>
                       /\ <<k>> # << >> /\ Head(<<k>>) = k /\ Tail(<<k>>) = << >>
  BY AppendToEmpty, EndsOfShort
<1> QED BY <1>1, <1>2, <1>3

----------------------------------------------------------------------------
LEMMA InitEstablishes == Init => IInv
<1> SUFFICES ASSUME Init PROVE IInv
  OBVIOUS
<1>1. TypeOK
  <2>1. DOMAIN memo = {} BY DEF Init
  <2>2. stdin \in Seq(Folds) /\ stdout \in Seq(Lines) BY DEF Init
  <2>3. left \in [Threads -> 0 .. MaxCalls] BY RubyAssumption DEF Init
  <2>4. asked \in [Folds -> Nat] /\ pc \in [Threads -> {"idle", "locking", "sending", "reading"}]
    BY DEF Init
  <2> QED BY <2>1, <2>2, <2>3, <2>4 DEF Init, TypeOK
<1>2. MutexInv BY RubyAssumption DEF Init, MutexInv
<1>3. PipeInv BY DEF Init, PipeInv, Reading, Quiet, BeforeHandshake
<1>4. MemoInv
  <2>1. DOMAIN memo = {} BY DEF Init
  <2>2. asked = [k \in Folds |-> 0] /\ given = {} /\ pc = [t \in Threads |-> "idle"]
    BY DEF Init
  <2>3. \A t \in Threads : pc[t] = "idle" BY <2>2
  <2> QED BY <2>1, <2>2, <2>3 DEF MemoInv
<1> QED BY <1>1, <1>2, <1>3, <1>4 DEF IInv

(* The steps of Next, as the proofs split it.                              *)
LEMMA Cases ==
    ASSUME [Next]_vars, NEW P,
           Greet => P, Answer => P, Exit => P, Spawn => P, ReadHandshake => P,
           Receive => P, TimeOut => P, Drop => P, UNCHANGED vars => P,
           \A t \in Threads : (\E k \in Folds : Call(t, k)) => P,
           \A t \in Threads : Lock(t) => P,
           \A t \in Threads : Send(t) => P,
           \A t \in Threads : Read(t) => P
    PROVE  P
BY DEF Next, Starting, Analyse

(* A line is an answer of the memo only because of PipeInv: what Read takes *)
(* off the channel is not the greeting.                                     *)
LEMMA StepPreservesType == IInv /\ [Next]_vars => TypeOK'
<1> SUFFICES ASSUME IInv, [Next]_vars PROVE TypeOK'
  OBVIOUS
<1> USE LineTypes DEF IInv, TypeOK
<1>1. ASSUME Greet PROVE TypeOK' BY <1>1 DEF Greet, folderVars
<1>2. ASSUME Answer PROVE TypeOK' BY <1>2 DEF Answer, folderVars
<1>3. ASSUME Exit PROVE TypeOK'
  <2>1. << >> \in Seq(Folds) /\ Append(stdout, Cut) \in Seq(Lines)
    BY AppendProperties
  <2> QED BY <1>3, <2>1 DEF Exit, folderVars
<1>4. ASSUME Spawn PROVE TypeOK' BY <1>4 DEF Spawn, WithoutSidecar, folderVars
<1>5. ASSUME ReadHandshake PROVE TypeOK' BY <1>5 DEF ReadHandshake, folderVars
<1>6. ASSUME Receive PROVE TypeOK'
  <2>1. CASE handshake = "usable" BY <1>6, <2>1 DEF Receive, folderVars, childVars
  <2>2. CASE handshake # "usable" BY <1>6, <2>2 DEF Receive, GiveUp, WithoutSidecar, folderVars
  <2> QED BY <2>1, <2>2
<1>7. ASSUME TimeOut PROVE TypeOK' BY <1>7 DEF TimeOut, GiveUp, WithoutSidecar, folderVars
<1>8. ASSUME Drop PROVE TypeOK' BY <1>8 DEF Drop, folderVars
<1>9. ASSUME UNCHANGED vars PROVE TypeOK' BY <1>9 DEF vars, childVars, folderVars
<1>10. ASSUME NEW t \in Threads, \E k \in Folds : Call(t, k) PROVE TypeOK'
  BY <1>10, RubyAssumption DEF Call, childVars
<1>11. ASSUME NEW t \in Threads, NEW a \in Answers, Conclude(t, a)
       PROVE  /\ DOMAIN memo' \subseteq Folds /\ \A k \in DOMAIN memo' : memo'[k] \in Answers
              /\ holder' \in Threads \union {Nobody}
              /\ pc' \in [Threads -> {"idle", "locking", "sending", "reading"}]
              /\ fold' \in [Threads -> Folds]
              /\ left' \in [Threads -> 0 .. MaxCalls]
              /\ given' \subseteq Folds \X Answers
  BY <1>11 DEF Conclude, Memoised, Return
<1>12. ASSUME NEW t \in Threads, Lock(t) PROVE TypeOK'
  <2>1. CASE fold[t] \in DOMAIN memo
    <3>1. fold[t] \in Folds /\ memo[fold[t]] \in Answers BY <2>1
    <3>2. given' \subseteq Folds \X Answers BY <1>12, <2>1, <3>1 DEF Lock, Return
    <3> QED BY <1>12, <2>1, <3>2 DEF Lock, Return, childVars
  <2>2. CASE fold[t] \notin DOMAIN memo /\ dead
    <3>1. Conclude(t, Declined) /\ Declined \in Answers BY <1>12, <2>2 DEF Lock, Answers
    <3> QED BY <1>11, <1>12, <2>2, <3>1 DEF Lock, childVars
  <2>3. CASE fold[t] \notin DOMAIN memo /\ ~ dead BY <1>12, <2>3 DEF Lock, childVars
  <2> QED BY <2>1, <2>2, <2>3
<1>13. ASSUME NEW t \in Threads, Send(t) PROVE TypeOK'
  <2>1. CASE child = "running"
    <3>1. fold[t] \in Folds /\ asked[fold[t]] + 1 \in Nat OBVIOUS
    <3>2. Append(stdin, fold[t]) \in Seq(Folds) BY <3>1, AppendProperties
    <3>3. asked' \in [Folds -> Nat] BY <1>13, <2>1, <3>1 DEF Send
    <3> QED BY <1>13, <2>1, <3>2, <3>3 DEF Send
  <2>2. CASE child # "running"
    <3>1. Conclude(t, Declined) /\ Declined \in Answers BY <1>13, <2>2 DEF Send, Answers
    <3> QED BY <1>11, <1>13, <2>2, <3>1 DEF Send
  <2> QED BY <2>1, <2>2
<1>14. ASSUME NEW t \in Threads, Read(t) PROVE TypeOK'
  <2> DEFINE failed == stdout = << >> \/ Head(stdout) = Cut
             line   == IF failed THEN Declined ELSE Head(stdout)
  <2>1. stdout' \in Seq(Lines) BY <1>14 DEF Read
  <2>2. line \in Answers
    <3>1. CASE failed BY <3>1 DEF Answers
    <3>2. CASE ~ failed
      <4>1. PipeInv /\ Waiting(t) BY <1>14 DEF PipeInv, Read, Reading
      <4>2. fold[t] \in Folds /\ Head(stdout) = Ruby[fold[t]]
        BY <3>2, <4>1, ShortLines DEF Waiting
      <4> QED BY <3>2, <4>2 DEF Answers
    <3> QED BY <3>1, <3>2
  <2>3. Conclude(t, line) BY <1>14 DEF Read
  <2>4. dead' \in BOOLEAN BY <1>14 DEF Read
  <2> HIDE DEF line
  <2> QED BY <1>11, <1>14, <2>1, <2>2, <2>3, <2>4 DEF Read
<1> QED
  BY <1>1, <1>2, <1>3, <1>4, <1>5, <1>6, <1>7, <1>8, <1>9, <1>10, <1>12, <1>13, <1>14, Cases

LEMMA StepPreservesMutex == IInv /\ [Next]_vars => MutexInv'
<1> SUFFICES ASSUME IInv, [Next]_vars PROVE MutexInv'
  OBVIOUS
<1> USE LineTypes DEF IInv, MutexInv, TypeOK
<1>1. ASSUME Greet PROVE MutexInv' BY <1>1 DEF Greet, folderVars
<1>2. ASSUME Answer PROVE MutexInv' BY <1>2 DEF Answer, folderVars
<1>3. ASSUME Exit PROVE MutexInv' BY <1>3 DEF Exit, folderVars
<1>4. ASSUME Spawn PROVE MutexInv' BY <1>4 DEF Spawn, WithoutSidecar, folderVars
<1>5. ASSUME ReadHandshake PROVE MutexInv' BY <1>5 DEF ReadHandshake, folderVars
<1>6. ASSUME Receive PROVE MutexInv'
  <2>1. CASE handshake = "usable" BY <1>6, <2>1 DEF Receive, folderVars, childVars
  <2>2. CASE handshake # "usable" BY <1>6, <2>2 DEF Receive, GiveUp, WithoutSidecar, folderVars
  <2> QED BY <2>1, <2>2
<1>7. ASSUME TimeOut PROVE MutexInv' BY <1>7 DEF TimeOut, GiveUp, WithoutSidecar, folderVars
<1>8. ASSUME Drop PROVE MutexInv' BY <1>8 DEF Drop, folderVars
<1>9. ASSUME UNCHANGED vars PROVE MutexInv' BY <1>9 DEF vars, childVars, folderVars
<1>10. ASSUME NEW t \in Threads, \E k \in Folds : Call(t, k) PROVE MutexInv'
  BY <1>10 DEF Call, childVars
<1>11. ASSUME NEW t \in Threads, NEW a, Return(t, a), posture' = posture, handshake' = handshake,
              holder = t \/ holder = Nobody
       PROVE  MutexInv'
  BY <1>11 DEF Return
<1>12. ASSUME NEW t \in Threads, Lock(t) PROVE MutexInv'
  <2>1. CASE fold[t] \in DOMAIN memo BY <1>11, <1>12, <2>1 DEF Lock
  <2>2. CASE fold[t] \notin DOMAIN memo /\ dead BY <1>11, <1>12, <2>2 DEF Lock, Conclude
  <2>3. CASE fold[t] \notin DOMAIN memo /\ ~ dead BY <1>12, <2>3 DEF Lock, childVars
  <2> QED BY <2>1, <2>2, <2>3
<1>13. ASSUME NEW t \in Threads, Send(t) PROVE MutexInv'
  <2>1. CASE child = "running" BY <1>13, <2>1 DEF Send
  <2>2. CASE child # "running" BY <1>11, <1>13, <2>2 DEF Send, Conclude
  <2> QED BY <2>1, <2>2
<1>14. ASSUME NEW t \in Threads, Read(t) PROVE MutexInv'
  <2>1. holder = t BY <1>14 DEF Read
  <2> QED BY <1>11, <1>14, <2>1 DEF Read, Conclude
<1> QED
  BY <1>1, <1>2, <1>3, <1>4, <1>5, <1>6, <1>7, <1>8, <1>9, <1>10, <1>12, <1>13, <1>14, Cases

(* Where a fold's answer goes: into the memo before anybody else looks.    *)
LEMMA StepPreservesMemo == IInv /\ [Next]_vars => MemoInv'
<1> SUFFICES ASSUME IInv, [Next]_vars PROVE MemoInv'
  OBVIOUS
<1> USE LineTypes DEF IInv, TypeOK, MutexInv
<1>1. ASSUME UNCHANGED <<memo, given, pc, fold, asked>> PROVE MemoInv'
  BY <1>1 DEF MemoInv, Reading
<1>2. ASSUME Greet \/ Answer \/ Exit \/ Spawn \/ ReadHandshake \/ Receive \/ TimeOut \/ Drop \/ UNCHANGED vars
      PROVE  MemoInv'
  <2>1. UNCHANGED folderVars
    BY <1>2 DEF Greet, Answer, Exit, Spawn, ReadHandshake, Receive, TimeOut, GiveUp, Drop, vars
  <2> QED BY <1>1, <2>1 DEF folderVars
<1>3. ASSUME NEW t \in Threads, \E k \in Folds : Call(t, k) PROVE MemoInv'
  BY <1>3 DEF MemoInv, Reading, Call
<1>4. ASSUME NEW t \in Threads, NEW a, Conclude(t, a), asked' = asked,
             a \in {Ruby[fold[t]], Declined}, fold[t] \notin DOMAIN memo, holder = t \/ holder = Nobody
      PROVE  MemoInv'
  <2>1. /\ DOMAIN memo' = DOMAIN memo \union {fold[t]} /\ memo'[fold[t]] = a
        /\ \A k \in DOMAIN memo : memo'[k] = memo[k]
    BY <1>4 DEF Conclude, Memoised
  <2>2. given' = given \union {<<fold[t], a>>} /\ fold' = fold BY <1>4 DEF Conclude, Return
  <2>3. \A u \in Threads : pc'[u] \notin {"sending", "reading"} BY <1>4 DEF Conclude, Return
  <2>4. \A u \in Threads : Reading(u) => u = t BY <1>4 DEF Reading
  <2>5. \A k \in DOMAIN memo' : memo'[k] \in {Ruby[k], Declined} BY <1>4, <2>1 DEF MemoInv
  <2>6. \A g \in given' : g[1] \in DOMAIN memo' /\ g[2] = memo'[g[1]]
    <3>1. \A g \in given : g[1] \in DOMAIN memo' /\ g[2] = memo'[g[1]] BY <2>1 DEF MemoInv
    <3> QED BY <2>1, <2>2, <3>1
  <2>7. \A k \in Folds : asked'[k] = 0 \/ (asked'[k] = 1 /\ k \in DOMAIN memo')
    BY <1>4, <2>1, <2>4 DEF MemoInv
  <2> QED BY <2>3, <2>5, <2>6, <2>7 DEF MemoInv
<1>5. ASSUME NEW t \in Threads, Lock(t) PROVE MemoInv'
  <2>1. CASE fold[t] \in DOMAIN memo
    <3>1. given' = given \union {<<fold[t], memo[fold[t]]>>} /\ UNCHANGED <<memo, asked, fold>>
      BY <1>5, <2>1 DEF Lock, Return
    <3>2. \A u \in Threads : pc'[u] \notin {"sending", "reading"} /\ ~ Reading(u)
      BY <1>5, <2>1 DEF Lock, Return, Reading
    <3>3. \A g \in given' : g[1] \in DOMAIN memo /\ g[2] = memo[g[1]] BY <2>1, <3>1 DEF MemoInv
    <3> QED BY <3>1, <3>2, <3>3 DEF MemoInv
  <2>2. CASE fold[t] \notin DOMAIN memo /\ dead BY <1>4, <1>5, <2>2 DEF Lock
  <2>3. CASE fold[t] \notin DOMAIN memo /\ ~ dead BY <1>5, <2>3 DEF Lock, MemoInv, Reading
  <2> QED BY <2>1, <2>2, <2>3
<1>6. ASSUME NEW t \in Threads, Send(t) PROVE MemoInv'
  <2>1. holder = t /\ fold[t] \notin DOMAIN memo /\ fold[t] \in Folds BY <1>6 DEF Send, MemoInv
  <2>2. \A u \in Threads : ~ Reading(u) BY <1>6, <2>1 DEF Send, Reading
  <2>3. CASE child = "running"
    <3>1. asked[fold[t]] = 0 BY <2>1, <2>2 DEF MemoInv
    <3>2. Reading(t)' /\ UNCHANGED <<memo, fold, given>> BY <1>6, <2>3 DEF Send, Reading
    <3>3. asked'[fold[t]] = 1 /\ \A k \in Folds \ {fold[t]} : asked'[k] = asked[k]
      BY <1>6, <2>3, <3>1 DEF Send
    <3>4. \A u \in Threads : pc'[u] \in {"sending", "reading"} => u = t BY <1>6, <2>1, <2>3 DEF Send
    <3>5. \A k \in Folds : asked'[k] = 0 \/ (asked'[k] = 1 /\ (k \in DOMAIN memo'
                              \/ \E u \in Threads : Reading(u)' /\ fold'[u] = k))
      BY <2>1, <2>2, <3>2, <3>3 DEF MemoInv
    <3> QED BY <2>1, <3>2, <3>4, <3>5 DEF MemoInv
  <2>4. CASE child # "running" BY <1>4, <1>6, <2>1, <2>4 DEF Send
  <2> QED BY <2>3, <2>4
<1>7. ASSUME NEW t \in Threads, Read(t) PROVE MemoInv'
  <2>1. holder = t /\ fold[t] \notin DOMAIN memo /\ fold[t] \in Folds BY <1>7 DEF Read, MemoInv
  <2>2. CASE stdout = << >> \/ Head(stdout) = Cut BY <1>4, <1>7, <2>1, <2>2 DEF Read
  <2>3. CASE ~ (stdout = << >> \/ Head(stdout) = Cut)
    <3>1. Waiting(t) BY <1>7 DEF Read, PipeInv, Reading
    <3>2. Head(stdout) = Ruby[fold[t]] BY <2>1, <2>3, <3>1, ShortLines DEF Waiting
    <3> QED BY <1>4, <1>7, <2>1, <2>3, <3>2 DEF Read
  <2> QED BY <2>2, <2>3
<1> QED BY <1>2, <1>3, <1>5, <1>6, <1>7, Cases

(* What lies in the pipes.                                                 *)
LEMMA StepPreservesPipes == IInv /\ [Next]_vars => PipeInv'
<1> SUFFICES ASSUME IInv, [Next]_vars PROVE PipeInv'
  OBVIOUS
<1> USE LineTypes DEF IInv, TypeOK, MutexInv
<1>1. \A t, u \in Threads : Reading(t) /\ Reading(u) => t = u BY DEF Reading
<1>2. \A t \in Threads : Reading(t) => handshake = "usable" BY DEF Reading
<1>3. handshake = "pending" => Quiet BY <1>2 DEF Quiet
<1>4. ASSUME UNCHANGED folderVars
      PROVE  /\ Quiet' <=> Quiet
             /\ \A t \in Threads : (Reading(t)' <=> Reading(t)) /\ fold'[t] = fold[t]
  BY <1>4 DEF folderVars, Quiet, Reading
<1>5. ASSUME Greet PROVE PipeInv'
  <2>1. UNCHANGED <<handshake, stdin>> /\ UNCHANGED folderVars /\ child = "starting"
    BY <1>5 DEF Greet
  <2>2. Quiet BY <2>1 DEF PipeInv, Waiting, Quiet
  <2>3. handshake # "usable" BY <2>1, <2>2 DEF PipeInv, BetweenFolds
  <2>4. handshake = "pending" => stdout = << >> BY <2>1 DEF PipeInv, BeforeHandshake
  <2>5. handshake = "pending" => BeforeHandshake'
    BY <1>5, <2>4, ShortLines DEF Greet, BeforeHandshake
  <2> QED BY <1>4, <2>1, <2>2, <2>3, <2>5 DEF PipeInv, Quiet
<1>6. ASSUME Answer PROVE PipeInv'
  <2>1. UNCHANGED <<handshake, child>> /\ UNCHANGED folderVars /\ child = "running" /\ stdin # << >>
    BY <1>6 DEF Answer
  <2>2. PICK t \in Threads : Reading(t) BY <2>1 DEF PipeInv, Quiet
  <2>3. fold[t] \in Folds /\ stdin = <<fold[t]>> /\ stdout = << >>
    BY <2>1, <2>2 DEF PipeInv, Waiting
  <2>4. stdin' = << >> /\ stdout' = <<Ruby[fold[t]]>> BY <1>6, <2>3, ShortLines DEF Answer
  <2>5. Waiting(t)' BY <1>4, <2>1, <2>4 DEF Waiting
  <2>6. \A u \in Threads : Reading(u)' => u = t BY <1>1, <1>4, <2>1, <2>2
  <2>7. ~ Quiet' /\ handshake' # "pending" BY <1>2, <1>4, <2>1, <2>2 DEF Quiet
  <2> QED BY <2>5, <2>6, <2>7 DEF PipeInv
<1>7. ASSUME Exit PROVE PipeInv'
  <2>1. /\ UNCHANGED handshake /\ UNCHANGED folderVars /\ child \in {"starting", "running"}
        /\ child' = "exited" /\ stdin' = << >> /\ (stdout' = stdout \/ stdout' = Append(stdout, Cut))
    BY <1>7 DEF Exit
  <2>2. ASSUME handshake = "pending" PROVE BeforeHandshake'
    BY <2>1, <2>2, ShortLines DEF PipeInv, BeforeHandshake
  <2>3. ASSUME handshake = "usable", Quiet PROVE BetweenFolds'
    BY <2>1, <2>3, ShortLines DEF PipeInv, BetweenFolds
  <2>4. ASSUME NEW t \in Threads, Reading(t) PROVE Waiting(t)'
    <3>1. Waiting(t) /\ fold'[t] = fold[t] /\ fold[t] \in Folds BY <1>4, <2>1, <2>4 DEF PipeInv
    <3> QED BY <2>1, <3>1, ShortLines DEF Waiting
  <2> QED BY <1>4, <2>1, <2>2, <2>3, <2>4 DEF PipeInv
<1>8. ASSUME Spawn PROVE PipeInv'
  <2>1. UNCHANGED <<stdin, stdout, handshake>> /\ UNCHANGED folderVars /\ child = "none" BY <1>8 DEF Spawn
  <2>2. Quiet BY <2>1 DEF PipeInv, Waiting, Quiet
  <2>3. handshake # "usable" BY <2>1, <2>2 DEF PipeInv, BetweenFolds
  <2>4. handshake = "pending" => BeforeHandshake'
    BY <1>8, <2>1 DEF Spawn, PipeInv, BeforeHandshake
  <2> QED BY <1>4, <2>1, <2>2, <2>3, <2>4 DEF PipeInv, Quiet
<1>9. ASSUME ReadHandshake PROVE PipeInv'
  <2>1. /\ UNCHANGED <<child, stdin>> /\ UNCHANGED folderVars /\ handshake = "pending" /\ child # "none"
        /\ handshake' # "pending"
    BY <1>9 DEF ReadHandshake
  <2>2. Quiet /\ BeforeHandshake BY <1>3, <2>1 DEF PipeInv
  <2>3. ASSUME handshake' = "usable" PROVE BetweenFolds'
    <3>1. stdout # << >> /\ Head(stdout) = Ready /\ stdout' = Tail(stdout)
      BY <1>9, <2>3 DEF ReadHandshake
    <3>2. stdout = <<Ready>> \/ (stdout = <<Ready, Cut>> /\ child # "running")
      BY <2>2, <3>1, ShortLines DEF BeforeHandshake
    <3>3. stdout' = << >> \/ (stdout' = <<Cut>> /\ child # "running") BY <3>1, <3>2, ShortLines
    <3>4. child \in {"running", "exited", "reaped"} BY <2>1, <2>2, <3>1 DEF BeforeHandshake
    <3> QED BY <2>1, <3>3, <3>4 DEF BetweenFolds
  <2> QED BY <1>4, <2>1, <2>2, <2>3 DEF PipeInv, Quiet
<1>10. ASSUME GiveUp, posture = "probing", UNCHANGED handshake, handshake # "usable" PROVE PipeInv'
  <2>1. UNCHANGED stdout /\ UNCHANGED folderVars /\ child' = "reaped" /\ stdin' = << >>
    BY <1>10 DEF GiveUp
  <2>2. Quiet BY <1>2, <1>10 DEF Quiet
  <2>3. handshake = "pending" => BeforeHandshake' BY <2>1 DEF PipeInv, BeforeHandshake
  <2> QED BY <1>4, <1>10, <2>1, <2>2, <2>3 DEF PipeInv, Quiet
<1>11. ASSUME Receive PROVE PipeInv'
  <2>1. CASE handshake = "usable"
    <3>1. UNCHANGED <<child, stdin, stdout, handshake>> /\ UNCHANGED folderVars
      BY <1>11, <2>1 DEF Receive, childVars
    <3> QED BY <1>4, <3>1 DEF PipeInv, BeforeHandshake, BetweenFolds, Waiting
  <2>2. CASE handshake # "usable" BY <1>10, <1>11, <2>2 DEF Receive, GiveUp
  <2> QED BY <2>1, <2>2
<1>12. ASSUME TimeOut PROVE PipeInv' BY <1>10, <1>12 DEF TimeOut, GiveUp
<1>13. ASSUME Drop PROVE PipeInv'
  <2>1. /\ UNCHANGED <<stdout, handshake>> /\ UNCHANGED folderVars /\ child' = "reaped" /\ stdin' = << >>
        /\ handshake = "usable"
    BY <1>13 DEF Drop
  <2>2. Quiet BY <1>13 DEF Drop, Quiet, Reading
  <2>3. BetweenFolds' BY <2>1, <2>2 DEF PipeInv, BetweenFolds
  <2> QED BY <1>4, <2>1, <2>2, <2>3 DEF PipeInv, Quiet
<1>14. ASSUME UNCHANGED <<child, stdin, stdout, handshake>>,
              \A u \in Threads : (Reading(u)' <=> Reading(u)) /\ (Reading(u) => fold'[u] = fold[u])
       PROVE  PipeInv'
  BY <1>14 DEF PipeInv, Quiet, BeforeHandshake, BetweenFolds, Waiting
<1>15. ASSUME UNCHANGED vars PROVE PipeInv'
  BY <1>14, <1>15 DEF vars, childVars, folderVars, Reading
<1>16. ASSUME NEW t \in Threads, \E k \in Folds : Call(t, k) PROVE PipeInv'
  BY <1>14, <1>16 DEF Call, childVars, Reading
<1>17. ASSUME NEW t \in Threads, Lock(t) PROVE PipeInv'
  <2>1. \A u \in Threads : (Reading(u)' <=> Reading(u)) /\ fold'[u] = fold[u]
    BY <1>17 DEF Lock, Conclude, Return, Reading
  <2> QED BY <1>14, <1>17, <2>1 DEF Lock, childVars
<1>18. ASSUME NEW t \in Threads, Send(t) PROVE PipeInv'
  <2>1. Quiet /\ handshake = "usable" /\ fold[t] \in Folds BY <1>18 DEF Send, Quiet, Reading
  <2>2. stdin = << >> /\ BetweenFolds BY <2>1 DEF PipeInv
  <2>3. CASE child = "running"
    <3>1. /\ UNCHANGED <<child, stdout, handshake, fold>> /\ stdin' = <<fold[t]>>
          /\ pc' = [pc EXCEPT ![t] = "reading"]
      BY <1>18, <2>1, <2>2, <2>3, ShortLines DEF Send
    <3>2. Waiting(t)' BY <2>2, <2>3, <3>1 DEF Waiting, BetweenFolds
    <3>3. Reading(t)' /\ \A u \in Threads : Reading(u)' => u = t BY <2>1, <3>1 DEF Reading, Quiet
    <3> QED BY <2>1, <3>1, <3>2, <3>3 DEF PipeInv, Quiet
  <2>4. CASE child # "running"
    <3>1. \A u \in Threads : (Reading(u)' <=> Reading(u)) /\ fold'[u] = fold[u]
      BY <1>18, <2>4 DEF Send, Conclude, Return, Reading
    <3> QED BY <1>14, <1>18, <2>4, <3>1 DEF Send
  <2> QED BY <2>3, <2>4
<1>19. ASSUME NEW t \in Threads, Read(t) PROVE PipeInv'
  <2>1. /\ Reading(t) /\ holder = t /\ handshake = "usable" /\ fold[t] \in Folds
        /\ UNCHANGED <<child, stdin, handshake>> /\ (stdout # << >> \/ child = "exited")
        /\ stdout' = IF stdout = << >> THEN stdout ELSE Tail(stdout)
    BY <1>19 DEF Read, Reading
  <2>2. Waiting(t) BY <2>1 DEF PipeInv
  <2>3. stdin = << >> BY <2>1, <2>2 DEF Waiting
  <2>4. stdout' = << >> \/ (stdout' = <<Cut>> /\ child = "exited")
    BY <2>1, <2>2, ShortLines DEF Waiting
  <2>5. pc' = [pc EXCEPT ![t] = "idle"] BY <1>19 DEF Read, Conclude, Return
  <2>6. Quiet' BY <1>1, <2>1, <2>5 DEF Quiet, Reading
  <2>7. BetweenFolds' BY <2>1, <2>2, <2>4 DEF BetweenFolds, Waiting
  <2> QED BY <2>1, <2>3, <2>6, <2>7 DEF PipeInv, Quiet
<1> QED
  BY <1>5, <1>6, <1>7, <1>8, <1>9, <1>11, <1>12, <1>13, <1>15, <1>16, <1>17, <1>18, <1>19, Cases

----------------------------------------------------------------------------
(* Where the Mutex is, what lies in the pipes and what the memo holds, at  *)
(* every moment of a run: the strengthening the other theorems rest on.    *)
THEOREM Inductive == Spec => []IInv
<1>1. IInv /\ [Next]_vars => IInv'
  BY StepPreservesType, StepPreservesMutex, StepPreservesMemo, StepPreservesPipes DEF IInv
<1> QED BY InitEstablishes, <1>1, PTL DEF Spec

(* Sidecar's state is well typed for every set of threads and folds.       *)
THEOREM TypeCorrect == Spec => []TypeOK
<1>1. IInv => TypeOK BY DEF IInv
<1> QED BY <1>1, Inductive, PTL

(* No thread is ever given another fold's answer (Sidecar::fold: the lines *)
(* of one channel, in order, under one Mutex).                             *)
THEOREM OnlyItsOwnAnswer == Spec => []AnswersAreRuby
<1>1. IInv => AnswersAreRuby
  <2> SUFFICES ASSUME IInv, NEW g \in given PROVE g[2] \in {Ruby[g[1]], Declined}
    BY DEF AnswersAreRuby
  <2>1. g[1] \in DOMAIN memo /\ g[2] = memo[g[1]] BY DEF IInv, MemoInv
  <2> QED BY <2>1 DEF IInv, MemoInv
<1> QED BY <1>1, Inductive, PTL

(* A fold has one answer for the whole run (SidecarFolder::fold asks the   *)
(* memo before it asks whether the child is dead).                         *)
THEOREM OneAnswer == Spec => []AnswersAreStable
<1>1. IInv => AnswersAreStable
  <2> SUFFICES ASSUME IInv, NEW g \in given, NEW h \in given, g[1] = h[1] PROVE g[2] = h[2]
    BY DEF AnswersAreStable
  <2>1. g[2] = memo[g[1]] /\ h[2] = memo[h[1]] BY DEF IInv, MemoInv
  <2> QED BY <2>1
<1> QED BY <1>1, Inductive, PTL

(* A fold goes to the child once at most, whoever asks for it and however  *)
(* it ended (SidecarFolder::fold memoises a refusal too).                  *)
THEOREM AskedOnce == Spec => []OneRoundTrip
<1>1. IInv => OneRoundTrip
  BY DEF IInv, MemoInv, OneRoundTrip
<1> QED BY <1>1, Inductive, PTL
================================================================================
