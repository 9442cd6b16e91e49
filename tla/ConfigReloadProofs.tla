--------------------------- MODULE ConfigReloadProofs ---------------------------
(***************************************************************************)
(* The reload of the configuration, whatever the files hold and whatever   *)
(* loading them comes to: what a context is built from, what the user is   *)
(* told, and what the overlay guard makes of the builds.  And then what    *)
(* loading them does come to.                                              *)
(***************************************************************************)
EXTENDS ConfigReload, SequenceTheorems, FiniteSetTheorems, TLAPS

TypeOK ==
    /\ pc \in {"starting", "idle", "reading"}
    /\ broken \in BOOLEAN
    /\ told \in {"broken", "fine"}
    /\ guard \in Guards
    /\ recent \in Seq(BOOLEAN) /\ Len(recent) <= Strikes

(* What the guard has counted is the run of over-budget samples that the   *)
(* last ones end in; once it is off they all are.                          *)
GuardCounts ==
    LET n == Len(recent)
    IN  /\ guard.enabled =>
              /\ guard.over <= n /\ guard.over < Strikes
              /\ \A i \in 1 .. n : i > n - guard.over => recent[i] = TRUE
              /\ guard.over < n => recent[n - guard.over] = FALSE
        /\ ~ guard.enabled => n = Strikes /\ \A i \in 1 .. n : recent[i] = TRUE

(* The session remembers that its configuration is broken exactly while    *)
(* that is what the user was told last.                                    *)
TellsWhatItKnows ==
    /\ broken <=> told = "broken"
    /\ pc = "starting" => ~ broken

IInv == TypeOK /\ GuardCounts /\ TellsWhatItKnows /\ ContextIsOfOneConfig

----------------------------------------------------------------------------
(* One more sample: the window moves on by one. *)
LEMMA RememberFacts ==
    ASSUME TypeOK, NEW over \in BOOLEAN, NEW next, next = Remember(over),
           NEW n, n = Len(recent), NEW m, m = Len(next)
    PROVE  /\ next \in Seq(BOOLEAN)
           /\ n \in Nat /\ m \in Nat /\ n <= Strikes
           /\ m = IF n < Strikes THEN n + 1 ELSE n
           /\ next[m] = over
           /\ \A i \in 1 .. m - 1 : next[i] = recent[n - (m - 1) + i]
<1> DEFINE all == Append(recent, over)
<1>1. recent \in Seq(BOOLEAN) /\ n \in Nat /\ n <= Strikes /\ Strikes \in Nat \ {0}
  BY StrikesAssumption DEF TypeOK
<1>2. /\ all \in Seq(BOOLEAN) /\ Len(all) = n + 1 /\ all[n + 1] = over
      /\ \A i \in 1 .. n : all[i] = recent[i]
  BY <1>1, AppendProperties
<1>3. next = IF n + 1 > Strikes THEN Tail(all) ELSE all
  BY <1>2 DEF Remember
<1> HIDE DEF all
<1>4. CASE n < Strikes
  <2>1. next = all /\ m = n + 1
    BY <1>1, <1>2, <1>3, <1>4
  <2>2. \A i \in 1 .. m - 1 : i \in 1 .. n /\ n - (m - 1) + i = i
    BY <1>1, <2>1
  <2> QED
    BY <1>1, <1>2, <1>4, <2>1, <2>2
<1>5. CASE n = Strikes
  <2>1. all # << >>
    BY <1>1, <1>2
  <2>2. /\ Tail(all) \in Seq(BOOLEAN) /\ Len(Tail(all)) = n
        /\ \A i \in 1 .. n : Tail(all)[i] = all[i + 1]
    BY <1>1, <1>2, <2>1, HeadTailProperties
  <2>3. next = Tail(all) /\ m = n
    BY <1>1, <1>3, <1>5, <2>2
  <2>4. ASSUME NEW i \in 1 .. m - 1
        PROVE  i + 1 \in 1 .. n /\ i \in 1 .. n /\ n - (m - 1) + i = i + 1
    <3>1. i \in Int /\ n \in Int /\ m = n /\ 1 <= i /\ i <= n - 1
      BY <1>1, <2>3
    <3> QED
      BY <3>1
  <2>5. next[m] = over
    BY <1>1, <1>2, <1>5, <2>2, <2>3
  <2> QED
    BY <1>1, <1>2, <1>5, <2>2, <2>3, <2>4, <2>5
<1> QED
  BY <1>1, <1>4, <1>5

LEMMA SampleCounts ==
    ASSUME TypeOK, GuardCounts, NEW over \in BOOLEAN,
           guard' = Record(guard, over), recent' = Remember(over)
    PROVE  /\ guard' \in Guards
           /\ recent' \in Seq(BOOLEAN) /\ Len(recent') <= Strikes
           /\ GuardCounts'
<1> DEFINE n == Len(recent)
           m == Len(recent')
<1>1. /\ recent' \in Seq(BOOLEAN)
      /\ n \in Nat /\ m \in Nat /\ n <= Strikes
      /\ m = IF n < Strikes THEN n + 1 ELSE n
      /\ recent'[m] = over
      /\ \A i \in 1 .. m - 1 : recent'[i] = recent[n - (m - 1) + i]
  BY RememberFacts
<1>2. Strikes \in Nat \ {0}
  BY StrikesAssumption
<1>3. guard.enabled \in BOOLEAN /\ guard.over \in Nat
  BY DEF TypeOK, Guards
<1>4. guard' \in Guards
  BY <1>3 DEF Record, Guards
<1>5. /\ guard.enabled =>
           /\ guard.over <= n /\ guard.over < Strikes
           /\ \A i \in 1 .. n : i > n - guard.over => recent[i] = TRUE
           /\ guard.over < n => recent[n - guard.over] = FALSE
      /\ ~ guard.enabled => n = Strikes /\ \A i \in 1 .. n : recent[i] = TRUE
  BY DEF GuardCounts
<1>6. ASSUME /\ guard'.enabled =>
                  /\ guard'.over <= m /\ guard'.over < Strikes
                  /\ \A i \in 1 .. m : i > m - guard'.over => recent'[i] = TRUE
                  /\ guard'.over < m => recent'[m - guard'.over] = FALSE
             /\ ~ guard'.enabled => m = Strikes /\ \A i \in 1 .. m : recent'[i] = TRUE
      PROVE  GuardCounts'
  BY <1>6 DEF GuardCounts
<1> HIDE DEF n, m
<1>m. m \in 1 .. Strikes /\ \A i \in 1 .. m - 1 : n - (m - 1) + i \in 1 .. n
  BY <1>1, <1>2
<1>t. recent' \in Seq(BOOLEAN) /\ Len(recent') <= Strikes
  BY <1>1, <1>m DEF m
<1>l. \A i \in 1 .. m : i = m \/ i \in 1 .. m - 1
  BY <1>1
<1>7. CASE over = FALSE
  <2>1. guard'.enabled /\ guard'.over = 0
    BY <1>7 DEF Record
  <2>2. guard'.over <= m /\ guard'.over < Strikes /\ m - guard'.over = m
    BY <1>1, <1>2, <2>1
  <2>3. \A i \in 1 .. m : ~ (i > m)
    BY <1>1
  <2>4. \A i \in 1 .. m : i > m - guard'.over => recent'[i] = TRUE
    <3> DEFINE before == m - guard'.over
    <3>1. before = m
      BY <2>2
    <3> HIDE DEF before
    <3>2. \A i \in 1 .. m : ~ (i > before)
      BY <2>3, <3>1
    <3>3. \A i \in 1 .. m : i > before => recent'[i] = TRUE
      BY <3>2
    <3> QED BY <3>3 DEF before
  <2>5. guard'.over < m => recent'[m - guard'.over] = FALSE
    <3>1. recent'[m] = FALSE
      BY <1>1, <1>7
    <3> QED
      BY <2>2, <3>1
  <2>6. GuardCounts'
    BY <1>6, <2>1, <2>2, <2>4, <2>5
  <2> QED
    BY <1>4, <1>t, <2>6
<1>8. CASE over = TRUE /\ ~ guard.enabled
  <2>1. ~ guard'.enabled
    BY <1>8 DEF Record
  <2>2. \A i \in 1 .. m : recent'[i] = TRUE
    BY <1>1, <1>5, <1>8, <1>m, <1>l
  <2>3. m = Strikes
    BY <1>1, <1>5, <1>8
  <2>4. GuardCounts'
    BY <1>6, <2>1, <2>2, <2>3
  <2> QED
    BY <1>4, <1>t, <2>4
<1>9. CASE over = TRUE /\ guard.enabled /\ guard.over + 1 >= Strikes
  <2>1. ~ guard'.enabled
    BY <1>9 DEF Record
  <2>2. guard.over = Strikes - 1 /\ m = Strikes
    BY <1>1, <1>2, <1>3, <1>5, <1>9
  <2>3. \A i \in 1 .. m - 1 : recent'[i] = TRUE
    <3>1. \A i \in 1 .. m - 1 : n - (m - 1) + i > n - guard.over
      BY <1>1, <1>2, <2>2
    <3> QED
      BY <1>1, <1>5, <1>9, <1>m, <3>1
  <2>4. \A i \in 1 .. m : recent'[i] = TRUE
    BY <1>1, <1>9, <1>l, <2>3
  <2>5. GuardCounts'
    BY <1>6, <2>1, <2>2, <2>4
  <2> QED
    BY <1>4, <1>t, <2>5
<1>10. CASE over = TRUE /\ guard.enabled /\ ~ (guard.over + 1 >= Strikes)
  <2>1. guard'.enabled /\ guard'.over = guard.over + 1
    BY <1>10 DEF Record
  <2>2. guard'.over <= m /\ guard'.over < Strikes
    BY <1>1, <1>2, <1>3, <1>5, <1>10, <2>1
  <2>3. \A i \in 1 .. m : i > m - guard'.over => recent'[i] = TRUE
    <3>1. \A i \in 1 .. m - 1 : i > m - guard'.over => n - (m - 1) + i > n - guard.over
      <4>1. guard.over \in Int /\ n \in Int /\ m \in Int
        BY <1>1, <1>3
      <4>2. \A i \in Int : i > m - (guard.over + 1) => n - (m - 1) + i > n - guard.over
        BY <4>1
      <4> QED
        BY <2>1, <4>1, <4>2
    <3>2. \A i \in 1 .. m - 1 : i > m - guard'.over => recent'[i] = TRUE
      BY <1>1, <1>5, <1>10, <1>m, <3>1
    <3> QED
      BY <1>1, <1>10, <1>l, <3>2
  <2>4. guard'.over < m => recent'[m - guard'.over] = FALSE
    <3> SUFFICES ASSUME guard'.over < m PROVE recent'[m - guard'.over] = FALSE
      OBVIOUS
    <3>1. /\ m - guard'.over \in 1 .. m - 1
          /\ n - (m - 1) + (m - guard'.over) = n - guard.over
          /\ guard.over < n
      BY <1>1, <1>2, <1>3, <2>1
    <3> QED
      BY <1>1, <1>5, <1>10, <3>1
  <2>5. GuardCounts'
    BY <1>6, <2>1, <2>2, <2>3, <2>4
  <2> QED
    BY <1>4, <1>t, <2>5
<1> QED
  BY <1>7, <1>8, <1>9, <1>10

----------------------------------------------------------------------------
(* The steps. *)

LEMMA InitHolds == Init => IInv
<1> SUFFICES ASSUME Init PROVE IInv
  OBVIOUS
<1>1. recent = << >> /\ Len(recent) = 0 /\ recent \in Seq(BOOLEAN)
  BY DEF Init
<1>2. TypeOK
  <2>1. guard = [enabled |-> TRUE, over |-> 0]
    BY DEF Init, NewGuard
  <2>2. guard \in Guards
    BY <2>1 DEF Guards
  <2>3. Len(recent) <= Strikes
    BY <1>1, StrikesAssumption
  <2> QED
    BY <1>1, <2>2, <2>3 DEF Init, TypeOK
<1>3. GuardCounts
  BY <1>1, StrikesAssumption DEF Init, GuardCounts, NewGuard
<1> QED
  BY <1>2, <1>3 DEF Init, IInv, TellsWhatItKnows, ContextIsOfOneConfig

LEMMA GuardUnchanged ==
    ASSUME IInv, UNCHANGED <<guard, recent>>
    PROVE  /\ guard' \in Guards
           /\ recent' \in Seq(BOOLEAN) /\ Len(recent') <= Strikes
           /\ GuardCounts'
BY DEF IInv, TypeOK, GuardCounts

(* A full build leaves a context of the configuration it was given. *)
LEMMA FullBuildFacts ==
    ASSUME IInv, NEW core, NEW c, FullBuild(core, c)
    PROVE  /\ guard' \in Guards
           /\ recent' \in Seq(BOOLEAN) /\ Len(recent') <= Strikes
           /\ GuardCounts'
           /\ project'.core = core /\ project'.posture = c /\ project'.overlay \subseteq {c}
<1>1. \/ UNCHANGED <<guard, recent>>
      \/ \E over \in BOOLEAN : guard' = Record(guard, over) /\ recent' = Remember(over)
  BY DEF FullBuild
<1>2. /\ guard' \in Guards
      /\ recent' \in Seq(BOOLEAN) /\ Len(recent') <= Strikes
      /\ GuardCounts'
  BY <1>1, GuardUnchanged, SampleCounts DEF IInv
<1>3. project'.core = core /\ project'.posture = c /\ project'.overlay \subseteq {c}
  BY DEF FullBuild
<1> QED
  BY <1>2, <1>3

(* What the user and the session are told when a read is done. *)
LEMMA FinishTells ==
    ASSUME IInv, Finish
    PROVE  /\ (told' = "broken") = (ReadConfig(docs).outcome = "fatal")
           /\ (shown' # "none") = (told' # told)
           /\ told' \in {"broken", "fine"} /\ broken' \in BOOLEAN
           /\ broken' <=> told' = "broken"
<1> DEFINE read == ReadConfig(docs)
<1>t. /\ broken \in BOOLEAN /\ told \in {"broken", "fine"}
      /\ broken <=> told = "broken"
      /\ pc = "starting" => ~ broken
  BY DEF IInv, TypeOK, TellsWhatItKnows
<1>1. IF pc = "starting" THEN Start(read) ELSE Reload(read)
  BY DEF Finish, ReadConfig
<1> HIDE DEF read
<1>2. CASE pc = "starting"
  BY <1>t, <1>1, <1>2 DEF Start, Say, read
<1>3. CASE pc # "starting" /\ read.outcome = "fatal"
  BY <1>t, <1>1, <1>3 DEF Reload, Say, read
<1>4. CASE pc # "starting" /\ read.outcome # "fatal"
  BY <1>t, <1>1, <1>4 DEF Reload, Say, read
<1> QED
  BY <1>2, <1>3, <1>4

LEMMA FinishKeeps ==
    ASSUME IInv, Finish
    PROVE  IInv'
<1>1. FullBuild(cfg', cfg') /\ pc' = "idle"
  BY DEF Finish, Rebuild
<1>2. /\ guard' \in Guards
      /\ recent' \in Seq(BOOLEAN) /\ Len(recent') <= Strikes
      /\ GuardCounts'
      /\ project'.core = cfg' /\ project'.posture = cfg' /\ project'.overlay \subseteq {cfg'}
  BY <1>1, FullBuildFacts
<1>3. /\ told' \in {"broken", "fine"} /\ broken' \in BOOLEAN
      /\ broken' <=> told' = "broken"
  BY FinishTells
<1> QED
  BY <1>1, <1>2, <1>3 DEF IInv, TypeOK, TellsWhatItKnows, ContextIsOfOneConfig

LEMMA SourceSavedKeeps ==
    ASSUME IInv, SourceSaved
    PROVE  IInv'
<1>1. pc = "idle" /\ UNCHANGED <<pc, cfg, broken, told>>
  BY DEF SourceSaved
<1>2. /\ project.core = cfg /\ project.posture = cfg /\ project.overlay \subseteq {cfg}
  BY <1>1 DEF IInv, ContextIsOfOneConfig
<1>3. CASE project' = [project EXCEPT !.posture = cfg] /\ UNCHANGED <<guard, recent>>
  <2>1. ContextIsOfOneConfig'
    BY <1>1, <1>2, <1>3 DEF ContextIsOfOneConfig
  <2> QED
    BY <1>1, <1>3, <2>1, GuardUnchanged DEF IInv, TypeOK, TellsWhatItKnows
<1>4. CASE FullBuild(project.core, cfg)
  BY <1>1, <1>2, <1>4, FullBuildFacts DEF IInv, TypeOK, TellsWhatItKnows, ContextIsOfOneConfig
<1> QED
  BY <1>3, <1>4 DEF SourceSaved

LEMMA SampledKeeps ==
    ASSUME IInv, NEW over \in BOOLEAN, Sampled(over)
    PROVE  IInv'
<1>1. /\ pc = "idle" /\ UNCHANGED <<pc, cfg, broken, told>>
      /\ guard' = Record(guard, over) /\ recent' = Remember(over)
      /\ project' = IF guard'.enabled THEN project
                    ELSE [project EXCEPT !.posture = cfg, !.overlay = {}]
  BY DEF Sampled
<1>2. /\ project.core = cfg /\ project.posture = cfg /\ project.overlay \subseteq {cfg}
  BY <1>1 DEF IInv, ContextIsOfOneConfig
<1>3. ContextIsOfOneConfig'
  BY <1>1, <1>2 DEF ContextIsOfOneConfig
<1> QED
  BY <1>1, <1>3, SampleCounts DEF IInv, TypeOK, TellsWhatItKnows

(* The user, the notifications and the reading of one file touch neither   *)
(* the context nor what was said.                                          *)
LEMMA OthersKeep ==
    ASSUME IInv, UNCHANGED <<cfg, broken, project, guard, recent, told>>,
           pc' \in {pc, "reading"}, pc = "starting" => pc' = pc
    PROVE  IInv'
BY GuardUnchanged DEF IInv, TypeOK, TellsWhatItKnows, ContextIsOfOneConfig

LEMMA NextKeeps == IInv /\ [Next]_vars => IInv'
<1> SUFFICES ASSUME IInv, [Next]_vars PROVE IInv'
  OBVIOUS
<1>1. ASSUME NEW f \in Files, Edit(f) PROVE IInv'
  BY <1>1, OthersKeep DEF Edit, server
<1>2. CASE Refreshes \/ Watch
  BY <1>2, OthersKeep DEF Refreshes, Watch, server
<1>3. ASSUME NEW batch \in SUBSET pending, Notified(batch) PROVE IInv'
  BY <1>3, OthersKeep DEF Notified
<1>4. CASE ReadFile
  BY <1>4, OthersKeep DEF ReadFile
<1>5. CASE UNCHANGED vars
  BY <1>5, OthersKeep DEF vars, server
<1> QED
  BY <1>1, <1>2, <1>3, <1>4, <1>5, SourceSavedKeeps, SampledKeeps, FinishKeeps DEF Next

LEMMA SameRange ==
    ASSUME NEW a \in Nat, NEW b \in Nat \ {0}, 1 .. a = 1 .. b
    PROVE  a = b
<1>1. b \in 1 .. b
  OBVIOUS
<1>2. b \in 1 .. a
  BY <1>1
<1>3. b <= a
  BY <1>2
<1>4. a \in 1 .. a
  BY <1>3
<1>5. a \in 1 .. b
  BY <1>4
<1> QED
  BY <1>3, <1>5

LEMMA Inductive == Spec => []IInv
BY InitHolds, NextKeeps, PTL DEF Spec

----------------------------------------------------------------------------
(* A context is built from one configuration, the session's, after every   *)
(* invalidate, reharvest and trip of the guard, whatever the files hold.   *)
THEOREM ContextsAgree == Spec => []ContextIsOfOneConfig
BY Inductive, PTL DEF IInv

(* The overlay is off exactly while the last samples, as many as the       *)
(* guard's strikes, were all over budget, whatever builds they come from.  *)
THEOREM GuardIsExact == Spec => []OffAfterStrikes
<1>1. ASSUME IInv PROVE OffAfterStrikes
  <2> DEFINE n == Len(recent)
             full == [i \in 1 .. Strikes |-> TRUE]
  <2>t. /\ recent \in Seq(BOOLEAN) /\ n \in Nat /\ DOMAIN recent = 1 .. n
        /\ Strikes \in Nat \ {0} /\ guard.over \in Nat
    BY <1>1, StrikesAssumption DEF IInv, TypeOK, Guards
  <2>1. ASSUME ~ guard.enabled PROVE recent = full
    <3>1. n = Strikes /\ \A i \in 1 .. n : recent[i] = TRUE
      BY <1>1, <2>1 DEF IInv, GuardCounts
    <3> QED
      BY <2>t, <3>1
  <2>2. ASSUME guard.enabled, recent = full PROVE FALSE
    <3>1. n = Strikes /\ \A i \in 1 .. n : recent[i] = TRUE
      <4>1. DOMAIN recent = 1 .. Strikes
        BY <2>2
      <4>2. n = Strikes
        BY <2>t, <4>1, SameRange
      <4> QED
        BY <2>2, <4>2
    <3>2. guard.over < n /\ recent[n - guard.over] = FALSE
      BY <1>1, <2>2, <3>1 DEF IInv, GuardCounts
    <3>3. n - guard.over \in 1 .. n
      BY <2>t, <3>2
    <3> QED
      BY <3>1, <3>2, <3>3
  <2> QED
    BY <2>1, <2>2 DEF OffAfterStrikes
<1> QED
  BY <1>1, Inductive, PTL

(* When a read of the configuration is done the user has last been told    *)
(* that it is broken exactly if it is, and something was said exactly if   *)
(* that changed (reload_config, config_broken).                            *)
THEOREM TellsEachChangeOnce == Spec => DisclosesEachChangeOnce
<1> DEFINE Tells == pc # "idle" /\ pc' = "idle" =>
                       /\ (told' = "broken") = (ReadConfig(docs).outcome = "fatal")
                       /\ (shown' # "none") = (told' # told)
<1>1. IInv /\ [Next]_vars => [Tells]_vars
  <2> SUFFICES ASSUME IInv, [Next]_vars, pc # "idle", pc' = "idle", ~ UNCHANGED vars
               PROVE  /\ (told' = "broken") = (ReadConfig(docs).outcome = "fatal")
                      /\ (shown' # "none") = (told' # told)
    OBVIOUS
  <2>1. Finish
    BY DEF Next, Edit, Refreshes, Watch, SourceSaved, Sampled, Notified, ReadFile, server, vars
  <2> QED
    BY <2>1, FinishTells
<1> QED
  BY <1>1, Inductive, PTL DEF Spec, DisclosesEachChangeOnce

----------------------------------------------------------------------------
(* Induction over the naturals, for a set of them. *)
LEMMA SetInduction ==
    ASSUME NEW P \in SUBSET Nat, 0 \in P, \A n \in P : n + 1 \in P
    PROVE  P = Nat
<1> SUFFICES ASSUME P # Nat PROVE FALSE
  OBVIOUS
<1> DEFINE T == Nat \ P
           R == OpToRel(<, Nat)
<1>1. IsWellFoundedOn(R, Nat)
  BY NatLessThanWellFounded
<1>2. T \subseteq Nat /\ T # {}
  OBVIOUS
<1>3. PICK x \in T : \A y \in T : <<y, x>> \notin R
  <2> HIDE DEF T, R
  <2> QED BY <1>1, <1>2, WFMin
<1>4. x # 0 /\ x - 1 \in Nat /\ x \in Nat
  OBVIOUS
<1>5. <<x - 1, x>> \in R
  BY <1>4 DEF OpToRel
<1>6. x - 1 \in P
  BY <1>3, <1>4, <1>5
<1>7. x - 1 + 1 \in P
  BY <1>6
<1> QED
  BY <1>4, <1>7

----------------------------------------------------------------------------
(* The recursion of merge_includes ends. *)

Accumulates(acc, includes, sub, m) ==
    \A i \in 0 .. m :
        acc[i] = IF i = 0 THEN Loaded(Defaults) ELSE Over(acc[i - 1], sub[includes[i]])

LEMMA Accumulation ==
    ASSUME NEW includes, NEW sub
    PROVE  \A n \in Nat : \E acc : Accumulates(acc, includes, sub, n)
<1> DEFINE P == {m \in Nat : \E acc : Accumulates(acc, includes, sub, m)}
<1>1. 0 \in P
  <2>1. Accumulates([i \in 0 .. 0 |-> Loaded(Defaults)], includes, sub, 0)
    BY DEF Accumulates
  <2> QED
    BY <2>1
<1>2. ASSUME NEW m \in P PROVE m + 1 \in P
  <2>1. PICK acc : Accumulates(acc, includes, sub, m)
    OBVIOUS
  <2> DEFINE more == [i \in 0 .. m + 1 |->
                         IF i = m + 1 THEN Over(acc[m], sub[includes[i]]) ELSE acc[i]]
  <2>2. m \in Nat /\ m + 1 - 1 = m
    OBVIOUS
  <2>3. ASSUME NEW i \in 0 .. m + 1
        PROVE  more[i] = IF i = 0 THEN Loaded(Defaults) ELSE Over(more[i - 1], sub[includes[i]])
    <3>1. CASE i = m + 1
      <4>1. i # 0 /\ i - 1 \in 0 .. m + 1 /\ i - 1 = m /\ i - 1 # m + 1
        BY <2>2, <3>1
      <4>2. more[i - 1] = acc[m] /\ more[i] = Over(acc[m], sub[includes[i]])
        BY <3>1, <4>1
      <4> HIDE DEF more
      <4> QED
        BY <4>1, <4>2
    <3>2. CASE i \in 0 .. m
      <4>1. more[i] = acc[i] /\ (i # 0 => more[i - 1] = acc[i - 1])
        BY <2>2, <3>2
      <4>2. acc[i] = IF i = 0 THEN Loaded(Defaults) ELSE Over(acc[i - 1], sub[includes[i]])
        BY <2>1, <3>2 DEF Accumulates
      <4> HIDE DEF more
      <4> QED
        BY <4>1, <4>2
    <3> QED
      BY <2>2, <3>1, <3>2
  <2> HIDE DEF more
  <2>4. Accumulates(more, includes, sub, m + 1)
    BY <2>3 DEF Accumulates
  <2> QED
    BY <2>2, <2>4
<1>3. P = Nat
  <2>1. P \in SUBSET Nat
    OBVIOUS
  <2> HIDE DEF P
  <2> QED
    BY <1>1, <1>2, <2>1, SetInduction
<1> QED
  BY <1>3

LEMMA MergeSteps ==
    ASSUME NEW X, NEW includes \in Seq(X), NEW sub
    PROVE  \E acc : /\ MergeIncludes(includes, sub) = acc[Len(includes)]
                    /\ acc[0] = Loaded(Defaults)
                    /\ \A i \in 1 .. Len(includes) : acc[i] = Over(acc[i - 1], sub[includes[i]])
<1> DEFINE n == Len(includes)
           Is(g) == g = [i \in 0 .. n |-> IF i = 0 THEN Loaded(Defaults)
                                          ELSE Over(g[i - 1], sub[includes[i]])]
           acc == CHOOSE g : Is(g)
<1>1. n \in Nat
  OBVIOUS
<1>2. PICK g : Accumulates(g, includes, sub, n)
  BY <1>1, Accumulation
<1> DEFINE h == [i \in 0 .. n |-> g[i]]
<1>3. ASSUME NEW i \in 0 .. n
      PROVE  h[i] = IF i = 0 THEN Loaded(Defaults) ELSE Over(h[i - 1], sub[includes[i]])
  <2>1. g[i] = IF i = 0 THEN Loaded(Defaults) ELSE Over(g[i - 1], sub[includes[i]])
    BY <1>2 DEF Accumulates
  <2>2. h[i] = g[i] /\ (i # 0 => h[i - 1] = g[i - 1])
    BY <1>1
  <2> HIDE DEF h
  <2> QED
    BY <2>1, <2>2
<1>4. Is(h)
  BY <1>3
<1>5. Is(acc)
  <2> HIDE DEF Is, h
  <2> QED
    BY <1>4
<1>6. MergeIncludes(includes, sub) = acc[n]
  BY DEF MergeIncludes
<1> HIDE DEF acc
<1>7. \A i \in 0 .. n : acc[i] = IF i = 0 THEN Loaded(Defaults)
                                 ELSE Over(acc[i - 1], sub[includes[i]])
  <2> HIDE DEF n
  <2> QED
    BY <1>5
<1>8. 0 \in 0 .. n /\ \A i \in 1 .. n : i \in 0 .. n /\ i # 0
  BY <1>1
<1> HIDE DEF Is, n
<1>9. acc[0] = Loaded(Defaults) /\ \A i \in 1 .. n : acc[i] = Over(acc[i - 1], sub[includes[i]])
  BY <1>7, <1>8
<1> QED
  BY <1>6, <1>9 DEF n

----------------------------------------------------------------------------
(* So does that of load_with_includes: each file it goes into is one more  *)
(* of those that are being included.                                       *)

Loads(read, sub, visited, f) ==
    IF f \in visited THEN Fatal
    ELSE IF f \notin DOMAIN read THEN Needs(f)
    ELSE IF read[f].kind # "yaml" THEN Fatal
    ELSE Over(MergeIncludes(read[f].includes, sub), Loaded(read[f].keys))

IsLoad(read, load) ==
    load = [visited \in SUBSET Files |->
               [f \in Files |-> Loads(read, load[visited \cup {f}], visited, f)]]

Left(visited) == Cardinality(Files \ visited)

LEMMA OneFewer ==
    ASSUME NEW visited \in SUBSET Files
    PROVE  /\ Left(visited) \in Nat /\ Left(visited) <= Cardinality(Files)
           /\ Cardinality(Files) \in Nat
           /\ \A f \in Files \ visited : Left(visited \cup {f}) < Left(visited)
<1>1. IsFiniteSet(Files) /\ IsFiniteSet(Files \ visited)
  BY DocumentsAssumption, FS_Subset
<1>2. Left(visited) \in Nat /\ Cardinality(Files) \in Nat /\ Left(visited) <= Cardinality(Files)
  BY <1>1, FS_CardinalityType, FS_Subset DEF Left
<1>3. ASSUME NEW f \in Files \ visited PROVE Left(visited \cup {f}) < Left(visited)
  <2>1. Files \ (visited \cup {f}) = (Files \ visited) \ {f}
    OBVIOUS
  <2>2. Cardinality((Files \ visited) \ {f}) = Cardinality(Files \ visited) - 1
    BY <1>1, FS_RemoveElement
  <2> QED
    BY <1>2, <2>1, <2>2 DEF Left
<1> QED
  BY <1>2, <1>3

Up(read, load, n) ==
    \A visited \in SUBSET Files : Left(visited) < n =>
        load[visited] = [f \in Files |-> Loads(read, load[visited \cup {f}], visited, f)]

LEMMA LoadsUp ==
    ASSUME NEW read
    PROVE  \A n \in Nat : \E load : Up(read, load, n)
<1> DEFINE P == {n \in Nat : \E load : Up(read, load, n)}
<1>1. 0 \in P
  <2>1. \A visited \in SUBSET Files : ~ (Left(visited) < 0)
    BY OneFewer
  <2>2. Up(read, << >>, 0)
    BY <2>1 DEF Up
  <2> QED
    BY <2>2
<1>2. ASSUME NEW n \in P PROVE n + 1 \in P
  <2>1. PICK g : Up(read, g, n)
    OBVIOUS
  <2> DEFINE Of(l, v) == [f \in Files |-> Loads(read, l[v \cup {f}], v, f)]
             h == [v \in SUBSET Files |-> IF Left(v) < n THEN g[v] ELSE Of(g, v)]
  <2>n. n \in Nat
    OBVIOUS
  <2>2. ASSUME NEW v \in SUBSET Files, Left(v) < n + 1 PROVE h[v] = Of(h, v)
    <3>1. ASSUME NEW f \in Files PROVE Loads(read, h[v \cup {f}], v, f) = Loads(read, g[v \cup {f}], v, f)
      <4>1. CASE f \in v
        BY <4>1 DEF Loads
      <4>2. CASE f \notin v
        <5>1. Left(v \cup {f}) < Left(v) /\ Left(v) \in Nat /\ v \cup {f} \in SUBSET Files
          BY <4>2, OneFewer
        <5>2. Left(v \cup {f}) \in Nat
          BY <5>1, OneFewer
        <5>3. Left(v \cup {f}) < n
          BY <2>n, <2>2, <5>1, <5>2
        <5>4. h[v \cup {f}] = g[v \cup {f}]
          BY <5>1, <5>3
        <5> HIDE DEF h
        <5> QED
          BY <5>4
      <4> QED
        BY <4>1, <4>2
    <3>2. Of(h, v) = Of(g, v)
      <4> HIDE DEF h
      <4> QED
        BY <3>1
    <3>3. h[v] = Of(g, v)
      <4>1. CASE Left(v) < n
        BY <2>1, <4>1 DEF Up
      <4>2. CASE ~ (Left(v) < n)
        <5> HIDE DEF Of
        <5> QED
          BY <4>2
      <4> QED
        BY <4>1, <4>2
    <3> HIDE DEF h, Of
    <3> QED
      BY <3>2, <3>3
  <2> HIDE DEF h
  <2>3. Up(read, h, n + 1)
    BY <2>2 DEF Up
  <2> QED
    BY <2>n, <2>3
<1>3. P = Nat
  <2>1. P \in SUBSET Nat
    OBVIOUS
  <2> HIDE DEF P
  <2> QED
    BY <1>1, <1>2, <2>1, SetInduction
<1> QED
  BY <1>3

(* load is what load_with_includes comes to, file by file. *)
Follows(read, load) ==
  \A visited \in SUBSET Files, f \in Files :
    load[visited][f] = Loads(read, load[visited \cup {f}], visited, f)

LEMMA LoadSteps ==
    ASSUME NEW read
    PROVE  \E load : /\ \A first, included : Load(read, first, included) = load[included][first]
                     /\ Follows(read, load)
<1> DEFINE load == CHOOSE l : IsLoad(read, l)
<1>1. Cardinality(Files) + 1 \in Nat /\ \A v \in SUBSET Files : Left(v) < Cardinality(Files) + 1
  <2>1. ASSUME NEW v \in SUBSET Files PROVE Left(v) < Cardinality(Files) + 1
    BY OneFewer
  <2>2. Cardinality(Files) \in Nat
    BY DocumentsAssumption, FS_CardinalityType
  <2> QED
    BY <2>1, <2>2
<1>2. PICK g : Up(read, g, Cardinality(Files) + 1)
  BY <1>1, LoadsUp
<1> DEFINE h == [v \in SUBSET Files |-> g[v]]
<1>3. ASSUME NEW v \in SUBSET Files
      PROVE  h[v] = [f \in Files |-> Loads(read, h[v \cup {f}], v, f)]
  <2>1. g[v] = [f \in Files |-> Loads(read, g[v \cup {f}], v, f)]
    BY <1>1, <1>2 DEF Up
  <2>2. h[v] = g[v] /\ \A f \in Files : h[v \cup {f}] = g[v \cup {f}]
    OBVIOUS
  <2> HIDE DEF h
  <2> QED
    BY <2>1, <2>2
<1>4. IsLoad(read, h)
  <2>1. h = [v \in SUBSET Files |-> h[v]]
    OBVIOUS
  <2> HIDE DEF h
  <2> QED
    BY <1>3, <2>1 DEF IsLoad
<1>5. IsLoad(read, load)
  <2> HIDE DEF h
  <2> QED
    BY <1>4
<1>6. ASSUME NEW first, NEW included PROVE Load(read, first, included) = load[included][first]
  BY DEF Load, IsLoad, Loads
<1> HIDE DEF load
<1>7. ASSUME NEW v \in SUBSET Files, NEW f \in Files
      PROVE  load[v][f] = Loads(read, load[v \cup {f}], v, f)
  <2>1. load[v] = [e \in Files |-> Loads(read, load[v \cup {e}], v, e)]
    BY <1>5 DEF IsLoad
  <2> QED
    BY <2>1
<1> QED
  BY <1>6, <1>7 DEF Follows

----------------------------------------------------------------------------
(* What a file reaches. *)

Readable(read) == \A f \in Files : f \in DOMAIN read /\ IsDocument(read[f])

LEMMA IncludesAre ==
    ASSUME NEW read, Readable(read), NEW f \in Files
    PROVE  /\ read[f].includes \in Seq(Files)
           /\ Includes(read, f) \subseteq Files
           /\ \A i \in 1 .. Len(read[f].includes) : read[f].includes[i] \in Includes(read, f)
           /\ \A g \in Includes(read, f) :
                 \E i \in 1 .. Len(read[f].includes) : g = read[f].includes[i]
<1>1. read[f].includes \in Seq(Files)
  BY DEF Readable, IsDocument
<1> DEFINE s == read[f].includes
<1> HIDE DEF s
<1>2. s \in Seq(Files)
  BY <1>1 DEF s
<1>3. DOMAIN s = 1 .. Len(s) /\ \A i \in 1 .. Len(s) : s[i] \in Files
  BY <1>2
<1>4. Includes(read, f) = {s[i] : i \in 1 .. Len(s)}
  BY <1>3 DEF Includes, ToSet, s
<1> QED
  BY <1>1, <1>3, <1>4 DEF s

LEMMA ReachedFacts ==
    ASSUME NEW read, Readable(read), NEW f \in Files
    PROVE  /\ f \in Reached(read, f) /\ Reached(read, f) \subseteq Files
           /\ \A g \in Reached(read, f) : /\ Includes(read, g) \subseteq Reached(read, f)
                                          /\ Reached(read, g) \subseteq Reached(read, f)
           /\ \A g \in Reached(read, f) : g = f \/ \E h \in Includes(read, f) : g \in Reached(read, h)
<1> DEFINE Closed(S) == \A h \in S : Includes(read, h) \subseteq S
<1>1. \A e, g : g \in Reached(read, e) <=> g \in Files /\ \A S \in SUBSET Files : e \in S /\ Closed(S) => g \in S
  BY DEF Reached
<1>2. \A e \in Files : Includes(read, e) \subseteq Files
  BY IncludesAre
<1>3. \A e \in Files : e \in Reached(read, e)
  BY <1>1
<1>4. \A e : Closed(Reached(read, e))
  <2> SUFFICES ASSUME NEW e, NEW g \in Reached(read, e), NEW h \in Includes(read, g)
               PROVE  h \in Reached(read, e)
    OBVIOUS
  <2>1. g \in Files /\ h \in Files
    BY <1>1, <1>2
  <2>2. ASSUME NEW S \in SUBSET Files, e \in S, Closed(S) PROVE h \in S
    <3>1. g \in S
      BY <1>1, <2>2
    <3> QED
      BY <2>2, <3>1
  <2> HIDE DEF Closed
  <2> QED
    BY <1>1, <2>1, <2>2
<1>5. \A e : Reached(read, e) \subseteq Files
  BY <1>1
<1>6. ASSUME NEW g \in Reached(read, f) PROVE Reached(read, g) \subseteq Reached(read, f)
  <2> HIDE DEF Closed
  <2> QED
    BY <1>1, <1>4, <1>5
<1>7. ASSUME NEW g \in Reached(read, f)
      PROVE  g = f \/ \E h \in Includes(read, f) : g \in Reached(read, h)
  <2> DEFINE S == {f} \cup UNION {Reached(read, h) : h \in Includes(read, f)}
  <2>1. S \in SUBSET Files
    BY <1>5
  <2>2. Closed(S)
    <3> SUFFICES ASSUME NEW h \in S, NEW e \in Includes(read, h) PROVE e \in S
      OBVIOUS
    <3>1. CASE h = f
      <4>1. e \in Reached(read, e)
        BY <1>2, <1>3, <3>1
      <4> QED
        BY <3>1, <4>1
    <3>2. CASE h # f
      <4>1. PICK d \in Includes(read, f) : h \in Reached(read, d)
        BY <3>2
      <4>2. e \in Reached(read, d)
        BY <1>4, <4>1
      <4> QED
        BY <4>1, <4>2
    <3> QED
      BY <3>1, <3>2
  <2> HIDE DEF Closed
  <2>3. g \in S
    BY <1>1, <2>1, <2>2
  <2> QED
    BY <2>3
<1>8. Closed(Reached(read, f))
  BY <1>4
<1> QED
  BY <1>3, <1>5, <1>6, <1>7, <1>8

(* A file is loadable when it is a document that does not come back to     *)
(* itself and the files it includes are.                                   *)
LEMMA LoadableFacts ==
    ASSUME NEW read, Readable(read), NEW f \in Files
    PROVE  /\ Loadable(read, f) =>
                 /\ read[f].kind = "yaml"
                 /\ \A g \in Includes(read, f) : f \notin Reached(read, g)
                 /\ \A g \in Reached(read, f) : Loadable(read, g)
           /\ /\ read[f].kind = "yaml"
              /\ \A g \in Includes(read, f) : f \notin Reached(read, g) /\ Loadable(read, g)
              => Loadable(read, f)
<1> DEFINE Fine(g) == read[g].kind = "yaml" /\ \A h \in Includes(read, g) : g \notin Reached(read, h)
<1>1. \A e : Loadable(read, e) <=> \A g \in Reached(read, e) : Fine(g)
  BY DEF Loadable
<1>2. \A g \in Reached(read, f) : Reached(read, g) \subseteq Reached(read, f)
  BY ReachedFacts
<1>3. f \in Reached(read, f)
  BY ReachedFacts
<1>4. \A g \in Reached(read, f) : g = f \/ \E h \in Includes(read, f) : g \in Reached(read, h)
  BY ReachedFacts
<1>5. ASSUME Fine(f), \A g \in Includes(read, f) : Loadable(read, g) PROVE Loadable(read, f)
  <2> HIDE DEF Fine
  <2> QED
    BY <1>1, <1>4, <1>5
<1>6. Loadable(read, f) => Fine(f) /\ \A g \in Reached(read, f) : Loadable(read, g)
  <2> HIDE DEF Fine
  <2> QED
    BY <1>1, <1>2, <1>3
<1> QED
  BY <1>5, <1>6

----------------------------------------------------------------------------
(* What laying one result over another comes to. *)

LEMMA OverFacts ==
    /\ \A r : Over(Fatal, r) = Fatal
    /\ \A k : Over(Loaded(k), Fatal) = Fatal
    /\ \A j, k : Over(Loaded(j), Loaded(k)) = Loaded(Merge(j, k))
    /\ \A k : Loaded(k) # Fatal
<1>1. \A k : Loaded(k).outcome = "loaded" /\ Loaded(k).keys = k
  BY DEF Loaded
<1>2. Fatal.outcome = "fatal"
  BY DEF Fatal
<1>3. \A r : Over(Fatal, r) = Fatal
  BY <1>2 DEF Over
<1>4. \A k : Over(Loaded(k), Fatal) = Fatal
  BY <1>1, <1>2, Zenon DEF Over
<1>5. \A j, k : Over(Loaded(j), Loaded(k)) = Loaded(Merge(j, k))
  BY <1>1, Zenon DEF Over
<1>6. \A k : Loaded(k) # Fatal
  BY <1>1, <1>2
<1> QED
  BY <1>3, <1>4, <1>5, <1>6

IsLoaded(r) == \E k : r = Loaded(k)

(* Includes of which each is loaded or not make a merge that is loaded     *)
(* exactly when each of them is.                                           *)
LEMMA MergeNeedsAll ==
    ASSUME NEW X, NEW includes \in Seq(X), NEW sub,
           \A i \in 1 .. Len(includes) : sub[includes[i]] = Fatal \/ IsLoaded(sub[includes[i]])
    PROVE  \/ MergeIncludes(includes, sub) = Fatal
           \/ /\ IsLoaded(MergeIncludes(includes, sub))
              /\ \A i \in 1 .. Len(includes) : IsLoaded(sub[includes[i]])
<1> DEFINE n == Len(includes)
<1>1. n \in Nat
  OBVIOUS
<1>2. PICK acc : /\ MergeIncludes(includes, sub) = acc[n]
                 /\ acc[0] = Loaded(Defaults)
                 /\ \A i \in 1 .. n : acc[i] = Over(acc[i - 1], sub[includes[i]])
  BY MergeSteps
<1> DEFINE Right(m) == acc[m] = Fatal \/ (IsLoaded(acc[m]) /\ \A i \in 1 .. m : IsLoaded(sub[includes[i]]))
           P == {m \in Nat : m <= n => Right(m)}
<1> HIDE DEF n
<1>3. 0 \in P
  BY <1>1, <1>2 DEF IsLoaded
<1>4. ASSUME NEW m \in P PROVE m + 1 \in P
  <2> SUFFICES ASSUME m + 1 <= n PROVE Right(m + 1)
    OBVIOUS
  <2>1. m \in Nat /\ m <= n /\ m + 1 \in 1 .. n /\ m + 1 - 1 = m
    BY <1>1
  <2> DEFINE new == sub[includes[m + 1]]
  <2>2. acc[m + 1] = Over(acc[m], new)
    BY <1>2, <2>1
  <2>3. new = Fatal \/ IsLoaded(new)
    BY <2>1 DEF n
  <2>4. Right(m)
    BY <2>1
  <2>5. \A i \in 1 .. m + 1 : i \in 1 .. m \/ i = m + 1
    BY <2>1
  <2>6. CASE acc[m] = Fatal \/ new = Fatal
    <3>1. acc[m + 1] = Fatal
      <4> HIDE DEF new
      <4> QED
        BY <2>2, <2>4, <2>6, OverFacts DEF IsLoaded
    <3> QED
      BY <3>1
  <2>7. CASE acc[m] # Fatal /\ new # Fatal
    <3>1. IsLoaded(acc[m]) /\ IsLoaded(new) /\ \A i \in 1 .. m : IsLoaded(sub[includes[i]])
      BY <2>3, <2>4, <2>7
    <3>2. IsLoaded(acc[m + 1])
      <4> HIDE DEF new
      <4> QED
        BY <2>2, <3>1, OverFacts DEF IsLoaded
    <3>3. \A i \in 1 .. m + 1 : IsLoaded(sub[includes[i]])
      BY <2>5, <3>1
    <3> QED
      BY <3>2, <3>3
  <2> QED
    BY <2>6, <2>7
<1>5. P = Nat
  <2>1. P \in SUBSET Nat
    OBVIOUS
  <2> HIDE DEF P
  <2> QED
    BY <1>3, <1>4, <2>1, SetInduction
<1>6. Right(n)
  <2> HIDE DEF Right
  <2> QED
    BY <1>1, <1>5
<1> QED
  BY <1>2, <1>6 DEF n

(* What loads is loadable, and reaches none of the files including it. *)
LEMMA LoadedIsLoadable ==
    ASSUME NEW read, Readable(read), NEW load,
           Follows(read, load),
           NEW v \in SUBSET Files, NEW f \in Files
    PROVE  \/ load[v][f] = Fatal
           \/ IsLoaded(load[v][f]) /\ Loadable(read, f) /\ Reached(read, f) \cap v = {}
<1> DEFINE Right(w, g) == \/ load[w][g] = Fatal
                          \/ IsLoaded(load[w][g]) /\ Loadable(read, g) /\ Reached(read, g) \cap w = {}
           P == {n \in Nat : \A w \in SUBSET Files : Left(w) < n => \A g \in Files : Right(w, g)}
<1>1. 0 \in P
  <2>1. \A w \in SUBSET Files : ~ (Left(w) < 0)
    BY OneFewer
  <2> QED
    BY <2>1
<1>2. ASSUME NEW n \in P PROVE n + 1 \in P
  <2> SUFFICES ASSUME NEW w \in SUBSET Files, Left(w) < n + 1, NEW g \in Files PROVE Right(w, g)
    OBVIOUS
  <2> DEFINE u   == w \cup {g}
             inc == read[g].includes
             all == MergeIncludes(inc, load[u])
  <2>1. load[w][g] = Loads(read, load[u], w, g)
    BY DEF Follows
  <2>2. CASE g \in w \/ read[g].kind # "yaml"
    <3>1. g \in DOMAIN read
      BY DEF Readable
    <3> QED
      BY <2>1, <2>2, <3>1 DEF Loads
  <2>3. CASE g \notin w /\ read[g].kind = "yaml"
    <3>1. Left(u) < n /\ u \in SUBSET Files
      <4>1. Left(u) < Left(w) /\ Left(w) \in Nat /\ u \in SUBSET Files
        BY <2>3, OneFewer
      <4>2. Left(u) \in Nat /\ n \in Nat
        BY <4>1, OneFewer
      <4> QED
        BY <4>1, <4>2
    <3>2. \A h \in Files : Right(u, h)
      BY <3>1
    <3>3. /\ inc \in Seq(Files)
          /\ Includes(read, g) \subseteq Files
          /\ \A i \in 1 .. Len(inc) : inc[i] \in Files
          /\ \A h \in Includes(read, g) : \E i \in 1 .. Len(inc) : h = inc[i]
      BY IncludesAre
    <3> HIDE DEF u
    <3>4. \A i \in 1 .. Len(inc) : load[u][inc[i]] = Fatal \/ IsLoaded(load[u][inc[i]])
      BY <3>2, <3>3
    <3>5. load[w][g] = Over(all, Loaded(read[g].keys))
      BY <2>1, <2>3 DEF Loads, Readable
    <3>6. \/ all = Fatal
          \/ IsLoaded(all) /\ \A i \in 1 .. Len(inc) : IsLoaded(load[u][inc[i]])
      <4> HIDE DEF inc
      <4> QED
        BY <3>3, <3>4, MergeNeedsAll
    <3>7. CASE all = Fatal
      <4>1. load[w][g] = Fatal
        <5> HIDE DEF all
        <5> QED
          BY <3>5, <3>7, OverFacts
      <4> QED
        BY <4>1
    <3>8. CASE IsLoaded(all) /\ \A i \in 1 .. Len(inc) : IsLoaded(load[u][inc[i]])
      <4>1. IsLoaded(load[w][g])
        <5> HIDE DEF all
        <5> QED
          BY <3>5, <3>8, OverFacts DEF IsLoaded
      <4>2. ASSUME NEW h \in Includes(read, g) PROVE Loadable(read, h) /\ Reached(read, h) \cap u = {}
        <5>1. IsLoaded(load[u][h]) /\ h \in Files
          BY <3>3, <3>8
        <5>2. load[u][h] # Fatal
          BY <5>1, OverFacts DEF IsLoaded
        <5> QED
          BY <3>2, <5>1, <5>2
      <4>3. Loadable(read, g)
        BY <2>3, <4>2, LoadableFacts DEF u
      <4>4. Reached(read, g) \cap w = {}
        <5>1. \A e \in Reached(read, g) : e = g \/ \E h \in Includes(read, g) : e \in Reached(read, h)
          BY ReachedFacts
        <5> QED
          BY <2>3, <4>2, <5>1 DEF u
      <4> QED
        BY <4>1, <4>3, <4>4
    <3> QED
      BY <3>6, <3>7, <3>8
  <2> QED
    BY <2>2, <2>3
<1>3. P = Nat
  <2>1. P \in SUBSET Nat
    OBVIOUS
  <2> HIDE DEF P
  <2> QED
    BY <1>1, <1>2, <2>1, SetInduction
<1>4. Left(v) + 1 \in Nat /\ Left(v) < Left(v) + 1
  <2>1. Left(v) \in Nat
    BY OneFewer
  <2> QED
    BY <2>1
<1>5. Right(v, f)
  <2>1. \A n \in Nat : \A w \in SUBSET Files : Left(w) < n => \A g \in Files : Right(w, g)
    BY <1>3
  <2> HIDE DEF Right, P
  <2> QED
    BY <1>4, <2>1
<1> QED
  BY <1>5

(* A function defined by recursion over 0 .. n exists. *)
Iterates(g, n, first, step) ==
  \A i \in 0 .. n : g[i] = IF i = 0 THEN first ELSE step[i][g[i - 1]]

LEMMA Recursion ==
  ASSUME NEW T, NEW first \in T, NEW n \in Nat, NEW step \in [Nat -> [T -> T]]
  PROVE  \E g \in [0 .. n -> T] : Iterates(g, n, first, step)
<1> DEFINE Built(m, g) == Iterates(g, m, first, step)
           P == {m \in Nat : \E g \in [0 .. m -> T] : Built(m, g)}
<1>1. 0 \in P
  <2>1. [i \in 0 .. 0 |-> first] \in [0 .. 0 -> T] /\ Built(0, [i \in 0 .. 0 |-> first])
    BY DEF Iterates
  <2> QED
    BY <2>1
<1>2. ASSUME NEW m \in P PROVE m + 1 \in P
  <2>1. PICK g \in [0 .. m -> T] : Built(m, g)
    OBVIOUS
  <2> DEFINE h == [i \in 0 .. m + 1 |-> IF i = m + 1 THEN step[i][g[m]] ELSE g[i]]
  <2>2. m \in Nat /\ m + 1 - 1 = m
    OBVIOUS
  <2>3. step[m + 1][g[m]] \in T
    BY <2>2
  <2>4. h \in [0 .. m + 1 -> T]
    BY <2>2, <2>3
  <2>5. ASSUME NEW i \in 0 .. m + 1
        PROVE  h[i] = IF i = 0 THEN first ELSE step[i][h[i - 1]]
    <3>1. CASE i = m + 1
      BY <2>2, <3>1
    <3>2. CASE i \in 0 .. m
      <4>1. h[i] = g[i] /\ (i # 0 => i - 1 \in 0 .. m /\ h[i - 1] = g[i - 1])
        BY <2>2, <3>2
      <4> QED
        BY <2>1, <3>2, <4>1 DEF Iterates
    <3> QED
      BY <2>2, <3>1, <3>2
  <2>6. Built(m + 1, h)
    BY <2>5 DEF Iterates
  <2>7. m + 1 \in Nat
    BY <2>2
  <2> HIDE DEF Built, h
  <2> QED
    BY <2>4, <2>6, <2>7
<1>3. P = Nat
  <2> HIDE DEF Built
  <2>1. P \in SUBSET Nat
    OBVIOUS
  <2> HIDE DEF P
  <2> QED
    BY <1>1, <1>2, <2>1, SetInduction
<1> QED
  BY <1>3

(* Induction over sequences, an element at a time. *)
LEMMA AppendInduction ==
  ASSUME NEW X, NEW P \in SUBSET Seq(X), << >> \in P,
         \A s \in P, x \in X : Append(s, x) \in P
  PROVE  P = Seq(X)
<1> DEFINE N == {n \in Nat : \A s \in Seq(X) : Len(s) = n => s \in P}
<1>1. 0 \in N
  BY EmptySeq
<1>2. ASSUME NEW n \in N PROVE n + 1 \in N
  <2> SUFFICES ASSUME NEW s \in Seq(X), Len(s) = n + 1 PROVE s \in P
    OBVIOUS
  <2>1. n \in Nat /\ s # << >>
    BY EmptySeq
  <2>2. PICK t \in Seq(X), x \in X : s = Append(t, x)
    BY <2>1, SequenceEmptyOrAppend
  <2>3. Len(s) = Len(t) + 1 /\ Len(t) \in Nat
    BY <2>2, AppendProperties, LenProperties
  <2>4. Len(t) = n
    BY <2>1, <2>3
  <2> QED BY <2>2, <2>4
<1>3. N = Nat
  <2>1. N \in SUBSET Nat
    OBVIOUS
  <2> HIDE DEF N
  <2> QED BY <1>1, <1>2, <2>1, SetInduction
<1> QED BY <1>3, LenProperties

----------------------------------------------------------------------------
(* FlattenSeq puts the sequences one after the other. *)
Puts(flat, ss) == \A i \in 1 .. Len(ss) : flat[i] = flat[i - 1] \o ss[i]

LEMMA FlatSteps ==
  ASSUME NEW X, NEW ss \in Seq(Seq(X))
  PROVE  \E flat \in [0 .. Len(ss) -> Seq(X)] :
           FlattenSeq(ss) = flat[Len(ss)] /\ flat[0] = << >> /\ Puts(flat, ss)
<1> DEFINE n == Len(ss)
           step == [i \in Nat |-> [t \in Seq(X) |-> IF i \in 1 .. n THEN t \o ss[i] ELSE t]]
           Is(g) == g = [i \in 1 .. n |-> IF i = 1 THEN ss[i] ELSE g[i - 1] \o ss[i]]
           chosen == CHOOSE g : Is(g)
           flat == [i \in 0 .. n |-> IF i = 0 THEN << >> ELSE chosen[i]]
<1>1. n \in Nat /\ << >> \in Seq(X) /\ \A i \in 1 .. n : ss[i] \in Seq(X)
  BY LenProperties, EmptySeq
<1>2. step \in [Nat -> [Seq(X) -> Seq(X)]]
  BY <1>1, ConcatProperties
<1>3. PICK g \in [0 .. n -> Seq(X)] :
        \A i \in 0 .. n : g[i] = IF i = 0 THEN << >> ELSE step[i][g[i - 1]]
  <2> DEFINE T == Seq(X)
             first == << >>
  <2>1. n \in Nat /\ first \in T /\ step \in [Nat -> [T -> T]]
    BY <1>1, <1>2
  <2> HIDE DEF step, n, T, first
  <2>2. \E g \in [0 .. n -> T] : Iterates(g, n, first, step)
    BY <2>1, Recursion
  <2> QED BY <2>2 DEF T, first, Iterates
<1> DEFINE h == [i \in 1 .. n |-> g[i]]
<1>4. Is(h)
  <2> SUFFICES ASSUME NEW i \in 1 .. n
               PROVE  h[i] = IF i = 1 THEN ss[i] ELSE h[i - 1] \o ss[i]
    OBVIOUS
  <2>1. i \in Nat /\ i \in 0 .. n /\ i - 1 \in 0 .. n /\ i # 0
    BY <1>1
  <2>2. g[i] = step[i][g[i - 1]] /\ g[i - 1] \in Seq(X)
    BY <1>3, <2>1
  <2>3. step[i][g[i - 1]] = g[i - 1] \o ss[i]
    BY <2>1, <2>2
  <2>4. CASE i = 1
    <3>1. i - 1 = 0 /\ 0 \in 0 .. n
      BY <1>1, <2>4
    <3>2. g[0] = << >>
      <4> HIDE DEF step
      <4> QED BY <1>3, <3>1
    <3>3. << >> \o ss[i] = ss[i]
      BY <1>1, ConcatEmptySeq
    <3> HIDE DEF step, n, h
    <3>4. h[i] = g[i]
      BY DEF h
    <3> QED BY <2>2, <2>3, <2>4, <3>1, <3>2, <3>3, <3>4
  <2>5. CASE i # 1
    <3>1. i - 1 \in 1 .. n
      BY <2>1, <2>5
    <3>2. h[i - 1] = g[i - 1] /\ h[i] = g[i]
      BY <3>1
    <3> HIDE DEF h, step, n
    <3> QED BY <2>2, <2>3, <2>5, <3>2
  <2> QED BY <2>4, <2>5
<1>5. Is(chosen)
  <2> HIDE DEF Is, h
  <2> QED BY <1>4
<1>6. n # 0 => FlattenSeq(ss) = chosen[n]
  BY DEF FlattenSeq
<1> HIDE DEF chosen
<1>7. \A i \in 1 .. n : chosen[i] = IF i = 1 THEN ss[i] ELSE chosen[i - 1] \o ss[i]
  <2> HIDE DEF n
  <2> QED BY <1>5
<1>8. \A i \in 0 .. n : flat[i] \in Seq(X)
  <2> DEFINE P == {m \in Nat : m <= n => flat[m] \in Seq(X)}
  <2>1. 0 \in P
    BY <1>1
  <2>2. ASSUME NEW m \in P PROVE m + 1 \in P
    <3> SUFFICES ASSUME m + 1 <= n PROVE flat[m + 1] \in Seq(X)
      OBVIOUS
    <3>1. m \in Nat /\ m + 1 \in 1 .. n /\ m + 1 - 1 = m /\ m <= n
      BY <1>1
    <3>2. flat[m] \in Seq(X) /\ ss[m + 1] \in Seq(X)
      BY <1>1, <3>1
    <3>3. flat[m + 1] = IF m + 1 = 1 THEN ss[m + 1] ELSE chosen[m] \o ss[m + 1]
      BY <1>7, <3>1
    <3>4. m # 0 => flat[m] = chosen[m]
      BY <1>1, <3>1
    <3>5. m # 0 => chosen[m] \o ss[m + 1] \in Seq(X)
      <4> HIDE DEF flat
      <4> QED BY <3>2, <3>4, ConcatProperties
    <3>6. m + 1 = 1 <=> m = 0
      BY <3>1
    <3> HIDE DEF flat
    <3> QED BY <3>2, <3>3, <3>5, <3>6
  <2>3. P \in SUBSET Nat
    OBVIOUS
  <2>4. P = Nat
    <3> HIDE DEF P
    <3> QED BY <2>1, <2>2, <2>3, SetInduction
  <2> HIDE DEF flat, n
  <2>5. \A m \in Nat : m <= n => flat[m] \in Seq(X)
    BY <2>4
  <2> QED BY <1>1, <2>5
<1>9. ASSUME NEW i \in 1 .. n PROVE flat[i] = flat[i - 1] \o ss[i]
  <2>1. i \in Nat /\ i \in 0 .. n /\ i - 1 \in 0 .. n /\ i # 0
    BY <1>1
  <2>2. flat[i] = IF i = 1 THEN ss[i] ELSE chosen[i - 1] \o ss[i]
    BY <1>7, <2>1
  <2>3. CASE i = 1
    <3>1. flat[i - 1] = << >>
      BY <1>1, <2>3
    <3>2. << >> \o ss[i] = ss[i]
      BY <1>1, ConcatEmptySeq
    <3> HIDE DEF flat
    <3> QED BY <2>2, <2>3, <3>1, <3>2
  <2>4. CASE i # 1
    <3>1. flat[i - 1] = chosen[i - 1]
      BY <2>1, <2>4
    <3> HIDE DEF flat
    <3> QED BY <2>2, <2>4, <3>1
  <2> QED BY <2>3, <2>4
<1>10. FlattenSeq(ss) = flat[n]
  <2>1. CASE n = 0
    <3>1. FlattenSeq(ss) = ss /\ ss = << >>
      BY <2>1, EmptySeq DEF FlattenSeq
    <3> QED BY <2>1, <3>1
  <2>2. CASE n # 0
    BY <1>1, <1>6, <2>2
  <2> QED BY <2>1, <2>2
<1>11. flat[0] = << >> /\ flat \in [0 .. n -> Seq(X)]
  BY <1>1, <1>8
<1> HIDE DEF flat
<1>12. Puts(flat, ss)
  BY <1>9 DEF Puts
<1> HIDE DEF n
<1> QED BY <1>10, <1>11, <1>12 DEF n

LEMMA PutsNext ==
  ASSUME NEW flat, NEW ss, NEW m \in Nat, Puts(flat, ss), m + 1 \in 1 .. Len(ss)
  PROVE  flat[m + 1] = flat[m] \o ss[m + 1]
<1>1. (m + 1) - 1 = m
  OBVIOUS
<1>2. flat[m + 1] = flat[(m + 1) - 1] \o ss[m + 1]
  BY Zenon DEF Puts
<1> QED BY <1>1, <1>2

LEMMA FlatAppend ==
  ASSUME NEW X, NEW ss \in Seq(Seq(X)), NEW s \in Seq(X)
  PROVE  /\ FlattenSeq(ss) \in Seq(X)
         /\ FlattenSeq(Append(ss, s)) = FlattenSeq(ss) \o s
<1> DEFINE tt == Append(ss, s)
           n == Len(ss)
<1>1. /\ tt \in Seq(Seq(X)) /\ n \in Nat /\ Len(tt) = n + 1 /\ tt[n + 1] = s
      /\ \A i \in 1 .. n : tt[i] = ss[i]
  <2>1. tt \in Seq(Seq(X)) /\ Len(tt) = n + 1
    BY AppendProperties
  <2>2. \A i \in 1 .. n : tt[i] = ss[i]
    BY AppendProperties
  <2>3. tt[n + 1] = s
    BY AppendProperties
  <2> QED BY <2>1, <2>2, <2>3, LenProperties
<1>2. PICK f \in [0 .. n -> Seq(X)] :
        FlattenSeq(ss) = f[n] /\ f[0] = << >> /\ Puts(f, ss)
  BY FlatSteps
<1> HIDE DEF tt, n
<1>3. PICK g \in [0 .. Len(tt) -> Seq(X)] :
        FlattenSeq(tt) = g[Len(tt)] /\ g[0] = << >> /\ Puts(g, tt)
  BY <1>1, FlatSteps
<1> DEFINE P == {m \in Nat : m <= n => g[m] = f[m]}
<1>4. 0 \in P
  BY <1>1, <1>2, <1>3
<1>5. ASSUME NEW m \in P PROVE m + 1 \in P
  <2> SUFFICES ASSUME m + 1 <= n PROVE g[m + 1] = f[m + 1]
    OBVIOUS
  <2>1. m + 1 \in 1 .. n /\ m + 1 \in 1 .. Len(tt) /\ m + 1 - 1 = m /\ m <= n
    BY <1>1
  <2>2. g[m] = f[m] /\ tt[m + 1] = ss[m + 1]
    BY <1>1, <2>1
  <2>3. f[m + 1] = f[m] \o ss[m + 1]
    BY <1>2, <2>1, PutsNext DEF n
  <2>4. g[m + 1] = g[m] \o tt[m + 1]
    BY <1>3, <2>1, PutsNext
  <2> QED BY <2>2, <2>3, <2>4
<1>6. P = Nat
  <2>1. P \in SUBSET Nat
    OBVIOUS
  <2> HIDE DEF P
  <2> QED BY <1>4, <1>5, <2>1, SetInduction
<1>7. g[n] = f[n]
  <2> HIDE DEF n
  <2>1. \A m \in Nat : m <= n => g[m] = f[m]
    BY <1>6
  <2> QED BY <1>1, <2>1
<1>8. n + 1 \in 1 .. Len(tt) /\ n + 1 - 1 = n /\ n \in 0 .. n
  BY <1>1
<1>9. g[n + 1] = g[n] \o tt[n + 1]
  BY <1>1, <1>3, <1>8, PutsNext
<1>10. FlattenSeq(tt) = FlattenSeq(ss) \o s
  BY <1>1, <1>2, <1>3, <1>7, <1>9
<1>11. FlattenSeq(ss) \in Seq(X)
  BY <1>2, <1>8
<1> QED BY <1>10, <1>11 DEF tt

LEMMA FlatEmpty == FlattenSeq(<< >>) = << >>
BY EmptySeq DEF FlattenSeq

----------------------------------------------------------------------------
(* Keys over keys. *)

IsKeys(l, V) ==
  /\ l = [k \in DOMAIN l |-> l[k]]
  /\ \A k \in Listed \cap DOMAIN l : l[k] \in Seq(V)

Both(l, r, k) ==
  IF k \notin DOMAIN r THEN l[k]
  ELSE IF k \in Listed /\ k \in DOMAIN l THEN l[k] \o r[k] ELSE r[k]

LEMMA MergeAt ==
  \A l, r : /\ DOMAIN Merge(l, r) = DOMAIN l \cup DOMAIN r
            /\ Merge(l, r) = [k \in DOMAIN l \cup DOMAIN r |-> Merge(l, r)[k]]
            /\ \A k : k \in DOMAIN l \/ k \in DOMAIN r => Merge(l, r)[k] = Both(l, r, k)
BY DEF Merge, Both

LEMMA MergeIsKeys ==
  ASSUME NEW V, NEW l, NEW r, IsKeys(l, V), IsKeys(r, V)
  PROVE  IsKeys(Merge(l, r), V)
<1>1. Merge(l, r) = [k \in DOMAIN Merge(l, r) |-> Merge(l, r)[k]]
  BY DEF Merge
<1>2. ASSUME NEW k \in Listed \cap DOMAIN Merge(l, r) PROVE Merge(l, r)[k] \in Seq(V)
  <2>1. \A a, b \in Seq(V) : a \o b \in Seq(V)
    BY ConcatProperties
  <2>2. k \in DOMAIN l \/ k \in DOMAIN r
    BY MergeAt
  <2>3. Merge(l, r)[k] = Both(l, r, k)
    BY <2>2, MergeAt
  <2>4. (k \in DOMAIN l => l[k] \in Seq(V)) /\ (k \in DOMAIN r => r[k] \in Seq(V))
    BY DEF IsKeys
  <2> QED
    BY <2>1, <2>2, <2>3, <2>4 DEF Both
<1> QED
  BY <1>1, <1>2 DEF IsKeys

LEMMA MergeDefaults ==
  ASSUME NEW V, NEW l, IsKeys(l, V)
  PROVE  Merge(l, Defaults) = l /\ Merge(Defaults, l) = l /\ IsKeys(Defaults, V)
<1>1. DOMAIN Defaults = {} /\ Defaults = [k \in DOMAIN Defaults |-> Defaults[k]]
  BY DEF Defaults
<1> HIDE DEF Defaults
<1>2. l = [k \in DOMAIN l |-> l[k]]
  BY DEF IsKeys
<1>3. Merge(l, Defaults) = [k \in DOMAIN l |-> l[k]]
  BY <1>1 DEF Merge
<1>4. Merge(Defaults, l) = [k \in DOMAIN l |-> l[k]]
  BY <1>1 DEF Merge
<1> QED
  BY <1>1, <1>2, <1>3, <1>4 DEF IsKeys

LEMMA MergeAssoc ==
  ASSUME NEW V, NEW l, NEW m, NEW r, IsKeys(l, V), IsKeys(m, V), IsKeys(r, V)
  PROVE  Merge(Merge(l, m), r) = Merge(l, Merge(m, r))
<1> DEFINE a == Merge(Merge(l, m), r)
           b == Merge(l, Merge(m, r))
           D == DOMAIN l \cup DOMAIN m \cup DOMAIN r
           lm == Merge(l, m)
           mr == Merge(m, r)
<1>1. /\ DOMAIN lm = DOMAIN l \cup DOMAIN m /\ DOMAIN mr = DOMAIN m \cup DOMAIN r
      /\ \A k : k \in DOMAIN l \/ k \in DOMAIN m => lm[k] = Both(l, m, k)
      /\ \A k : k \in DOMAIN m \/ k \in DOMAIN r => mr[k] = Both(m, r, k)
  BY MergeAt
<1>0. a = Merge(lm, r) /\ b = Merge(l, mr)
  OBVIOUS
<1> HIDE DEF a, b, lm, mr
<1>2a. /\ DOMAIN a = DOMAIN lm \cup DOMAIN r
       /\ a = [k \in DOMAIN lm \cup DOMAIN r |-> a[k]]
       /\ \A k : k \in DOMAIN lm \/ k \in DOMAIN r => a[k] = Both(lm, r, k)
  BY <1>0, MergeAt
<1>2b. /\ DOMAIN b = DOMAIN l \cup DOMAIN mr
       /\ b = [k \in DOMAIN l \cup DOMAIN mr |-> b[k]]
       /\ \A k : k \in DOMAIN l \/ k \in DOMAIN mr => b[k] = Both(l, mr, k)
  BY <1>0, MergeAt
<1>3. ASSUME NEW k \in D PROVE a[k] = b[k]
  <2>6. k \in Listed /\ k \in DOMAIN l /\ k \in DOMAIN m /\ k \in DOMAIN r =>
          (l[k] \o m[k]) \o r[k] = l[k] \o (m[k] \o r[k])
    <3>1. k \in Listed /\ k \in DOMAIN l /\ k \in DOMAIN m /\ k \in DOMAIN r =>
            l[k] \in Seq(V) /\ m[k] \in Seq(V) /\ r[k] \in Seq(V)
      BY DEF IsKeys
    <3>2. \A p, q, s \in Seq(V) : (p \o q) \o s = p \o (q \o s)
      BY ConcatAssociative
    <3> QED
      BY <3>1, <3>2
  <2>7. (k \in DOMAIN lm <=> k \in DOMAIN l \/ k \in DOMAIN m) /\ (k \in DOMAIN mr <=> k \in DOMAIN m \/ k \in DOMAIN r)
    BY <1>1
  <2>8. k \in DOMAIN l \/ k \in DOMAIN m \/ k \in DOMAIN r
    OBVIOUS
  <2>9. a[k] = Both(lm, r, k) /\ b[k] = Both(l, mr, k)
    BY <1>2a, <1>2b, <2>7, <2>8
  <2>10. /\ k \in DOMAIN l \/ k \in DOMAIN m => lm[k] = Both(l, m, k)
         /\ k \in DOMAIN m \/ k \in DOMAIN r => mr[k] = Both(m, r, k)
    BY <1>1
  <2> HIDE DEF D
  <2>11. CASE k \notin DOMAIN r
    BY <2>7, <2>8, <2>9, <2>10, <2>11 DEF Both
  <2>12. CASE k \in DOMAIN r /\ k \notin Listed
    BY <2>7, <2>8, <2>9, <2>10, <2>12 DEF Both
  <2>13. CASE k \in DOMAIN r /\ k \in Listed
    <3>1. CASE k \notin DOMAIN m
      BY <2>7, <2>8, <2>9, <2>10, <2>13, <3>1 DEF Both
    <3>2. CASE k \in DOMAIN m /\ k \notin DOMAIN l
      BY <2>7, <2>8, <2>9, <2>10, <2>13, <3>2 DEF Both
    <3>3. CASE k \in DOMAIN m /\ k \in DOMAIN l
      <4>1. lm[k] = l[k] \o m[k] /\ mr[k] = m[k] \o r[k]
        BY <2>10, <2>13, <3>3, Zenon DEF Both
      <4>2. a[k] = lm[k] \o r[k] /\ b[k] = l[k] \o mr[k]
        BY <2>7, <2>9, <2>13, <3>3, Zenon DEF Both
      <4>3. (l[k] \o m[k]) \o r[k] = l[k] \o (m[k] \o r[k])
        BY <2>6, <2>13, <3>3
      <4> QED
        BY <4>1, <4>2, <4>3, Zenon
    <3> QED
      BY <3>1, <3>2, <3>3
  <2> QED
    BY <2>11, <2>12, <2>13
<1>4. a = [k \in D |-> a[k]] /\ b = [k \in D |-> b[k]]
  <2>1. DOMAIN lm \cup DOMAIN r = D /\ DOMAIN l \cup DOMAIN mr = D
    BY <1>1
  <2> HIDE DEF D
  <2> QED
    BY <1>2a, <1>2b, <2>1, Zenon
<1>5. a = b
  <2> HIDE DEF D
  <2> QED
    BY <1>3, <1>4
<1> QED
  BY <1>5 DEF a, b, lm, mr

----------------------------------------------------------------------------
(* The keys of the files of an order: one more file is laid over them. *)

Values(read) ==
  UNION {UNION {ToSet(read[f].keys[k]) : k \in Listed \cap DOMAIN read[f].keys} : f \in Files}

LEMMA KeysAre ==
  ASSUME NEW read, Readable(read), NEW f \in Files
  PROVE  IsKeys(read[f].keys, Values(read))
<1> DEFINE keys == read[f].keys
           V == Values(read)
<1>1. keys = [k \in DOMAIN keys |-> keys[k]]
  BY DEF Readable, IsDocument
<1>2. ASSUME NEW k \in Listed \cap DOMAIN keys PROVE keys[k] \in Seq(V)
  <2> DEFINE s == keys[k]
             Y == ToSet(s)
             n == Len(s)
  <2>1. s \in Seq(Y)
    BY DEF Readable, IsDocument
  <2>2. Y \subseteq V
    BY DEF Values
  <2> HIDE DEF Y, V
  <2>3. s = [i \in 1 .. n |-> s[i]] /\ n \in Nat /\ \A i \in 1 .. n : s[i] \in Y
    BY <2>1, LenProperties, ElementOfSeq
  <2> HIDE DEF n, s
  <2>4. \A i \in 1 .. n : s[i] \in V
    BY <2>2, <2>3
  <2> QED
    BY <2>3, <2>4 DEF s
<1> QED
  BY <1>1, <1>2 DEF IsKeys

(* The positions of an order whose files have a key. *)
Has(read, order, k)  == {i \in DOMAIN order : k \in DOMAIN read[order[i]].keys}
LastWith(read, order, k) == CHOOSE i \in Has(read, order, k) : \A j \in Has(read, order, k) : j <= i
Parts(read, order, k) ==
  [i \in DOMAIN order |-> IF i \in Has(read, order, k) THEN read[order[i]].keys[k] ELSE << >>]
Named(read, order) == UNION {DOMAIN read[order[i]].keys : i \in DOMAIN order}

LEMMA LaidIs ==
  ASSUME NEW read, NEW order
  PROVE  Laid(read, order) =
           [k \in Named(read, order) |->
              IF k \in Listed THEN FlattenSeq(Parts(read, order, k))
              ELSE read[order[LastWith(read, order, k)]].keys[k]]
BY DEF Laid, Named, Parts, LastWith, Has

LEMMA LaidEmpty == \A read : Laid(read, << >>) = Defaults
<1> SUFFICES ASSUME NEW read PROVE Laid(read, << >>) = Defaults
  OBVIOUS
<1>1. Named(read, << >>) = {}
  BY DEF Named
<1> QED
  BY <1>1, LaidIs DEF Defaults

LEMMA PartsAre ==
  ASSUME NEW read, Readable(read), NEW order \in Seq(Files), NEW k \in Listed
  PROVE  Parts(read, order, k) \in Seq(Seq(Values(read)))
<1> DEFINE parts == Parts(read, order, k)
           V == Values(read)
           n == Len(order)
<1>1. n \in Nat /\ DOMAIN order = 1 .. n /\ \A i \in 1 .. n : order[i] \in Files
  BY LenProperties, ElementOfSeq
<1>2. << >> \in Seq(V)
  BY EmptySeq
<1> HIDE DEF V, n
<1>3. ASSUME NEW i \in 1 .. n PROVE parts[i] \in Seq(V)
  <2>1. CASE i \in Has(read, order, k)
    <3>1. k \in Listed \cap DOMAIN read[order[i]].keys /\ order[i] \in Files
      BY <1>1, <2>1 DEF Has
    <3>2. read[order[i]].keys[k] \in Seq(V)
      BY <3>1, KeysAre DEF IsKeys, V
    <3> QED
      BY <1>1, <2>1, <3>2 DEF Parts
  <2>2. CASE i \notin Has(read, order, k)
    BY <1>1, <1>2, <2>2 DEF Parts
  <2> QED
    BY <2>1, <2>2
<1>4. parts = [i \in 1 .. n |-> parts[i]]
  BY <1>1 DEF Parts
<1> HIDE DEF parts
<1> QED
  BY <1>1, <1>3, <1>4 DEF parts, V

(* Nothing put after nothing is nothing. *)
LEMMA FlatNone ==
  ASSUME NEW X, NEW ss \in Seq(Seq(X)), \A i \in 1 .. Len(ss) : ss[i] = << >>
  PROVE  FlattenSeq(ss) = << >>
<1> DEFINE n == Len(ss)
<1>1. n \in Nat
  BY LenProperties
<1>2. PICK flat \in [0 .. n -> Seq(X)] : FlattenSeq(ss) = flat[n] /\ flat[0] = << >> /\ Puts(flat, ss)
  BY FlatSteps
<1> DEFINE P == {m \in Nat : m <= n => flat[m] = << >>}
<1>3. 0 \in P
  BY <1>2
<1>4. ASSUME NEW m \in P PROVE m + 1 \in P
  <2> SUFFICES ASSUME m + 1 <= n PROVE flat[m + 1] = << >>
    OBVIOUS
  <2>1. m + 1 \in 1 .. n /\ m \in Nat /\ m <= n
    BY <1>1
  <2>2. flat[m + 1] = flat[m] \o ss[m + 1]
    BY <1>2, <2>1, PutsNext
  <2>3. flat[m] = << >> /\ ss[m + 1] = << >>
    BY <2>1
  <2> QED
    BY <2>2, <2>3
<1>5. P = Nat
  <2>1. P \in SUBSET Nat
    OBVIOUS
  <2> HIDE DEF P
  <2> QED
    BY <1>3, <1>4, <2>1, SetInduction
<1> QED
  BY <1>1, <1>2, <1>5

LEMMA HasMore ==
  ASSUME NEW read, NEW order \in Seq(Files), NEW f \in Files, NEW k
  PROVE  /\ Has(read, order, k) \subseteq 1 .. Len(order)
         /\ \A i \in 1 .. Len(order) : Append(order, f)[i] = order[i]
         /\ Append(order, f)[Len(order) + 1] = f
         /\ Has(read, Append(order, f), k) =
              Has(read, order, k) \cup (IF k \in DOMAIN read[f].keys THEN {Len(order) + 1} ELSE {})
         /\ Len(order) + 1 \notin Has(read, order, k)
         /\ k \in Named(read, order) <=> Has(read, order, k) # {}
         /\ k \in Named(read, Append(order, f)) <=> k \in Named(read, order) \/ k \in DOMAIN read[f].keys
<1> DEFINE n == Len(order)
           more == Append(order, f)
<1>1. n \in Nat /\ DOMAIN order = 1 .. n
  BY LenProperties
<1>2. more \in Seq(Files) /\ Len(more) = n + 1
  BY AppendProperties
<1>3. \A i \in 1 .. n : more[i] = order[i]
  BY AppendProperties
<1>4. more[n + 1] = f
  BY AppendProperties
<1>5. DOMAIN more = 1 .. n + 1
  BY <1>2, LenProperties
<1> HIDE DEF n, more
<1>6. Has(read, order, k) \subseteq 1 .. n /\ n + 1 \notin Has(read, order, k)
  BY <1>1 DEF Has
<1>7. \A i : i \in 1 .. n + 1 <=> i \in 1 .. n \/ i = n + 1
  BY <1>1
<1>8. \A i \in 1 .. n : i \in Has(read, more, k) <=> i \in Has(read, order, k)
  BY <1>1, <1>3, <1>5, <1>7 DEF Has
<1>9. n + 1 \in Has(read, more, k) <=> k \in DOMAIN read[f].keys
  BY <1>4, <1>5, <1>7 DEF Has
<1>10. Has(read, more, k) \subseteq 1 .. n + 1
  BY <1>5 DEF Has
<1>11. Has(read, more, k) = Has(read, order, k) \cup (IF k \in DOMAIN read[f].keys THEN {n + 1} ELSE {})
  BY <1>6, <1>7, <1>8, <1>9, <1>10
<1>12. \A o : k \in Named(read, o) <=> Has(read, o, k) # {}
  BY DEF Named, Has
<1> QED
  BY <1>3, <1>4, <1>6, <1>11, <1>12 DEF n, more

LEMMA PartsMore ==
  ASSUME NEW read, Readable(read), NEW order \in Seq(Files), NEW f \in Files, NEW k \in Listed
  PROVE  FlattenSeq(Parts(read, Append(order, f), k)) =
           FlattenSeq(Parts(read, order, k)) \o
             (IF k \in DOMAIN read[f].keys THEN read[f].keys[k] ELSE << >>)
<1> DEFINE n == Len(order)
           more == Append(order, f)
           parts == Parts(read, order, k)
           V == Values(read)
           new == IF k \in DOMAIN read[f].keys THEN read[f].keys[k] ELSE << >>
<1>1. n \in Nat /\ DOMAIN order = 1 .. n
  BY LenProperties
<1>2. more \in Seq(Files) /\ Len(more) = n + 1
  BY AppendProperties
<1>3. DOMAIN more = 1 .. n + 1
  BY <1>2, LenProperties
<1>4. parts \in Seq(Seq(V)) /\ Parts(read, more, k) \in Seq(Seq(V))
  BY <1>2, PartsAre
<1>5. new \in Seq(V)
  BY KeysAre, EmptySeq DEF IsKeys
<1>6. Len(parts) = n
  BY <1>1, <1>4, LenProperties DEF Parts
<1>7. /\ Append(parts, new) \in Seq(Seq(V)) /\ Len(Append(parts, new)) = n + 1
  BY <1>4, <1>5, <1>6, AppendProperties
<1>8. Append(parts, new)[n + 1] = new /\ \A i \in 1 .. n : Append(parts, new)[i] = parts[i]
  BY <1>4, <1>5, <1>6, AppendProperties
<1>9. /\ Has(read, order, k) \subseteq 1 .. n
      /\ \A i \in 1 .. n : more[i] = order[i]
      /\ more[n + 1] = f
      /\ Has(read, more, k) = Has(read, order, k) \cup (IF k \in DOMAIN read[f].keys THEN {n + 1} ELSE {})
      /\ k \in Named(read, order) <=> Has(read, order, k) # {}
  BY HasMore
<1> HIDE DEF n, more, V
<1>10. \A i \in 1 .. n : i \in Has(read, more, k) <=> i \in Has(read, order, k)
  BY <1>1, <1>9
<1>11. ASSUME NEW i \in 1 .. n + 1 PROVE Parts(read, more, k)[i] = Append(parts, new)[i]
  <2>1. CASE i \in 1 .. n
    <3>1. Parts(read, more, k)[i] = parts[i]
      BY <1>1, <1>3, <1>9, <1>10, <2>1 DEF Parts
    <3> QED
      BY <1>8, <2>1, <3>1
  <2>2. CASE i = n + 1
    <3>1. Parts(read, more, k)[n + 1] = new
      <4>1. n + 1 \in DOMAIN more /\ n + 1 \notin Has(read, order, k)
        BY <1>1, <1>3, <1>9
      <4>2. n + 1 \in Has(read, more, k) <=> k \in DOMAIN read[f].keys
        BY <1>9, <4>1
      <4> QED
        BY <1>9, <4>1, <4>2 DEF Parts
    <3>2. Parts(read, more, k)[n + 1] = Append(parts, new)[n + 1]
      BY <1>8, <3>1
    <3> HIDE DEF parts, new
    <3> QED
      BY <2>2, <3>2
  <2>3. i \in 1 .. n \/ i = n + 1
    BY <1>1
  <2> HIDE DEF parts, new
  <2> QED
    BY <2>1, <2>2, <2>3
<1>12. Parts(read, more, k) = Append(parts, new)
  <2>1. Len(Parts(read, more, k)) = n + 1
    BY <1>1, <1>3, <1>4, LenProperties DEF Parts
  <2> DEFINE a == Parts(read, more, k)
             b == Append(parts, new)
  <2>2. /\ a \in Seq(Seq(V)) /\ b \in Seq(Seq(V)) /\ Len(a) = n + 1 /\ Len(b) = n + 1
        /\ \A i \in 1 .. n + 1 : a[i] = b[i]
    BY <1>4, <1>7, <1>11, <2>1
  <2> HIDE DEF a, b
  <2>3. a = b
    BY <2>2, SeqEqual
  <2> QED
    BY <2>3 DEF a, b
<1>13. FlattenSeq(Append(parts, new)) = FlattenSeq(parts) \o new
  <2> HIDE DEF parts, new
  <2> QED
    BY <1>4, <1>5, FlatAppend
<1> QED
  BY <1>12, <1>13 DEF more

LEMMA LaidAppend ==
  ASSUME NEW read, Readable(read), NEW order \in Seq(Files), NEW f \in Files
  PROVE  Laid(read, Append(order, f)) = Merge(Laid(read, order), read[f].keys)
<1> DEFINE n == Len(order)
           more == Append(order, f)
           new == read[f].keys
           laid == Laid(read, order)
           D == Named(read, order) \cup DOMAIN new
<1>1. n \in Nat
  BY LenProperties
<1>2. Named(read, more) = D
  BY HasMore
<1>3. DOMAIN laid = Named(read, order)
  BY LaidIs
<1>4. Merge(laid, new) = [k \in D |-> Both(laid, new, k)]
  <2>1. Merge(laid, new) = [k \in D |-> Merge(laid, new)[k]]
    <3>1. Merge(laid, new) = [k \in DOMAIN laid \cup DOMAIN new |-> Merge(laid, new)[k]]
      <4> HIDE DEF laid, new, D
      <4> QED
        BY MergeAt, Zenon
    <3>2. DOMAIN laid \cup DOMAIN new = D
      BY <1>3
    <3> HIDE DEF laid, new, D
    <3> QED
      BY <3>1, <3>2, Zenon
  <2>2. \A k \in D : Merge(laid, new)[k] = Both(laid, new, k)
    BY <1>3, MergeAt
  <2> HIDE DEF laid, new, D
  <2> QED
    BY <2>1, <2>2
<1>5. ASSUME NEW k \in D PROVE Laid(read, more)[k] = Both(laid, new, k)
  <2>1. k \in Named(read, order) \/ k \in DOMAIN new
    OBVIOUS
  <2>2. /\ Has(read, order, k) \subseteq 1 .. n
        /\ \A i \in 1 .. n : more[i] = order[i]
        /\ more[n + 1] = f
        /\ Has(read, more, k) = Has(read, order, k) \cup (IF k \in DOMAIN new THEN {n + 1} ELSE {})
        /\ k \in Named(read, order) <=> Has(read, order, k) # {}
    BY HasMore
  <2>3. Laid(read, more)[k] = IF k \in Listed THEN FlattenSeq(Parts(read, more, k))
                              ELSE read[more[LastWith(read, more, k)]].keys[k]
    <3> HIDE DEF more, D
    <3> QED
      BY <1>2, LaidIs
  <2>4. k \in DOMAIN laid =>
          laid[k] = IF k \in Listed THEN FlattenSeq(Parts(read, order, k))
                    ELSE read[order[LastWith(read, order, k)]].keys[k]
    BY <1>3, LaidIs
  <2>5. CASE k \in Listed
    <3> DEFINE V == Values(read)
               old == FlattenSeq(Parts(read, order, k))
    <3>1. Parts(read, order, k) \in Seq(Seq(V)) /\ << >> \in Seq(V)
      BY <2>5, PartsAre, EmptySeq
    <3>2. old \in Seq(V)
      BY <3>1, FlatAppend
    <3>3. FlattenSeq(Parts(read, more, k)) = old \o (IF k \in DOMAIN new THEN new[k] ELSE << >>)
      BY <2>5, PartsMore
    <3>4. k \notin DOMAIN laid => old = << >>
      <4> SUFFICES ASSUME k \notin DOMAIN laid PROVE old = << >>
        OBVIOUS
      <4>1. Has(read, order, k) = {}
        BY <1>3, <2>2
      <4>2. Len(Parts(read, order, k)) \in Nat /\ DOMAIN Parts(read, order, k) = 1 .. Len(Parts(read, order, k))
        BY <3>1, LenProperties
      <4>3. \A i \in 1 .. Len(Parts(read, order, k)) : Parts(read, order, k)[i] = << >>
        BY <4>1, <4>2 DEF Parts
      <4> QED
        BY <3>1, <4>3, FlatNone
    <3>5. k \in DOMAIN new => new[k] \in Seq(V)
      BY <2>5, KeysAre DEF IsKeys
    <3>6. \A s \in Seq(V) : s \o << >> = s /\ << >> \o s = s
      BY ConcatEmptySeq
    <3> HIDE DEF old, laid, new, V
    <3> QED
      BY <1>3, <2>1, <2>3, <2>4, <2>5, <3>2, <3>3, <3>4, <3>5, <3>6 DEF Both, old
  <2>6. CASE k \notin Listed /\ k \notin DOMAIN new
    <3>1. Has(read, more, k) = Has(read, order, k)
      BY <2>2, <2>6
    <3>2. LastWith(read, more, k) = LastWith(read, order, k)
      BY <3>1 DEF LastWith
    <3>3. LastWith(read, order, k) \in 1 .. n
      <4> DEFINE H == Has(read, order, k)
      <4>1. H \subseteq 1 .. n /\ H # {}
        BY <2>1, <2>2, <2>6
      <4> HIDE DEF n, H
      <4>2. \E i \in H : \A j \in H : j <= i
        <5> DEFINE P == {m \in Nat : H \cap 1 .. m = {} \/ \E i \in H \cap 1 .. m : \A j \in H \cap 1 .. m : j <= i}
        <5>2. 0 \in P
          OBVIOUS
        <5>3. ASSUME NEW m \in P PROVE m + 1 \in P
          <6>1. \A j \in H : j \in 1 .. m + 1 <=> j \in 1 .. m \/ j = m + 1
            BY <1>1, <4>1
          <6>2. CASE m + 1 \in H
            <7>1. m + 1 \in H \cap 1 .. m + 1 /\ \A j \in H \cap 1 .. m + 1 : j <= m + 1
              BY <6>2
            <7> QED
              BY <7>1
          <6>3. CASE m + 1 \notin H
            <7>1. H \cap 1 .. m + 1 = H \cap 1 .. m
              BY <6>1, <6>3
            <7> QED
              BY <7>1
          <6> QED
            BY <6>2, <6>3
        <5>4. P = Nat
          <6>1. P \in SUBSET Nat
            OBVIOUS
          <6> HIDE DEF P
          <6> QED
            BY <5>2, <5>3, <6>1, SetInduction
        <5>5. n \in P /\ H \cap 1 .. n = H
          BY <1>1, <4>1, <5>4
        <5> QED
          BY <4>1, <5>5
      <4>3. LastWith(read, order, k) \in H
        BY <4>2 DEF LastWith, H
      <4> QED
        BY <4>1, <4>3
    <3>4. more[LastWith(read, more, k)] = order[LastWith(read, order, k)]
      BY <2>2, <3>2, <3>3
    <3> HIDE DEF laid, new, more, n
    <3> QED
      BY <1>3, <2>1, <2>3, <2>4, <2>6, <3>4 DEF Both
  <2>7. CASE k \notin Listed /\ k \in DOMAIN new
    <3>1. n + 1 \in Has(read, more, k) /\ \A j \in Has(read, more, k) : j <= n + 1 /\ j \in Nat
      <4> HIDE DEF more, new, n
      <4>1. Has(read, more, k) = Has(read, order, k) \cup {n + 1}
        BY <2>2, <2>7
      <4>2. \A j \in Has(read, order, k) : j \in Nat /\ j <= n
        BY <1>1, <2>2
      <4> QED
        BY <1>1, <4>1, <4>2
    <3>2. LastWith(read, more, k) = n + 1
      <4> DEFINE H == Has(read, more, k)
      <4> HIDE DEF more, n, H
      <4>1. n + 1 \in H /\ \A j \in H : j <= n + 1 /\ j \in Nat
        BY <3>1 DEF H
      <4>2. \A i \in H : (\A j \in H : j <= i) => i = n + 1
        <5> SUFFICES ASSUME NEW i \in H, \A j \in H : j <= i PROVE i = n + 1
          OBVIOUS
        <5>1. i \in Nat /\ i <= n + 1 /\ n + 1 <= i
          BY <4>1
        <5> QED
          BY <1>1, <5>1
      <4>3. LastWith(read, more, k) = n + 1
        BY <4>1, <4>2 DEF LastWith, H
      <4> QED
        BY <4>3
    <3>3. read[more[LastWith(read, more, k)]].keys[k] = new[k]
      BY <2>2, <3>2
    <3> HIDE DEF laid, new, more, n
    <3> QED
      BY <2>3, <2>7, <3>3 DEF Both
  <2> QED
    BY <2>5, <2>6, <2>7
<1>6. Laid(read, more) = [k \in D |-> Laid(read, more)[k]]
  <2> HIDE DEF more, D
  <2> QED
    BY <1>2, LaidIs
<1> HIDE DEF more, D, laid, new
<1>7. Laid(read, more) = Merge(laid, new)
  BY <1>4, <1>5, <1>6
<1> QED
  BY <1>7 DEF more, laid, new

LEMMA LaidIsKeys ==
  ASSUME NEW read, Readable(read)
  PROVE  \A order \in Seq(Files) : IsKeys(Laid(read, order), Values(read))
<1> DEFINE V == Values(read)
           P == {order \in Seq(Files) : IsKeys(Laid(read, order), V)}
<1>1. << >> \in P
  <2>1. IsKeys(Defaults, V)
    BY DEF IsKeys, Defaults
  <2> QED
    BY <2>1, LaidEmpty, EmptySeq
<1>2. ASSUME NEW order \in P, NEW f \in Files PROVE Append(order, f) \in P
  <2>1. Append(order, f) \in Seq(Files) /\ Laid(read, Append(order, f)) = Merge(Laid(read, order), read[f].keys)
    BY LaidAppend, AppendProperties
  <2>2. IsKeys(read[f].keys, V)
    BY KeysAre
  <2>3. IsKeys(Laid(read, order), V)
    OBVIOUS
  <2> HIDE DEF V
  <2>4. IsKeys(Merge(Laid(read, order), read[f].keys), V)
    BY <2>2, <2>3, MergeIsKeys
  <2> QED
    BY <2>1, <2>4
<1>3. P = Seq(Files)
  <2>1. P \in SUBSET Seq(Files)
    OBVIOUS
  <2> HIDE DEF P
  <2> QED
    BY <1>1, <1>2, <2>1, AppendInduction
<1> QED
  BY <1>3

(* Laying one order and then another is laying what they come to. *)
LEMMA LaidConcat ==
  ASSUME NEW read, Readable(read), NEW s \in Seq(Files)
  PROVE  \A t \in Seq(Files) : Laid(read, s \o t) = Merge(Laid(read, s), Laid(read, t))
<1> DEFINE V == Values(read)
           P == {t \in Seq(Files) : Laid(read, s \o t) = Merge(Laid(read, s), Laid(read, t))}
<1>1. \A order \in Seq(Files) : IsKeys(Laid(read, order), V)
  BY LaidIsKeys
<1> HIDE DEF V
<1>2. << >> \in P
  <2>1. << >> \in Seq(Files) /\ s \o << >> = s
    BY EmptySeq, ConcatEmptySeq
  <2>2. Merge(Laid(read, s), Defaults) = Laid(read, s)
    BY <1>1, MergeDefaults
  <2> QED
    BY <2>1, <2>2, LaidEmpty
<1>3. ASSUME NEW t \in P, NEW f \in Files PROVE Append(t, f) \in P
  <2> DEFINE a == Laid(read, s)
             b == Laid(read, t)
             c == read[f].keys
  <2>1. t \in Seq(Files) /\ Laid(read, s \o t) = Merge(a, b)
    OBVIOUS
  <2>2. Append(t, f) \in Seq(Files)
    BY AppendProperties
  <2>3. s \o t \in Seq(Files)
    BY ConcatProperties
  <2>4. s \o Append(t, f) = Append(s \o t, f)
    <3>1. Append(t, f) = t \o <<f>> /\ Append(s \o t, f) = (s \o t) \o <<f>>
      BY <2>3, AppendIsConcat
    <3>2. (s \o t) \o <<f>> = s \o (t \o <<f>>)
      BY ConcatAssociative
    <3> QED
      BY <3>1, <3>2
  <2>5. Laid(read, Append(s \o t, f)) = Merge(Laid(read, s \o t), c)
    BY <2>3, LaidAppend
  <2>6. Laid(read, Append(t, f)) = Merge(b, c)
    BY LaidAppend
  <2>7. IsKeys(a, V) /\ IsKeys(b, V) /\ IsKeys(c, V)
    BY <1>1, KeysAre DEF V
  <2> HIDE DEF a, b, c
  <2>8. Merge(Merge(a, b), c) = Merge(a, Merge(b, c))
    BY <2>7, MergeAssoc
  <2>9. Laid(read, s \o Append(t, f)) = Merge(a, Laid(read, Append(t, f)))
    BY <2>1, <2>4, <2>5, <2>6, <2>8
  <2> QED
    BY <2>2, <2>9 DEF a
<1>4. P = Seq(Files)
  <2>1. P \in SUBSET Seq(Files)
    OBVIOUS
  <2> HIDE DEF P
  <2> QED
    BY <1>2, <1>3, <2>1, AppendInduction
<1> QED
  BY <1>4

----------------------------------------------------------------------------
(* The recursion of the order ends: each include reaches fewer files. *)

Rank(read, f) == Cardinality(Reached(read, f))

LEMMA ReachesFewer ==
  ASSUME NEW read, Readable(read), NEW f \in Files, Loadable(read, f)
  PROVE  /\ Rank(read, f) \in Nat /\ Rank(read, f) <= Cardinality(Files)
         /\ \A g \in Includes(read, f) : /\ Loadable(read, g) /\ Rank(read, g) \in Nat
                                         /\ Rank(read, g) < Rank(read, f)
<1> DEFINE R == Reached(read, f)
<1>1. IsFiniteSet(Files) /\ R \subseteq Files /\ f \in R
  BY DocumentsAssumption, ReachedFacts
<1>2. IsFiniteSet(R) /\ Cardinality(R) <= Cardinality(Files)
  BY <1>1, FS_Subset
<1>3. Cardinality(R) \in Nat
  BY <1>2, FS_CardinalityType
<1>4. ASSUME NEW g \in Includes(read, f)
      PROVE  Loadable(read, g) /\ Rank(read, g) \in Nat /\ Rank(read, g) < Rank(read, f)
  <2> DEFINE S == Reached(read, g)
  <2>1. g \in Files /\ g \in R
    BY <1>1, ReachedFacts
  <2>2. Loadable(read, g) /\ f \notin S
    BY <2>1, LoadableFacts
  <2>3. S \subseteq R
    BY <2>1, ReachedFacts
  <2> HIDE DEF R, S
  <2>4. S \in SUBSET (R \ {f}) /\ IsFiniteSet(R \ {f})
    BY <1>2, <2>2, <2>3, FS_Subset
  <2>5. Cardinality(S) <= Cardinality(R \ {f}) /\ IsFiniteSet(S)
    BY <2>4, FS_Subset
  <2>6. Cardinality(R \ {f}) = Cardinality(R) - 1
    BY <1>1, <1>2, FS_RemoveElement
  <2>7. Cardinality(S) \in Nat
    BY <2>5, FS_CardinalityType
  <2>8. Cardinality(S) < Cardinality(R)
    BY <1>3, <2>5, <2>6, <2>7
  <2> QED
    BY <2>2, <2>7, <2>8 DEF Rank, R, S
<1> QED
  BY <1>2, <1>3, <1>4 DEF Rank

(* What order makes of the includes of f, and then f. *)
Strung(includes, ord) == [i \in DOMAIN includes |-> ord[includes[i]]]
One(read, ord, f) == Append(FlattenSeq(Strung(read[f].includes, ord)), f)

LEMMA OneIsOrder ==
  ASSUME NEW read, Readable(read), NEW f \in Files, NEW ord,
         \A g \in Includes(read, f) : ord[g] \in Seq(Files)
  PROVE  /\ Strung(read[f].includes, ord) \in Seq(Seq(Files))
         /\ One(read, ord, f) \in Seq(Files)
<1> DEFINE inc == read[f].includes
           n == Len(inc)
           all == [i \in DOMAIN inc |-> ord[inc[i]]]
<1>1. inc \in Seq(Files) /\ \A i \in 1 .. n : inc[i] \in Includes(read, f)
  BY IncludesAre
<1>2. n \in Nat /\ DOMAIN inc = 1 .. n
  BY <1>1, LenProperties
<1>3. all = [i \in 1 .. n |-> ord[inc[i]]] /\ \A i \in 1 .. n : ord[inc[i]] \in Seq(Files)
  <2> HIDE DEF n
  <2> QED
    BY <1>1, <1>2
<1> HIDE DEF inc, n
<1>4. all \in Seq(Seq(Files))
  BY <1>2, <1>3
<1> HIDE DEF all
<1>5. FlattenSeq(all) \in Seq(Files)
  <2>1. << >> \in Seq(Files)
    BY EmptySeq
  <2> QED
    BY <1>4, <2>1, FlatAppend
<1>6. Append(FlattenSeq(all), f) \in Seq(Files)
  BY <1>5, AppendProperties
<1> QED
  BY <1>4, <1>6 DEF One, Strung, all, inc

Orders(read, R, ord, n) ==
  \A f \in R : Rank(read, f) < n => ord[f] \in Seq(Files) /\ ord[f] = One(read, ord, f)

LEMMA OrdersUp ==
  ASSUME NEW read, Readable(read), NEW R \in SUBSET Files,
         \A f \in R : Loadable(read, f) /\ Includes(read, f) \subseteq R
  PROVE  \A n \in Nat : \E ord : Orders(read, R, ord, n)
<1> DEFINE P == {n \in Nat : \E ord : Orders(read, R, ord, n)}
<1>1. 0 \in P
  <2>1. \A f \in R : ~ (Rank(read, f) < 0)
    BY ReachesFewer
  <2>2. Orders(read, R, << >>, 0)
    BY <2>1 DEF Orders
  <2> QED
    BY <2>2
<1>2. ASSUME NEW n \in P PROVE n + 1 \in P
  <2>1. PICK g : Orders(read, R, g, n)
    OBVIOUS
  <2> DEFINE h == [f \in R |-> IF Rank(read, f) < n THEN g[f] ELSE One(read, g, f)]
  <2>n. n \in Nat
    OBVIOUS
  <2>2. ASSUME NEW f \in R, Rank(read, f) < n + 1
        PROVE  h[f] \in Seq(Files) /\ h[f] = One(read, h, f)
    <3>1. ASSUME NEW e \in Includes(read, f) PROVE h[e] = g[e] /\ g[e] \in Seq(Files)
      <4>1. e \in R /\ Rank(read, e) \in Nat /\ Rank(read, f) \in Nat /\ Rank(read, e) < Rank(read, f)
        BY ReachesFewer
      <4>2. Rank(read, e) < n
        BY <2>n, <2>2, <4>1
      <4>3. g[e] \in Seq(Files)
        BY <2>1, <4>1, <4>2 DEF Orders
      <4> QED
        BY <4>1, <4>2, <4>3
    <3>2. h[f] = One(read, g, f)
      <4>1. CASE Rank(read, f) < n
        BY <2>1, <4>1 DEF Orders
      <4>2. CASE ~ (Rank(read, f) < n)
        BY <4>2
      <4> QED
        BY <4>1, <4>2
    <3> HIDE DEF h
    <3>3. One(read, g, f) \in Seq(Files)
      BY <3>1, OneIsOrder
    <3>4. One(read, h, f) = One(read, g, f)
      <4>1. \A i \in DOMAIN read[f].includes : read[f].includes[i] \in Includes(read, f)
        BY DEF Includes, ToSet
      <4>2. [i \in DOMAIN read[f].includes |-> h[read[f].includes[i]]] =
            [i \in DOMAIN read[f].includes |-> g[read[f].includes[i]]]
        BY <3>1, <4>1
      <4> QED
        BY <4>2 DEF One, Strung
    <3> QED
      BY <3>2, <3>3, <3>4
  <2> HIDE DEF h
  <2>3. Orders(read, R, h, n + 1)
    BY <2>2 DEF Orders
  <2> QED
    BY <2>n, <2>3
<1>3. P = Nat
  <2>1. P \in SUBSET Nat
    OBVIOUS
  <2> HIDE DEF P
  <2> QED
    BY <1>1, <1>2, <2>1, SetInduction
<1> QED
  BY <1>3

IsOrder(read, R, ord) == ord = [f \in R |-> One(read, ord, f)]

LEMMA OrderSteps ==
  ASSUME NEW read, Readable(read), NEW first \in Files, Loadable(read, first)
  PROVE  \E ord : /\ Order(read, first) = ord[first]
                  /\ \A f \in Reached(read, first) : ord[f] = One(read, ord, f)
<1> DEFINE R == Reached(read, first)
           ord == CHOOSE o : IsOrder(read, R, o)
           n == Cardinality(Files) + 1
<1>1. R \in SUBSET Files /\ first \in R /\ \A f \in R : Loadable(read, f) /\ Includes(read, f) \subseteq R
  BY ReachedFacts, LoadableFacts
<1>2. n \in Nat /\ \A f \in R : Rank(read, f) < n
  <2>1. Cardinality(Files) \in Nat
    BY DocumentsAssumption, FS_CardinalityType
  <2>2. \A f \in R : Rank(read, f) \in Nat /\ Rank(read, f) <= Cardinality(Files)
    BY <1>1, ReachesFewer
  <2> HIDE DEF R
  <2> QED
    BY <2>1, <2>2
<1>3. PICK g : Orders(read, R, g, n)
  <2> HIDE DEF R, n
  <2> QED
    BY <1>1, <1>2, OrdersUp
<1> DEFINE h == [f \in R |-> g[f]]
<1>4. IsOrder(read, R, h)
  <2>1. ASSUME NEW f \in R PROVE h[f] = One(read, h, f)
    <3>1. g[f] = One(read, g, f)
      <4> HIDE DEF R, n
      <4> QED
        BY <1>2, <1>3 DEF Orders
    <3>2. \A i \in DOMAIN read[f].includes : read[f].includes[i] \in R
      <4>1. \A i \in DOMAIN read[f].includes : read[f].includes[i] \in Includes(read, f)
        BY DEF Includes, ToSet
      <4> QED
        BY <1>1, <4>1
    <3>3. [i \in DOMAIN read[f].includes |-> h[read[f].includes[i]]] =
          [i \in DOMAIN read[f].includes |-> g[read[f].includes[i]]]
      <4> HIDE DEF R
      <4> QED
        BY <3>2
    <3>4. One(read, h, f) = One(read, g, f)
      BY <3>3 DEF One, Strung
    <3>5. h[f] = g[f]
      OBVIOUS
    <3> HIDE DEF h
    <3> QED
      BY <3>1, <3>4, <3>5
  <2>2. h = [f \in R |-> h[f]]
    OBVIOUS
  <2> HIDE DEF h, R
  <2> QED
    BY <2>1, <2>2 DEF IsOrder
<1>5. IsOrder(read, R, ord)
  <2> HIDE DEF h, R
  <2> QED
    BY <1>4
<1>6. Order(read, first) = ord[first]
  BY DEF Order, IsOrder, One, Strung
<1> HIDE DEF ord, R
<1>7. \A f \in R : ord[f] = One(read, ord, f)
  BY <1>5 DEF IsOrder
<1> QED
  BY <1>6, <1>7 DEF R

LEMMA OrdersAre ==
  ASSUME NEW read, Readable(read), NEW R \in SUBSET Files,
         \A f \in R : Loadable(read, f) /\ Includes(read, f) \subseteq R,
         NEW ord, \A f \in R : ord[f] = One(read, ord, f)
  PROVE  \A f \in R : ord[f] \in Seq(Files)
<1> DEFINE P == {n \in Nat : \A f \in R : Rank(read, f) < n => ord[f] \in Seq(Files)}
<1>1. 0 \in P
  <2>1. \A f \in R : ~ (Rank(read, f) < 0)
    BY ReachesFewer
  <2> QED
    BY <2>1
<1>2. ASSUME NEW n \in P PROVE n + 1 \in P
  <2> SUFFICES ASSUME NEW f \in R, Rank(read, f) < n + 1 PROVE ord[f] \in Seq(Files)
    OBVIOUS
  <2>1. ASSUME NEW e \in Includes(read, f) PROVE ord[e] \in Seq(Files)
    <3>1. e \in R /\ Rank(read, e) \in Nat /\ Rank(read, f) \in Nat /\ Rank(read, e) < Rank(read, f)
      BY ReachesFewer
    <3>2. Rank(read, e) < n
      BY <3>1
    <3> QED
      BY <3>1, <3>2
  <2>2. One(read, ord, f) \in Seq(Files)
    BY <2>1, OneIsOrder
  <2> QED
    BY <2>2
<1>3. P = Nat
  <2>1. P \in SUBSET Nat
    OBVIOUS
  <2> HIDE DEF P
  <2> QED
    BY <1>1, <1>2, <2>1, SetInduction
<1>4. ASSUME NEW f \in R PROVE ord[f] \in Seq(Files)
  <2>1. Rank(read, f) + 1 \in P /\ Rank(read, f) \in Nat
    <3>1. Rank(read, f) \in Nat
      BY ReachesFewer
    <3> HIDE DEF P
    <3> QED
      BY <1>3, <3>1
  <2>2. Rank(read, f) < Rank(read, f) + 1
    BY <2>1
  <2> QED
    BY <2>1, <2>2
<1> QED
  BY <1>4

----------------------------------------------------------------------------
(* Merging what includes come to is laying their orders one after another. *)
LEMMA MergeIsLaid ==
  ASSUME NEW read, Readable(read), NEW includes \in Seq(Files), NEW sub, NEW ord,
         \A i \in 1 .. Len(includes) :
            /\ ord[includes[i]] \in Seq(Files)
            /\ sub[includes[i]] = Loaded(Laid(read, ord[includes[i]]))
  PROVE  MergeIncludes(includes, sub) =
           Loaded(Laid(read, FlattenSeq(Strung(includes, ord))))
<1> DEFINE n == Len(includes)
           all == [i \in DOMAIN includes |-> ord[includes[i]]]
           inc(i) == includes[i]
<1>1. n \in Nat /\ DOMAIN includes = 1 .. n
  BY LenProperties
<1>2. \A i \in 1 .. n : all[i] = ord[includes[i]] /\ all[i] \in Seq(Files)
  BY <1>1
<1>3. all \in Seq(Seq(Files)) /\ Len(all) = n
  <2>1. all = [i \in 1 .. n |-> all[i]]
    BY <1>1
  <2> HIDE DEF n, all
  <2>2. all \in Seq(Seq(Files))
    BY <1>1, <1>2, <2>1
  <2>3. DOMAIN all = 1 .. n
    BY <2>1
  <2> QED
    BY <1>1, <2>2, <2>3, LenProperties
<1>4. PICK acc : /\ MergeIncludes(includes, sub) = acc[n]
                 /\ acc[0] = Loaded(Defaults)
                 /\ \A i \in 1 .. n : acc[i] = Over(acc[i - 1], sub[includes[i]])
  BY MergeSteps
<1> HIDE DEF n, all
<1>5. PICK flat \in [0 .. n -> Seq(Files)] :
         FlattenSeq(all) = flat[n] /\ flat[0] = << >> /\ Puts(flat, all)
  BY <1>3, FlatSteps
<1> DEFINE P == {m \in Nat : m <= n => acc[m] = Loaded(Laid(read, flat[m]))}
<1>6. 0 \in P
  BY <1>1, <1>4, <1>5, LaidEmpty
<1>7. ASSUME NEW m \in P PROVE m + 1 \in P
  <2> SUFFICES ASSUME m + 1 <= n PROVE acc[m + 1] = Loaded(Laid(read, flat[m + 1]))
    OBVIOUS
  <2>1. m \in Nat /\ m <= n /\ m + 1 \in 1 .. n /\ m + 1 - 1 = m /\ m \in 0 .. n
    BY <1>1
  <2> DEFINE new == ord[includes[m + 1]]
  <2>2. acc[m + 1] = Over(acc[m], sub[includes[m + 1]])
    BY <1>4, <2>1
  <2>3. sub[includes[m + 1]] = Loaded(Laid(read, new)) /\ new \in Seq(Files) /\ all[m + 1] = new
    BY <1>2, <2>1 DEF n
  <2>4. acc[m] = Loaded(Laid(read, flat[m])) /\ flat[m] \in Seq(Files)
    BY <1>5, <2>1
  <2>5. flat[m + 1] = flat[m] \o new
    <3>1. m + 1 \in 1 .. Len(all)
      BY <1>3, <2>1
    <3>2. flat[m + 1] = flat[m] \o all[m + 1]
      BY <1>5, <2>1, <3>1, PutsNext
    <3> QED
      BY <2>3, <3>2
  <2>6. Laid(read, flat[m] \o new) = Merge(Laid(read, flat[m]), Laid(read, new))
    <3> HIDE DEF new
    <3> QED
      BY <2>3, <2>4, LaidConcat
  <2>7. Over(Loaded(Laid(read, flat[m])), Loaded(Laid(read, new))) =
        Loaded(Merge(Laid(read, flat[m]), Laid(read, new)))
    BY OverFacts
  <2> HIDE DEF new
  <2> QED
    BY <2>2, <2>3, <2>4, <2>5, <2>6, <2>7
<1>8. P = Nat
  <2>1. P \in SUBSET Nat
    OBVIOUS
  <2> HIDE DEF P
  <2> QED
    BY <1>6, <1>7, <2>1, SetInduction
<1>9. acc[n] = Loaded(Laid(read, flat[n]))
  <2>1. \A m \in Nat : m <= n => acc[m] = Loaded(Laid(read, flat[m]))
    BY <1>8
  <2> QED
    BY <1>1, <2>1
<1> QED
  BY <1>4, <1>5, <1>9 DEF all, Strung

(* A loadable file comes to the keys of its order. *)
LEMMA LoadableLoads ==
  ASSUME NEW read, Readable(read), NEW load,
         Follows(read, load),
         NEW first \in Files, Loadable(read, first)
  PROVE  load[{}][first] = Loaded(LaterWins(read, first))
<1> DEFINE R == Reached(read, first)
<1>1. R \in SUBSET Files /\ first \in R /\ \A f \in R : Loadable(read, f) /\ Includes(read, f) \subseteq R
  BY ReachedFacts, LoadableFacts
<1>2. PICK ord : /\ Order(read, first) = ord[first]
                 /\ \A f \in R : ord[f] = One(read, ord, f)
  BY OrderSteps
<1> HIDE DEF R
<1>3. \A f \in R : ord[f] \in Seq(Files)
  BY <1>1, <1>2, OrdersAre
<1> DEFINE Right(v, f) == Reached(read, f) \cap v = {} => load[v][f] = Loaded(Laid(read, ord[f]))
           P == {n \in Nat : \A v \in SUBSET Files : Left(v) < n => \A f \in R : Right(v, f)}
<1>4. 0 \in P
  <2>1. \A v \in SUBSET Files : ~ (Left(v) < 0)
    BY OneFewer
  <2> QED
    BY <2>1
<1>5. ASSUME NEW n \in P PROVE n + 1 \in P
  <2> SUFFICES ASSUME NEW v \in SUBSET Files, Left(v) < n + 1, NEW f \in R, Reached(read, f) \cap v = {}
               PROVE  load[v][f] = Loaded(Laid(read, ord[f]))
    OBVIOUS
  <2> DEFINE u   == v \cup {f}
             inc == read[f].includes
             all == [i \in DOMAIN inc |-> ord[inc[i]]]
             below == FlattenSeq(all)
  <2>1. f \in Files /\ f \in Reached(read, f) /\ f \notin v
    BY <1>1, ReachedFacts
  <2>2. Loadable(read, f) /\ Includes(read, f) \subseteq R
    BY <1>1
  <2>3. f \in DOMAIN read /\ read[f].kind = "yaml"
    BY <2>1, <2>2, LoadableFacts DEF Readable
  <2>4. Left(u) < n /\ u \in SUBSET Files
    <3>1. Left(u) < Left(v) /\ Left(v) \in Nat /\ u \in SUBSET Files
      BY <2>1, OneFewer
    <3>2. Left(u) \in Nat /\ n \in Nat
      BY <3>1, OneFewer
    <3> QED
      BY <3>1, <3>2
  <2>5. ASSUME NEW g \in Includes(read, f) PROVE load[u][g] = Loaded(Laid(read, ord[g])) /\ ord[g] \in Seq(Files)
    <3>1. g \in R /\ g \in Files
      BY <1>1, <2>2
    <3>2. f \notin Reached(read, g)
      BY <2>1, <2>2, LoadableFacts
    <3>3. Reached(read, g) \subseteq Reached(read, f)
      <4>1. Includes(read, f) \subseteq Reached(read, f)
        BY <2>1, ReachedFacts
      <4> QED
        BY <2>1, <4>1, ReachedFacts
    <3>4. Reached(read, g) \cap u = {}
      BY <3>2, <3>3
    <3>5. Right(u, g)
      <4> HIDE DEF u, Right
      <4> QED
        BY <2>4, <3>1
    <3> HIDE DEF u
    <3> QED
      BY <1>3, <3>1, <3>4, <3>5
  <2>6. load[v][f] = Over(MergeIncludes(inc, load[u]), Loaded(read[f].keys))
    BY <2>1, <2>3 DEF Loads, Follows
  <2>7. inc \in Seq(Files) /\ \A i \in 1 .. Len(inc) : inc[i] \in Includes(read, f)
    BY <2>1, IncludesAre
  <2> HIDE DEF u
  <2>8. \A i \in 1 .. Len(inc) :
           ord[inc[i]] \in Seq(Files) /\ load[u][inc[i]] = Loaded(Laid(read, ord[inc[i]]))
    BY <2>5, <2>7
  <2>9. MergeIncludes(inc, load[u]) = Loaded(Laid(read, below))
    <3> DEFINE sub == load[u]
    <3>1. \A i \in 1 .. Len(inc) :
             ord[inc[i]] \in Seq(Files) /\ sub[inc[i]] = Loaded(Laid(read, ord[inc[i]]))
      BY <2>8
    <3> HIDE DEF sub, inc
    <3>2. MergeIncludes(inc, sub) = Loaded(Laid(read, FlattenSeq(Strung(inc, ord))))
      BY <2>7, <3>1, MergeIsLaid
    <3> QED
      BY <3>2 DEF sub, Strung
  <2>10. all \in Seq(Seq(Files))
    <3>1. \A g \in Includes(read, f) : ord[g] \in Seq(Files)
      BY <2>5
    <3> QED
      BY <2>1, <3>1, OneIsOrder DEF Strung
  <2>11. ord[f] = Append(below, f)
    BY <1>2 DEF One, Strung
  <2> HIDE DEF all
  <2>12. below \in Seq(Files)
    <3>1. << >> \in Seq(Files)
      BY EmptySeq
    <3> QED
      BY <2>10, <3>1, FlatAppend
  <2> HIDE DEF below
  <2>13. Laid(read, Append(below, f)) = Merge(Laid(read, below), read[f].keys)
    BY <2>1, <2>12, LaidAppend
  <2>14. Over(Loaded(Laid(read, below)), Loaded(read[f].keys)) = Loaded(Merge(Laid(read, below), read[f].keys))
    BY OverFacts
  <2> QED
    BY <2>6, <2>9, <2>11, <2>13, <2>14
<1>6. P = Nat
  <2>1. P \in SUBSET Nat
    OBVIOUS
  <2> HIDE DEF P
  <2> QED
    BY <1>4, <1>5, <2>1, SetInduction
<1>7. Right({}, first)
  <2>1. Left({}) \in Nat
    BY OneFewer
  <2>2. Left({}) + 1 \in Nat /\ Left({}) < Left({}) + 1
    BY <2>1
  <2>3. \A n \in Nat : \A v \in SUBSET Files : Left(v) < n => \A f \in R : Right(v, f)
    BY <1>6
  <2> HIDE DEF Right, P
  <2> QED
    BY <1>1, <2>2, <2>3
<1>8. load[{}][first] = Loaded(Laid(read, ord[first]))
  BY <1>7
<1> QED
  BY <1>2, <1>8 DEF LaterWins

----------------------------------------------------------------------------
(* What a file comes to, over any documents. *)
LEMMA LoadsAre ==
  ASSUME NEW read, Readable(read), NEW f \in Files
  PROVE  IF Loadable(read, f) THEN Load(read, f, {}) = Loaded(LaterWins(read, f))
         ELSE Load(read, f, {}) = Fatal
<1>1. PICK load : /\ \A first, included : Load(read, first, included) = load[included][first]
                  /\ Follows(read, load)
  BY LoadSteps
<1>2. Load(read, f, {}) = load[{}][f] /\ {} \in SUBSET Files
  BY <1>1
<1>3. CASE Loadable(read, f)
  BY <1>1, <1>2, <1>3, LoadableLoads
<1>4. CASE ~ Loadable(read, f)
  <2>1. load[{}][f] = Fatal \/ Loadable(read, f)
    BY <1>1, <1>2, LoadedIsLoadable
  <2> QED
    BY <1>2, <1>4, <2>1
<1> QED
  BY <1>3, <1>4

(* And what it is read as, once that is validated. *)
LEMMA ReadsAre ==
  ASSUME NEW read, Readable(read), NEW f \in Files
  PROVE  IF Loadable(read, f) /\ Accepted(LaterWins(read, f))
         THEN Read(read, f) = Loaded(LaterWins(read, f))
         ELSE Read(read, f) = Fatal
<1> DEFINE keys == LaterWins(read, f)
<1>1. Read(read, f) = Validated(Load(read, f, {}))
  BY DEF Read
<1>2. Loadable(read, f) => Load(read, f, {}) = Loaded(keys)
  BY LoadsAre
<1>3. ~ Loadable(read, f) => Load(read, f, {}) = Fatal
  BY LoadsAre
<1> HIDE DEF keys
<1>4. Validated(Loaded(keys)) = IF Accepted(keys) THEN Loaded(keys) ELSE Fatal
  BY DEF Validated, Loaded
<1>5. Validated(Fatal) = Fatal
  BY DEF Validated, Fatal
<1>6. IF Loadable(read, f) /\ Accepted(keys) THEN Read(read, f) = Loaded(keys)
      ELSE Read(read, f) = Fatal
  BY <1>1, <1>2, <1>3, <1>4, <1>5
<1> QED
  BY <1>6 DEF keys

(* The files hold documents, whatever the user makes of them. *)
DiskOK ==
  /\ disk \in [Files -> UNION {Documents[f] : f \in Files}]
  /\ \A f \in Files : disk[f] \in Documents[f]

LEMMA DiskIsDocuments == Spec => []DiskOK
<1>1. Init => DiskOK
  BY DEF Init, DiskOK
<1>2. DiskOK /\ [Next]_vars => DiskOK'
  <2> SUFFICES ASSUME DiskOK, [Next]_vars PROVE DiskOK'
    OBVIOUS
  <2>1. ASSUME NEW f \in Files, Edit(f) PROVE DiskOK'
    <3>1. PICK d \in Documents[f] : disk' = [disk EXCEPT ![f] = d]
      BY <2>1 DEF Edit
    <3>2. d \in UNION {Documents[g] : g \in Files}
      OBVIOUS
    <3> QED
      BY <3>1, <3>2 DEF DiskOK
  <2>2. CASE UNCHANGED disk
    BY <2>2 DEF DiskOK
  <2>3. CASE \/ Refreshes \/ Watch \/ SourceSaved \/ \E over \in BOOLEAN : Sampled(over)
             \/ \E batch \in SUBSET pending : Notified(batch)
             \/ ReadFile \/ Finish
    BY <2>2, <2>3 DEF Refreshes, Watch, SourceSaved, Sampled, Notified, ReadFile, Finish, user
  <2>4. CASE UNCHANGED vars
    BY <2>2, <2>4 DEF vars, user
  <2> QED
    BY <2>1, <2>3, <2>4 DEF Next
<1> QED
  BY <1>1, <1>2, PTL DEF Spec

(* Whatever the files hold, a file is read exactly when everything it      *)
(* reaches is there, can be loaded and does not come back to itself, and   *)
(* no value is rejected of those laid down last, nor any entry of a list   *)
(* that adds up; then every key is the last one laid down, or the lists of *)
(* all of them (Config::read, load_with_includes, deep_merge).             *)
THEOREM LoadsLaterWins == Spec => []LoadIsLaterWins
<1>1. DiskOK => LoadIsLaterWins
  <2> SUFFICES ASSUME DiskOK PROVE LoadIsLaterWins
    OBVIOUS
  <2>1. Readable(disk)
    BY DocumentsAssumption DEF DiskOK, Readable
  <2> QED
    BY <2>1, ReadsAre DEF LoadIsLaterWins
<1> QED
  BY <1>1, DiskIsDocuments, PTL
=================================================================================
