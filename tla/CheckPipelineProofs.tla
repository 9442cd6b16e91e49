--------------------------- MODULE CheckPipelineProofs ---------------------------
(***************************************************************************)
(* What check reports and how it exits, for every work list, every content  *)
(* of its files, every configuration and every baseline, in whatever order  *)
(* the pool works.                                                          *)
(***************************************************************************)
EXTENDS CheckPipeline, SequenceTheorems, FiniteSetTheorems, FunctionTheorems, TLAPS

(* Induction over the naturals, for a set of them. *)
LEMMA SetInduction ==
  ASSUME NEW P \in SUBSET Nat, 0 \in P, \A n \in P : n + 1 \in P
  PROVE  P = Nat
<1> SUFFICES ASSUME P # Nat PROVE FALSE
  OBVIOUS
<1> DEFINE T == Nat \ P
           R == OpToRel(<, Nat)
<1>1. IsWellFoundedOn(R, Nat)
  BY NatLessThanWellFounded
<1>2. T \subseteq Nat /\ T # {}
  OBVIOUS
<1>3. PICK x \in T : \A y \in T : <<y, x>> \notin R
  <2> HIDE DEF T, R
  <2> QED BY <1>1, <1>2, WFMin
<1>4. x # 0 /\ x - 1 \in Nat /\ x \in Nat
  OBVIOUS
<1>5. <<x - 1, x>> \in R
  BY <1>4 DEF OpToRel
<1>6. x - 1 \in P
  BY <1>3, <1>4, <1>5
<1>7. x - 1 + 1 \in P
  BY <1>6
<1> QED
  BY <1>4, <1>7

(* A function defined by recursion over 0 .. n exists. *)
Iterates(g, n, first, step) ==
  \A i \in 0 .. n : g[i] = IF i = 0 THEN first ELSE step[i][g[i - 1]]

LEMMA Recursion ==
  ASSUME NEW T, NEW first \in T, NEW n \in Nat, NEW step \in [Nat -> [T -> T]]
  PROVE  \E g \in [0 .. n -> T] : Iterates(g, n, first, step)
<1> DEFINE Built(m, g) == Iterates(g, m, first, step)
           P == {m \in Nat : \E g \in [0 .. m -> T] : Built(m, g)}
<1>1. 0 \in P
  <2>1. [i \in 0 .. 0 |-> first] \in [0 .. 0 -> T] /\ Built(0, [i \in 0 .. 0 |-> first])
    BY DEF Iterates
  <2> QED
    BY <2>1
<1>2. ASSUME NEW m \in P PROVE m + 1 \in P
  <2>1. PICK g \in [0 .. m -> T] : Built(m, g)
    OBVIOUS
  <2> DEFINE h == [i \in 0 .. m + 1 |-> IF i = m + 1 THEN step[i][g[m]] ELSE g[i]]
  <2>2. m \in Nat /\ m + 1 - 1 = m
    OBVIOUS
  <2>3. step[m + 1][g[m]] \in T
    BY <2>2
  <2>4. h \in [0 .. m + 1 -> T]
    BY <2>2, <2>3
  <2>5. ASSUME NEW i \in 0 .. m + 1
        PROVE  h[i] = IF i = 0 THEN first ELSE step[i][h[i - 1]]
    <3>1. CASE i = m + 1
      BY <2>2, <3>1
    <3>2. CASE i \in 0 .. m
      <4>1. h[i] = g[i] /\ (i # 0 => i - 1 \in 0 .. m /\ h[i - 1] = g[i - 1])
        BY <2>2, <3>2
      <4> QED
        BY <2>1, <3>2, <4>1 DEF Iterates
    <3> QED
      BY <2>2, <3>1, <3>2
  <2>6. Built(m + 1, h)
    BY <2>5 DEF Iterates
  <2>7. m + 1 \in Nat
    BY <2>2
  <2> HIDE DEF Built, h
  <2> QED
    BY <2>4, <2>6, <2>7
<1>3. P = Nat
  <2> HIDE DEF Built
  <2>1. P \in SUBSET Nat
    OBVIOUS
  <2> HIDE DEF P
  <2> QED
    BY <1>1, <1>2, <2>1, SetInduction
<1> QED
  BY <1>3

----------------------------------------------------------------------------
(* Induction over sequences, an element at a time. *)
LEMMA AppendInduction ==
  ASSUME NEW X, NEW P \in SUBSET Seq(X), << >> \in P,
         \A s \in P, x \in X : Append(s, x) \in P
  PROVE  P = Seq(X)
<1> DEFINE N == {n \in Nat : \A s \in Seq(X) : Len(s) = n => s \in P}
<1>1. 0 \in N
  BY EmptySeq
<1>2. ASSUME NEW n \in N PROVE n + 1 \in N
  <2> SUFFICES ASSUME NEW s \in Seq(X), Len(s) = n + 1 PROVE s \in P
    OBVIOUS
  <2>1. n \in Nat /\ s # << >>
    BY EmptySeq
  <2>2. PICK t \in Seq(X), x \in X : s = Append(t, x)
    BY <2>1, SequenceEmptyOrAppend
  <2>3. Len(s) = Len(t) + 1 /\ Len(t) \in Nat
    BY <2>2, AppendProperties, LenProperties
  <2>4. Len(t) = n
    BY <2>1, <2>3
  <2> QED BY <2>2, <2>4
<1>3. N = Nat
  <2>1. N \in SUBSET Nat
    OBVIOUS
  <2> HIDE DEF N
  <2> QED BY <1>1, <1>2, <2>1, SetInduction
<1> QED BY <1>3, LenProperties

----------------------------------------------------------------------------
(* FlattenSeq puts the sequences one after the other. *)
Puts(flat, ss) == \A i \in 1 .. Len(ss) : flat[i] = flat[i - 1] \o ss[i]

LEMMA FlatSteps ==
  ASSUME NEW X, NEW ss \in Seq(Seq(X))
  PROVE  \E flat \in [0 .. Len(ss) -> Seq(X)] :
           FlattenSeq(ss) = flat[Len(ss)] /\ flat[0] = << >> /\ Puts(flat, ss)
<1> DEFINE n == Len(ss)
           step == [i \in Nat |-> [t \in Seq(X) |-> IF i \in 1 .. n THEN t \o ss[i] ELSE t]]
           Is(g) == g = [i \in 1 .. n |-> IF i = 1 THEN ss[i] ELSE g[i - 1] \o ss[i]]
           chosen == CHOOSE g : Is(g)
           flat == [i \in 0 .. n |-> IF i = 0 THEN << >> ELSE chosen[i]]
<1>1. n \in Nat /\ << >> \in Seq(X) /\ \A i \in 1 .. n : ss[i] \in Seq(X)
  BY LenProperties, EmptySeq
<1>2. step \in [Nat -> [Seq(X) -> Seq(X)]]
  BY <1>1, ConcatProperties
<1>3. PICK g \in [0 .. n -> Seq(X)] :
        \A i \in 0 .. n : g[i] = IF i = 0 THEN << >> ELSE step[i][g[i - 1]]
  <2> DEFINE T == Seq(X)
             first == << >>
  <2>1. n \in Nat /\ first \in T /\ step \in [Nat -> [T -> T]]
    BY <1>1, <1>2
  <2> HIDE DEF step, n, T, first
  <2>2. \E g \in [0 .. n -> T] : Iterates(g, n, first, step)
    BY <2>1, Recursion
  <2> QED BY <2>2 DEF T, first, Iterates
<1> DEFINE h == [i \in 1 .. n |-> g[i]]
<1>4. Is(h)
  <2> SUFFICES ASSUME NEW i \in 1 .. n
               PROVE  h[i] = IF i = 1 THEN ss[i] ELSE h[i - 1] \o ss[i]
    OBVIOUS
  <2>1. i \in Nat /\ i \in 0 .. n /\ i - 1 \in 0 .. n /\ i # 0
    BY <1>1
  <2>2. g[i] = step[i][g[i - 1]] /\ g[i - 1] \in Seq(X)
    BY <1>3, <2>1
  <2>3. step[i][g[i - 1]] = g[i - 1] \o ss[i]
    BY <2>1, <2>2
  <2>4. CASE i = 1
    <3>1. i - 1 = 0 /\ 0 \in 0 .. n
      BY <1>1, <2>4
    <3>2. g[0] = << >>
      <4> HIDE DEF step
      <4> QED BY <1>3, <3>1
    <3>3. << >> \o ss[i] = ss[i]
      BY <1>1, ConcatEmptySeq
    <3> HIDE DEF step, n, h
    <3>4. h[i] = g[i]
      BY DEF h
    <3> QED BY <2>2, <2>3, <2>4, <3>1, <3>2, <3>3, <3>4
  <2>5. CASE i # 1
    <3>1. i - 1 \in 1 .. n
      BY <2>1, <2>5
    <3>2. h[i - 1] = g[i - 1] /\ h[i] = g[i]
      BY <3>1
    <3> HIDE DEF h, step, n
    <3> QED BY <2>2, <2>3, <2>5, <3>2
  <2> QED BY <2>4, <2>5
<1>5. Is(chosen)
  <2> HIDE DEF Is, h
  <2> QED BY <1>4
<1>6. n # 0 => FlattenSeq(ss) = chosen[n]
  BY DEF FlattenSeq
<1> HIDE DEF chosen
<1>7. \A i \in 1 .. n : chosen[i] = IF i = 1 THEN ss[i] ELSE chosen[i - 1] \o ss[i]
  <2> HIDE DEF n
  <2> QED BY <1>5
<1>8. \A i \in 0 .. n : flat[i] \in Seq(X)
  <2> DEFINE P == {m \in Nat : m <= n => flat[m] \in Seq(X)}
  <2>1. 0 \in P
    BY <1>1
  <2>2. ASSUME NEW m \in P PROVE m + 1 \in P
    <3> SUFFICES ASSUME m + 1 <= n PROVE flat[m + 1] \in Seq(X)
      OBVIOUS
    <3>1. m \in Nat /\ m + 1 \in 1 .. n /\ m + 1 - 1 = m /\ m <= n
      BY <1>1
    <3>2. flat[m] \in Seq(X) /\ ss[m + 1] \in Seq(X)
      BY <1>1, <3>1
    <3>3. flat[m + 1] = IF m + 1 = 1 THEN ss[m + 1] ELSE chosen[m] \o ss[m + 1]
      BY <1>7, <3>1
    <3>4. m # 0 => flat[m] = chosen[m]
      BY <1>1, <3>1
    <3>5. m # 0 => chosen[m] \o ss[m + 1] \in Seq(X)
      <4> HIDE DEF flat
      <4> QED BY <3>2, <3>4, ConcatProperties
    <3>6. m + 1 = 1 <=> m = 0
      BY <3>1
    <3> HIDE DEF flat
    <3> QED BY <3>2, <3>3, <3>5, <3>6
  <2>3. P \in SUBSET Nat
    OBVIOUS
  <2>4. P = Nat
    <3> HIDE DEF P
    <3> QED BY <2>1, <2>2, <2>3, SetInduction
  <2> HIDE DEF flat, n
  <2>5. \A m \in Nat : m <= n => flat[m] \in Seq(X)
    BY <2>4
  <2> QED BY <1>1, <2>5
<1>9. ASSUME NEW i \in 1 .. n PROVE flat[i] = flat[i - 1] \o ss[i]
  <2>1. i \in Nat /\ i \in 0 .. n /\ i - 1 \in 0 .. n /\ i # 0
    BY <1>1
  <2>2. flat[i] = IF i = 1 THEN ss[i] ELSE chosen[i - 1] \o ss[i]
    BY <1>7, <2>1
  <2>3. CASE i = 1
    <3>1. flat[i - 1] = << >>
      BY <1>1, <2>3
    <3>2. << >> \o ss[i] = ss[i]
      BY <1>1, ConcatEmptySeq
    <3> HIDE DEF flat
    <3> QED BY <2>2, <2>3, <3>1, <3>2
  <2>4. CASE i # 1
    <3>1. flat[i - 1] = chosen[i - 1]
      BY <2>1, <2>4
    <3> HIDE DEF flat
    <3> QED BY <2>2, <2>4, <3>1
  <2> QED BY <2>3, <2>4
<1>10. FlattenSeq(ss) = flat[n]
  <2>1. CASE n = 0
    <3>1. FlattenSeq(ss) = ss /\ ss = << >>
      BY <2>1, EmptySeq DEF FlattenSeq
    <3> QED BY <2>1, <3>1
  <2>2. CASE n # 0
    BY <1>1, <1>6, <2>2
  <2> QED BY <2>1, <2>2
<1>11. flat[0] = << >> /\ flat \in [0 .. n -> Seq(X)]
  BY <1>1, <1>8
<1> HIDE DEF flat
<1>12. Puts(flat, ss)
  BY <1>9 DEF Puts
<1> HIDE DEF n
<1> QED BY <1>10, <1>11, <1>12 DEF n

LEMMA PutsNext ==
  ASSUME NEW flat, NEW ss, NEW m \in Nat, Puts(flat, ss), m + 1 \in 1 .. Len(ss)
  PROVE  flat[m + 1] = flat[m] \o ss[m + 1]
<1>1. (m + 1) - 1 = m
  OBVIOUS
<1>2. flat[m + 1] = flat[(m + 1) - 1] \o ss[m + 1]
  BY Zenon DEF Puts
<1> QED BY <1>1, <1>2

LEMMA FlatAppend ==
  ASSUME NEW X, NEW ss \in Seq(Seq(X)), NEW s \in Seq(X)
  PROVE  /\ FlattenSeq(ss) \in Seq(X)
         /\ FlattenSeq(Append(ss, s)) = FlattenSeq(ss) \o s
<1> DEFINE tt == Append(ss, s)
           n == Len(ss)
<1>1. /\ tt \in Seq(Seq(X)) /\ n \in Nat /\ Len(tt) = n + 1 /\ tt[n + 1] = s
      /\ \A i \in 1 .. n : tt[i] = ss[i]
  <2>1. tt \in Seq(Seq(X)) /\ Len(tt) = n + 1
    BY AppendProperties
  <2>2. \A i \in 1 .. n : tt[i] = ss[i]
    BY AppendProperties
  <2>3. tt[n + 1] = s
    BY AppendProperties
  <2> QED BY <2>1, <2>2, <2>3, LenProperties
<1>2. PICK f \in [0 .. n -> Seq(X)] :
        FlattenSeq(ss) = f[n] /\ f[0] = << >> /\ Puts(f, ss)
  BY FlatSteps
<1> HIDE DEF tt, n
<1>3. PICK g \in [0 .. Len(tt) -> Seq(X)] :
        FlattenSeq(tt) = g[Len(tt)] /\ g[0] = << >> /\ Puts(g, tt)
  BY <1>1, FlatSteps
<1> DEFINE P == {m \in Nat : m <= n => g[m] = f[m]}
<1>4. 0 \in P
  BY <1>1, <1>2, <1>3
<1>5. ASSUME NEW m \in P PROVE m + 1 \in P
  <2> SUFFICES ASSUME m + 1 <= n PROVE g[m + 1] = f[m + 1]
    OBVIOUS
  <2>1. m + 1 \in 1 .. n /\ m + 1 \in 1 .. Len(tt) /\ m + 1 - 1 = m /\ m <= n
    BY <1>1
  <2>2. g[m] = f[m] /\ tt[m + 1] = ss[m + 1]
    BY <1>1, <2>1
  <2>3. f[m + 1] = f[m] \o ss[m + 1]
    BY <1>2, <2>1, PutsNext DEF n
  <2>4. g[m + 1] = g[m] \o tt[m + 1]
    BY <1>3, <2>1, PutsNext
  <2> QED BY <2>2, <2>3, <2>4
<1>6. P = Nat
  <2>1. P \in SUBSET Nat
    OBVIOUS
  <2> HIDE DEF P
  <2> QED BY <1>4, <1>5, <2>1, SetInduction
<1>7. g[n] = f[n]
  <2> HIDE DEF n
  <2>1. \A m \in Nat : m <= n => g[m] = f[m]
    BY <1>6
  <2> QED BY <1>1, <2>1
<1>8. n + 1 \in 1 .. Len(tt) /\ n + 1 - 1 = n /\ n \in 0 .. n
  BY <1>1
<1>9. g[n + 1] = g[n] \o tt[n + 1]
  BY <1>1, <1>3, <1>8, PutsNext
<1>10. FlattenSeq(tt) = FlattenSeq(ss) \o s
  BY <1>1, <1>2, <1>3, <1>7, <1>9
<1>11. FlattenSeq(ss) \in Seq(X)
  BY <1>2, <1>8
<1> QED BY <1>10, <1>11 DEF tt

LEMMA FlatEmpty == FlattenSeq(<< >>) = << >>
BY EmptySeq DEF FlattenSeq

----------------------------------------------------------------------------
(* What a function makes of each element. *)
Sends(f, X, Y) == \A x \in X : f[x] \in Y

Each(s, f) == [i \in DOMAIN s |-> f[s[i]]]

LEMMA EachProperties ==
  ASSUME NEW X, NEW Y, NEW f, Sends(f, X, Y)
  PROVE  \A s \in Seq(X) : /\ Each(s, f) \in Seq(Y) /\ Len(Each(s, f)) = Len(s)
                           /\ DOMAIN Each(s, f) = DOMAIN s
<1> SUFFICES ASSUME NEW s \in Seq(X)
             PROVE  /\ Each(s, f) \in Seq(Y) /\ Len(Each(s, f)) = Len(s)
                    /\ DOMAIN Each(s, f) = DOMAIN s
  OBVIOUS
<1> DEFINE n == Len(s)
           e(i) == f[s[i]]
           t == [i \in 1 .. n |-> f[s[i]]]
<1>1. n \in Nat /\ DOMAIN s = 1 .. n /\ \A i \in 1 .. n : s[i] \in X
  BY LenProperties
<1>2. Each(s, f) = t
  BY <1>1 DEF Each
<1>3. t \in [1 .. n -> Y]
  BY <1>1 DEF Sends
<1>4. t \in Seq(Y) /\ DOMAIN t = 1 .. n
  BY <1>1, <1>3
<1>5. Len(t) = n
  BY <1>1, <1>4
<1> QED BY <1>1, <1>2, <1>4, <1>5

LEMMA EachAppend ==
  ASSUME NEW X, NEW Y, NEW f, Sends(f, X, Y), NEW s \in Seq(X), NEW x \in X
  PROVE  Each(Append(s, x), f) = Append(Each(s, f), f[x])
<1> DEFINE n == Len(s)
           t == Append(s, x)
           y == f[x]
           e == Each(s, f)
           u == Each(t, f)
           v == Append(e, y)
<1>1. n \in Nat /\ DOMAIN s = 1 .. n /\ y \in Y
  BY LenProperties DEF Sends
<1>2. /\ t \in Seq(X) /\ Len(t) = n + 1
      /\ t[n + 1] = x
      /\ \A i \in 1 .. n : t[i] = s[i]
  <2>1. t \in Seq(X) /\ Len(t) = n + 1
    BY AppendProperties
  <2>2. \A i \in 1 .. n : t[i] = s[i]
    BY AppendProperties
  <2>3. t[n + 1] = x
    BY AppendProperties
  <2> QED BY <2>1, <2>2, <2>3
<1>3. DOMAIN t = 1 .. n + 1
  <2> HIDE DEF t
  <2> QED BY <1>2, LenProperties
<1>e. \A r \in Seq(X) : Each(r, f) \in Seq(Y) /\ Len(Each(r, f)) = Len(r)
  BY EachProperties
<1>4. /\ e \in Seq(Y) /\ Len(e) = n
      /\ \A i \in 1 .. n : e[i] = f[s[i]]
  BY <1>1, <1>e DEF Each
<1>5. /\ u \in Seq(Y) /\ Len(u) = n + 1
      /\ \A i \in 1 .. n + 1 : u[i] = f[t[i]]
  <2> HIDE DEF t, n
  <2>1. u \in Seq(Y) /\ Len(u) = Len(t)
    BY <1>2, <1>e
  <2>2. \A i \in DOMAIN t : u[i] = f[t[i]]
    BY DEF Each
  <2> QED BY <1>2, <1>3, <2>1, <2>2
<1> HIDE DEF e, y
<1>6. v \in Seq(Y) /\ Len(v) = n + 1
  BY <1>1, <1>4, AppendProperties
<1>7. \A i \in 1 .. n : v[i] = e[i]
  BY <1>1, <1>4, AppendProperties
<1>8. v[n + 1] = y
  BY <1>1, <1>4, AppendProperties
<1> HIDE DEF v, t, u, n
<1>9. ASSUME NEW i \in 1 .. n + 1 PROVE u[i] = v[i]
  <2>1. CASE i = n + 1
    BY <1>2, <1>5, <1>8, <2>1 DEF y
  <2>2. CASE i \in 1 .. n
    BY <1>2, <1>4, <1>5, <1>7, <2>2
  <2> QED BY <1>1, <2>1, <2>2
<1>10. u = v
  BY <1>5, <1>6, <1>9, SeqEqual
<1> QED BY <1>10 DEF u, v, t, e, y

LEMMA EachEmpty == \A f : Each(<< >>, f) = << >>
<1>1. DOMAIN << >> = {}
  BY EmptySeq
<1> QED BY <1>1 DEF Each

----------------------------------------------------------------------------
(* What a function to sequences makes of each element, put together. *)
Bind(s, f) == FlattenSeq(Each(s, f))

LEMMA BindEmpty == \A f : Bind(<< >>, f) = << >>
BY EachEmpty, FlatEmpty DEF Bind

LEMMA BindAppend ==
  ASSUME NEW X, NEW Y, NEW f, Sends(f, X, Seq(Y))
  PROVE  \A s \in Seq(X), x \in X : /\ Bind(s, f) \in Seq(Y)
                                    /\ Bind(Append(s, x), f) = Bind(s, f) \o f[x]
<1> SUFFICES ASSUME NEW s \in Seq(X), NEW x \in X
             PROVE  /\ Bind(s, f) \in Seq(Y)
                    /\ Bind(Append(s, x), f) = Bind(s, f) \o f[x]
  OBVIOUS
<1> DEFINE e == Each(s, f)
           y == f[x]
<1>1. e \in Seq(Seq(Y)) /\ y \in Seq(Y)
  BY EachProperties DEF Sends
<1>2. Each(Append(s, x), f) = Append(e, y)
  BY EachAppend
<1> HIDE DEF e, y
<1>3. FlattenSeq(e) \in Seq(Y) /\ FlattenSeq(Append(e, y)) = FlattenSeq(e) \o y
  BY <1>1, FlatAppend
<1> QED BY <1>2, <1>3 DEF Bind, e, y

LEMMA BindType ==
  ASSUME NEW X, NEW Y, NEW f, Sends(f, X, Seq(Y))
  PROVE  \A s \in Seq(X) : Bind(s, f) \in Seq(Y)
<1> SUFFICES ASSUME NEW s \in Seq(X) PROVE Bind(s, f) \in Seq(Y)
  OBVIOUS
<1>1. CASE s = << >>
  BY <1>1, BindEmpty, EmptySeq
<1>2. CASE s # << >>
  BY <1>2, BindAppend, SequenceEmptyOrAppend
<1> QED BY <1>1, <1>2

LEMMA ConcatAppend ==
  ASSUME NEW X
  PROVE  \A s, t \in Seq(X), x \in X : s \o Append(t, x) = Append(s \o t, x)
<1> SUFFICES ASSUME NEW s \in Seq(X), NEW t \in Seq(X), NEW x \in X
             PROVE  s \o Append(t, x) = Append(s \o t, x)
  OBVIOUS
<1> DEFINE one == <<x>>
<1>1. one \in Seq(X) /\ s \o t \in Seq(X)
  BY ConcatProperties
<1>2. Append(t, x) = t \o one /\ Append(s \o t, x) = (s \o t) \o one
  BY <1>1, AppendIsConcat
<1> HIDE DEF one
<1> QED BY <1>1, <1>2, ConcatAssociative

LEMMA BindConcat ==
  ASSUME NEW X, NEW Y, NEW f, Sends(f, X, Seq(Y))
  PROVE  \A s, t \in Seq(X) : Bind(s \o t, f) = Bind(s, f) \o Bind(t, f)
<1> SUFFICES ASSUME NEW s \in Seq(X)
             PROVE  \A t \in Seq(X) : Bind(s \o t, f) = Bind(s, f) \o Bind(t, f)
  OBVIOUS
<1> DEFINE P == {t \in Seq(X) : Bind(s \o t, f) = Bind(s, f) \o Bind(t, f)}
<1>t. \A r \in Seq(X) : Bind(r, f) \in Seq(Y)
  BY BindType
<1>1. << >> \in P
  <2>1. s \o << >> = s
    BY ConcatEmptySeq
  <2>2. Bind(s, f) \o << >> = Bind(s, f)
    BY <1>t, ConcatEmptySeq
  <2> QED BY <2>1, <2>2, BindEmpty, EmptySeq
<1>2. ASSUME NEW t \in P, NEW x \in X PROVE Append(t, x) \in P
  <2> DEFINE st == s \o t
             u == Append(t, x)
             b == Bind(s, f)
             c == Bind(t, f)
             y == f[x]
  <2>1. st \in Seq(X) /\ t \in Seq(X) /\ u \in Seq(X) /\ y \in Seq(Y)
    BY ConcatProperties, AppendProperties DEF Sends
  <2>2. s \o u = Append(st, x)
    BY <2>1, ConcatAppend
  <2>3. Bind(st, f) = b \o c
    OBVIOUS
  <2>h. \A p \in Seq(X), z \in X : Bind(Append(p, z), f) = Bind(p, f) \o f[z]
    BY BindAppend
  <2>5. b \in Seq(Y) /\ c \in Seq(Y)
    BY <1>t, <2>1
  <2> HIDE DEF P, st, b, c, y, u
  <2>4. Bind(u, f) = c \o y
    BY <2>1, <2>h DEF u, c, y
  <2>6. Bind(Append(st, x), f) = Bind(st, f) \o y
    BY <2>1, BindAppend DEF y
  <2>7. (b \o c) \o y = b \o (c \o y)
    <3>1. \A k, l, m \in Seq(Y) : (k \o l) \o m = k \o (l \o m)
      BY ConcatAssociative
    <3> QED BY <2>1, <2>5, <3>1, Zenon DEF y
  <2>8. Bind(s \o u, f) = b \o Bind(u, f)
    BY <2>2, <2>3, <2>4, <2>6, <2>7
  <2> QED BY <2>1, <2>8 DEF P, u, b
<1>3. P = Seq(X)
  <2>1. P \in SUBSET Seq(X)
    OBVIOUS
  <2> HIDE DEF P
  <2> QED BY <1>1, <1>2, <2>1, AppendInduction
<1> QED BY <1>3

LEMMA BindOne ==
  ASSUME NEW X, NEW Y, NEW f, Sends(f, X, Seq(Y))
  PROVE  \A x \in X : Bind(<<x>>, f) = f[x]
<1> TAKE x \in X
<1> DEFINE e == << >>
<1>1. e \in Seq(X) /\ <<x>> = Append(e, x) /\ f[x] \in Seq(Y)
  BY EmptySeq DEF Sends
<1>2. Bind(e, f) = << >> /\ << >> \o f[x] = f[x]
  BY <1>1, BindEmpty, ConcatEmptySeq
<1> HIDE DEF e
<1>3. Bind(Append(e, x), f) = Bind(e, f) \o f[x]
  <2>1. \A u \in Seq(X), y \in X : Bind(Append(u, y), f) = Bind(u, f) \o f[y]
    BY BindAppend
  <2> QED BY <1>1, <2>1
<1> QED BY <1>1, <1>2, <1>3

Composes(h, f, g, X) == \A x \in X : h[x] = Bind(f[x], g)

LEMMA BindBind ==
  ASSUME NEW X, NEW Y, NEW Z, NEW f, NEW g, Sends(f, X, Seq(Y)), Sends(g, Y, Seq(Z)),
         NEW h, Composes(h, f, g, X)
  PROVE  \A s \in Seq(X) : Bind(Bind(s, f), g) = Bind(s, h)
<1> DEFINE P == {s \in Seq(X) : Bind(Bind(s, f), g) = Bind(s, h)}
<1>h. Sends(h, X, Seq(Z)) /\ \A x \in X : h[x] = Bind(f[x], g)
  BY BindType DEF Sends, Composes
<1>1. << >> \in P
  BY BindEmpty, EmptySeq
<1>2. ASSUME NEW s \in P, NEW x \in X PROVE Append(s, x) \in P
  <2> DEFINE t == Append(s, x)
             b == Bind(s, f)
             y == f[x]
  <2>1. s \in Seq(X) /\ t \in Seq(X) /\ y \in Seq(Y) /\ b \in Seq(Y)
    BY BindType, AppendProperties DEF Sends
  <2>2. Bind(t, f) = b \o y
    BY <2>1, BindAppend
  <2>3. Bind(t, h) = Bind(s, h) \o h[x]
    BY <1>h, <2>1, BindAppend
  <2>4. Bind(b, g) = Bind(s, h) /\ h[x] = Bind(y, g)
    BY <1>h
  <2> HIDE DEF b, y, t
  <2>5. Bind(b \o y, g) = Bind(b, g) \o Bind(y, g)
    BY <2>1, BindConcat
  <2> QED BY <2>1, <2>2, <2>3, <2>4, <2>5 DEF t
<1>3. P = Seq(X)
  <2>1. P \in SUBSET Seq(X)
    OBVIOUS
  <2> HIDE DEF P
  <2> QED BY <1>1, <1>2, <2>1, AppendInduction
<1> QED BY <1>3

LEMMA BindSame ==
  ASSUME NEW s, NEW f, NEW g, \A i \in DOMAIN s : f[s[i]] = g[s[i]]
  PROVE  Bind(s, f) = Bind(s, g)
BY DEF Bind, Each

(* One element of each, or none. *)
Ones(f, g, X) == \A x \in X : f[x] = <<g[x]>>

LEMMA BindOnes ==
  ASSUME NEW X, NEW Y, NEW f, NEW g, Sends(g, X, Y), Ones(f, g, X)
  PROVE  \A s \in Seq(X) : Bind(s, f) = Each(s, g)
<1> DEFINE P == {s \in Seq(X) : Bind(s, f) = Each(s, g)}
<1>h. Sends(f, X, Seq(Y))
  <2>1. \A y \in Y : <<y>> \in Seq(Y)
    OBVIOUS
  <2>2. \A x \in X : g[x] \in Y /\ f[x] = <<g[x]>>
    BY DEF Sends, Ones
  <2>3. \A x \in X : f[x] \in Seq(Y)
    BY <2>1, <2>2, Zenon
  <2> QED BY <2>3 DEF Sends
<1>1. << >> \in P
  BY BindEmpty, EachEmpty, EmptySeq
<1>2. ASSUME NEW s \in P, NEW x \in X PROVE Append(s, x) \in P
  <2> DEFINE t == Append(s, x)
             e == Each(s, g)
             y == g[x]
  <2>1. s \in Seq(X) /\ t \in Seq(X) /\ y \in Y /\ e \in Seq(Y)
    BY EachProperties, AppendProperties DEF Sends
  <2>2. Bind(t, f) = Bind(s, f) \o f[x]
    BY <1>h, <2>1, BindAppend
  <2>3. Each(t, g) = Append(e, y)
    BY <2>1, EachAppend
  <2>4. Bind(s, f) = e /\ f[x] = <<y>>
    BY DEF Ones
  <2> HIDE DEF e, y, t
  <2>5. Append(e, y) = e \o <<y>>
    BY <2>1, AppendIsConcat
  <2> QED BY <2>1, <2>2, <2>3, <2>4, <2>5 DEF t
<1>3. P = Seq(X)
  <2>1. P \in SUBSET Seq(X)
    OBVIOUS
  <2> HIDE DEF P
  <2> QED BY <1>1, <1>2, <2>1, AppendInduction
<1> QED BY <1>3

LEMMA EachIdentity ==
  ASSUME NEW X, NEW f, \A x \in X : f[x] = x
  PROVE  \A s \in Seq(X) : Each(s, f) = s
<1> SUFFICES ASSUME NEW s \in Seq(X) PROVE Each(s, f) = s
  OBVIOUS
<1>1. DOMAIN s = 1 .. Len(s) /\ s = [i \in DOMAIN s |-> s[i]] /\ \A i \in DOMAIN s : s[i] \in X
  BY LenProperties
<1> QED BY <1>1 DEF Each

LEMMA BindNone ==
  ASSUME NEW X, NEW f, \A x \in X : f[x] = << >>
  PROVE  \A s \in Seq(X) : Bind(s, f) = << >>
<1> DEFINE P == {s \in Seq(X) : Bind(s, f) = << >>}
<1>h. Sends(f, X, Seq({}))
  BY EmptySeq DEF Sends
<1>1. << >> \in P
  BY BindEmpty, EmptySeq
<1>2. ASSUME NEW s \in P, NEW x \in X PROVE Append(s, x) \in P
  <2>1. Bind(Append(s, x), f) = Bind(s, f) \o f[x]
    BY <1>h, BindAppend
  <2>2. << >> \o << >> = << >>
    BY EmptySeq, ConcatEmptySeq
  <2> QED BY <2>1, <2>2, AppendProperties
<1>3. P = Seq(X)
  <2>1. P \in SUBSET Seq(X)
    OBVIOUS
  <2> HIDE DEF P
  <2> QED BY <1>1, <1>2, <2>1, AppendInduction
<1> QED BY <1>3

(* Picking the elements that are in a set *)
Pick(X, S) == [x \in X |-> IF x \in S THEN <<x>> ELSE << >>]

LEMMA ThoseIsBind ==
  ASSUME NEW X, NEW S
  PROVE  /\ Sends(Pick(X, S), X, Seq(X))
         /\ \A s \in Seq(X) : Those(s, S) = Bind(s, Pick(X, S))
<1>1. Sends(Pick(X, S), X, Seq(X))
  BY EmptySeq DEF Sends, Pick
<1>2. ASSUME NEW s \in Seq(X) PROVE Those(s, S) = Bind(s, Pick(X, S))
  <2>1. \A i \in DOMAIN s : s[i] \in X
    BY LenProperties
  <2>2. Each(s, Pick(X, S)) = [i \in DOMAIN s |-> IF s[i] \in S THEN <<s[i]>> ELSE << >>]
    BY <2>1 DEF Each, Pick
  <2> QED BY <2>2 DEF Those, Bind
<1> QED BY <1>1, <1>2

----------------------------------------------------------------------------
(* The numbers up to n, over which the work list is flattened *)
Up(n) == [i \in 1 .. n |-> i]

LEMMA UpProperties ==
  ASSUME NEW n \in Nat
  PROVE  /\ Up(n) \in Seq(1 .. n) /\ Len(Up(n)) = n
         /\ Up(n + 1) = Append(Up(n), n + 1)
         /\ Up(0) = << >>
<1>1. Up(n) \in Seq(1 .. n) /\ Len(Up(n)) = n
  BY DEF Up
<1>2. Up(n) \in Seq(1 .. n + 1)
  <2>1. 1 .. n \subseteq 1 .. n + 1
    OBVIOUS
  <2> QED BY <2>1 DEF Up
<1>3. Up(n + 1) \in Seq(1 .. n + 1) /\ Len(Up(n + 1)) = n + 1
  BY DEF Up
<1> DEFINE a == Append(Up(n), n + 1)
<1>4. n + 1 \in 1 .. n + 1
  OBVIOUS
<1>5. a \in Seq(1 .. n + 1) /\ Len(a) = n + 1
  BY <1>1, <1>2, <1>4, AppendProperties
<1>6. \A i \in 1 .. n : a[i] = Up(n)[i]
  BY <1>1, <1>2, <1>4, AppendProperties
<1>7. a[n + 1] = n + 1
  BY <1>1, <1>2, <1>4, AppendProperties
<1> HIDE DEF a
<1>8. ASSUME NEW i \in 1 .. n + 1 PROVE Up(n + 1)[i] = a[i]
  <2>1. CASE i = n + 1
    BY <1>7, <2>1 DEF Up
  <2>2. CASE i \in 1 .. n
    BY <1>6, <2>2 DEF Up
  <2> QED BY <2>1, <2>2
<1>9. Up(n + 1) = a
  BY <1>3, <1>5, <1>8, SeqEqual
<1>10. Up(0) = << >>
  <2>1. Up(0) \in Seq(1 .. 0) /\ Len(Up(0)) = 0
    BY DEF Up
  <2> QED BY <2>1, EmptySeq
<1> QED BY <1>1, <1>9, <1>10 DEF a

LEMMA FlatIsBind ==
  ASSUME NEW n \in Nat, NEW f, DOMAIN f = 1 .. n, f = [i \in 1 .. n |-> f[i]]
  PROVE  FlattenSeq(f) = Bind(Up(n), f)
BY DEF Bind, Each, Up

(* All but one are empty. *)
LEMMA BindSingle ==
  ASSUME NEW n \in Nat, NEW j \in 1 .. n, NEW Y, NEW f, f[j] \in Seq(Y),
         \A i \in 1 .. n : i # j => f[i] = << >>
  PROVE  Bind(Up(n), f) = f[j]
<1> DEFINE P == {m \in Nat : m <= n => Bind(Up(m), f) = IF m < j THEN << >> ELSE f[j]}
<1>1. 0 \in P
  BY UpProperties, BindEmpty
<1>2. ASSUME NEW m \in P PROVE m + 1 \in P
  <2> SUFFICES ASSUME m + 1 <= n
               PROVE  Bind(Up(m + 1), f) = IF m + 1 < j THEN << >> ELSE f[j]
    OBVIOUS
  <2>1. m \in Nat /\ m <= n /\ m + 1 \in 1 .. n
    OBVIOUS
  <2> DEFINE u == Up(m)
             k == m + 1
             old == Bind(u, f)
  <2>2. u \in Seq(1 .. n) /\ Up(k) = Append(u, k)
    <3>1. u \in Seq(1 .. m) /\ Up(k) = Append(u, k)
      BY <2>1, UpProperties
    <3>2. 1 .. m \subseteq 1 .. n
      BY <2>1
    <3>3. u \in Seq(1 .. n)
      <4> HIDE DEF u
      <4> QED BY <3>1, <3>2, SeqMonotonic
    <3> QED BY <3>1, <3>3
  <2>3. Sends(f, 1 .. n, Seq(Y))
    BY EmptySeq DEF Sends
  <2>5. old = IF m < j THEN << >> ELSE f[j]
    BY <2>1
  <2>6. \A t \in Seq(Y) : t \o << >> = t /\ << >> \o t = t
    BY ConcatEmptySeq
  <2>7. k \in 1 .. n /\ (m < j <=> k < j \/ k = j) /\ (k # j => f[k] = << >>)
    BY <2>1
  <2> HIDE DEF u, k, old
  <2>4. Bind(Append(u, k), f) = old \o f[k]
    <3>1. \A r \in Seq(1 .. n), x \in 1 .. n : Bind(Append(r, x), f) = Bind(r, f) \o f[x]
      BY <2>3, BindAppend
    <3> QED BY <2>2, <2>7, <3>1, Zenon DEF old
  <2>8. << >> \in Seq(Y) /\ (k < j => k # j)
    BY <2>7, EmptySeq
  <2>9. Bind(Up(k), f) = IF k < j THEN << >> ELSE f[j]
    <3>1. CASE k < j
      BY <2>2, <2>4, <2>5, <2>6, <2>7, <2>8, <3>1, Zenon
    <3>2. CASE k = j
      BY <2>2, <2>4, <2>5, <2>6, <2>7, <2>8, <3>2, Zenon
    <3>3. CASE ~ (k < j) /\ k # j
      BY <2>2, <2>4, <2>5, <2>6, <2>7, <2>8, <3>3, Zenon
    <3> QED BY <3>1, <3>2, <3>3
  <2> QED BY <2>9 DEF k
<1>3. P = Nat
  <2>1. P \in SUBSET Nat
    OBVIOUS
  <2> HIDE DEF P
  <2> QED BY <1>1, <1>2, <2>1, SetInduction
<1>4. n \in P
  BY <1>3
<1> QED BY <1>4

----------------------------------------------------------------------------
(* Sorting by item: the findings of stage 1 and those of stage 3, each      *)
(* tagged with its item, come out as each item's one after the other.       *)

Tag(i, s) == [k \in DOMAIN s |-> <<i, s[k]>>]
Pairs(n, X) == (1 .. n) \X X
OfItem(n, X, j) == [q \in Pairs(n, X) |-> IF q[1] = j THEN <<q>> ELSE << >>]
Second(n, X) == [q \in Pairs(n, X) |-> q[2]]

LEMMA TagProperties ==
  ASSUME NEW n \in Nat, NEW X, NEW i \in 1 .. n, NEW s \in Seq(X)
  PROVE  /\ Tag(i, s) \in Seq({i} \X X)
         /\ Tag(i, s) \in Seq(Pairs(n, X))
         /\ Each(Tag(i, s), Second(n, X)) = s
<1> DEFINE m == Len(s)
           t == [k \in 1 .. m |-> <<i, s[k]>>]
<1>1. m \in Nat /\ DOMAIN s = 1 .. m /\ \A k \in 1 .. m : s[k] \in X
  BY LenProperties
<1>2. Tag(i, s) = t
  BY <1>1 DEF Tag
<1>3. t \in Seq({i} \X X) /\ t \in Seq(Pairs(n, X)) /\ DOMAIN t = 1 .. m
  BY <1>1 DEF Pairs
<1>4. \A k \in 1 .. m : t[k] \in Pairs(n, X) /\ t[k][2] = s[k]
  BY <1>1 DEF Pairs
<1> HIDE DEF t
<1>5. Each(t, Second(n, X)) = [k \in 1 .. m |-> s[k]]
  BY <1>3, <1>4 DEF Each, Second
<1>6. s = [k \in 1 .. m |-> s[k]]
  BY <1>1, LenProperties
<1> QED BY <1>2, <1>3, <1>5, <1>6

LEMMA TagOfItem ==
  ASSUME NEW n \in Nat, NEW X, NEW i \in 1 .. n, NEW j \in 1 .. n, NEW s \in Seq(X)
  PROVE  Bind(Tag(i, s), OfItem(n, X, j)) = IF i = j THEN Tag(i, s) ELSE << >>
<1> DEFINE D == {i} \X X
           f == OfItem(n, X, j)
           g == [q \in D |-> q]
<1>1. Tag(i, s) \in Seq(D) /\ D \subseteq Pairs(n, X)
  BY TagProperties DEF Pairs
<1>2. \A q \in D : q[1] = i /\ f[q] = IF i = j THEN <<q>> ELSE << >>
  BY <1>1 DEF OfItem
<1> HIDE DEF f, D
<1>3. CASE i = j
  <2>1. Sends(g, D, D) /\ Ones(f, g, D) /\ \A q \in D : g[q] = q
    BY <1>2, <1>3 DEF Sends, Ones
  <2> HIDE DEF g
  <2>2. Bind(Tag(i, s), f) = Each(Tag(i, s), g)
    BY <1>1, <2>1, BindOnes
  <2>3. Each(Tag(i, s), g) = Tag(i, s)
    BY <1>1, <2>1, EachIdentity
  <2> QED BY <1>3, <2>2, <2>3 DEF f
<1>4. CASE i # j
  <2>1. \A q \in D : f[q] = << >>
    BY <1>2, <1>4
  <2>2. Bind(Tag(i, s), f) = << >>
    BY <1>1, <2>1, BindNone
  <2> QED BY <1>4, <2>2 DEF f
<1> QED BY <1>3, <1>4

(* Of all the pairs of one stage, those of one item *)
Tagged(f, R, n, X) ==
    /\ \A i \in 1 .. n : R[i] \in Seq(X)
    /\ f = [i \in 1 .. n |-> Tag(i, R[i])]

LEMMA TaggedOfItem ==
  ASSUME NEW n \in Nat, NEW X, NEW R, NEW j \in 1 .. n, NEW f, Tagged(f, R, n, X)
  PROVE  /\ FlattenSeq(f) \in Seq(Pairs(n, X))
         /\ Bind(FlattenSeq(f), OfItem(n, X, j)) = Tag(j, R[j])
<1> DEFINE Q == Pairs(n, X)
           g == OfItem(n, X, j)
           h == [i \in 1 .. n |-> Bind(f[i], g)]
<1>0. /\ \A i \in 1 .. n : R[i] \in Seq(X)
      /\ f = [i \in 1 .. n |-> Tag(i, R[i])]
  BY DEF Tagged
<1>1. FlattenSeq(f) = Bind(Up(n), f)
  BY <1>0, FlatIsBind
<1>2. Sends(f, 1 .. n, Seq(Q))
  <2>1. \A i \in 1 .. n : f[i] \in Seq(Q)
    BY <1>0, TagProperties
  <2> QED BY <2>1 DEF Sends
<1>3. Sends(g, Q, Seq(Q))
  <2>1. \A q \in Q : g[q] = <<q>> \/ g[q] = << >>
    BY DEF OfItem
  <2>2. \A q \in Q : <<q>> \in Seq(Q)
    OBVIOUS
  <2>3. << >> \in Seq(Q)
    BY EmptySeq
  <2> HIDE DEF Q, g
  <2> QED BY <2>1, <2>2, <2>3 DEF Sends
<1>4. \A i \in 1 .. n : h[i] = IF i = j THEN Tag(j, R[j]) ELSE << >>
  BY <1>0, TagOfItem
<1>5. Up(n) \in Seq(1 .. n)
  BY UpProperties
<1>6. Tag(j, R[j]) \in Seq(Q)
  BY <1>0, TagProperties
<1>8. Composes(h, f, g, 1 .. n)
  BY DEF Composes
<1> HIDE DEF h, Q, g
<1>7. Bind(Up(n), f) \in Seq(Q)
  BY <1>2, <1>5, BindType
<1>9. Bind(Bind(Up(n), f), g) = Bind(Up(n), h)
  <2>1. \A s \in Seq(1 .. n) : Bind(Bind(s, f), g) = Bind(s, h)
    BY <1>2, <1>3, <1>8, BindBind
  <2> QED BY <1>5, <2>1
<1>10. Bind(Up(n), h) = h[j]
  BY <1>4, <1>6, BindSingle
<1> QED BY <1>1, <1>4, <1>7, <1>9, <1>10 DEF g, Q

LEMMA TaggedParts ==
  ASSUME NEW n \in Nat, NEW X, NEW R, NEW f, Tagged(f, R, n, X)
  PROVE  /\ n > 0 => FlattenSeq(f) \in Seq(Pairs(n, X))
         /\ \A j \in 1 .. n : Bind(FlattenSeq(f), OfItem(n, X, j)) = Tag(j, R[j])
<1>1. \A j \in 1 .. n : /\ FlattenSeq(f) \in Seq(Pairs(n, X))
                        /\ Bind(FlattenSeq(f), OfItem(n, X, j)) = Tag(j, R[j])
  BY TaggedOfItem
<1> QED BY <1>1

TagAll(R)     == FlattenSeq([i \in Items |-> Tag(i, R[i])])
JoinAll(R, T) == FlattenSeq([i \in Items |-> R[i] \o T[i]])
Untagged(all) == [k \in DOMAIN all |-> all[k][2]]

LEMMA ItemsAre ==
  /\ Len(Worklist) \in Nat /\ Items = 1 .. Len(Worklist)
  /\ \A i \in Items : Worklist[i].path \in DOMAIN Contents /\ Worklist[i].analyze \in BOOLEAN
<1> DEFINE W == [path : DOMAIN Contents, analyze : BOOLEAN]
<1>1. Worklist \in Seq(W)
  BY WorklistAssumption
<1>2. Len(Worklist) \in Nat /\ Items = 1 .. Len(Worklist) /\ \A i \in Items : Worklist[i] \in W
  <2> HIDE DEF W
  <2> QED BY <1>1, LenProperties, ElementOfSeq DEF Items
<1> QED BY <1>2

LEMMA SortedIsJoined ==
  ASSUME NEW X, NEW R, NEW T, \A i \in Items : R[i] \in Seq(X) /\ T[i] \in Seq(X)
  PROVE  Untagged(ByOrder(TagAll(R) \o TagAll(T))) = JoinAll(R, T)
<1> DEFINE n == Len(Worklist)
           early0 == TagAll(R)
           late0 == TagAll(T)
           all == ByOrder(early0 \o late0)
<1>0. /\ n \in Nat /\ Items = 1 .. n /\ \A i \in 1 .. n : R[i] \in Seq(X) /\ T[i] \in Seq(X)
      /\ early0 = TagAll(R) /\ late0 = TagAll(T) /\ all = ByOrder(early0 \o late0)
  BY ItemsAre
<1> HIDE DEF n, early0, late0, all
<1> USE <1>0
<1> DEFINE Q == Pairs(n, X)
           pairs == early0 \o late0
           both(i) == Tag(i, R[i]) \o Tag(i, T[i])
           f == [i \in 1 .. n |-> both(i)]
           g == Second(n, X)
           h == [i \in 1 .. n |-> R[i] \o T[i]]
           k == [q \in Q |-> <<g[q]>>]
<1>1. ASSUME NEW j \in 1 .. n PROVE Those(pairs, {q \in ToSet(pairs) : q[1] = j}) = both(j)
  <2> DEFINE S == {q \in ToSet(pairs) : q[1] = j}
             o == OfItem(n, X, j)
  <2>1. early0 \in Seq(Q) /\ Bind(early0, o) = Tag(j, R[j])
    <3> DEFINE f0 == [i \in 1 .. n |-> Tag(i, R[i])]
    <3>1. early0 = FlattenSeq(f0)
      BY DEF TagAll
    <3>3. Tagged(f0, R, n, X)
      BY DEF Tagged
    <3> HIDE DEF f0
    <3>2. FlattenSeq(f0) \in Seq(Q) /\ Bind(FlattenSeq(f0), o) = Tag(j, R[j])
      BY <3>3, TaggedParts
    <3> QED BY <3>1, <3>2, Zenon
  <2>2. late0 \in Seq(Q) /\ Bind(late0, o) = Tag(j, T[j])
    <3> DEFINE f0 == [i \in 1 .. n |-> Tag(i, T[i])]
    <3>1. late0 = FlattenSeq(f0)
      BY DEF TagAll
    <3>3. Tagged(f0, T, n, X)
      BY DEF Tagged
    <3> HIDE DEF f0
    <3>2. FlattenSeq(f0) \in Seq(Q) /\ Bind(FlattenSeq(f0), o) = Tag(j, T[j])
      BY <3>3, TaggedParts
    <3> QED BY <3>1, <3>2, Zenon
  <2>3. pairs \in Seq(Q)
    <3> HIDE DEF Q
    <3> QED BY <2>1, <2>2, ConcatProperties
  <2>4. Those(pairs, S) = Bind(pairs, Pick(Q, S))
    <3> HIDE DEF Q, pairs, S
    <3> QED BY <2>3, ThoseIsBind
  <2>5. \A i \in DOMAIN pairs : Pick(Q, S)[pairs[i]] = o[pairs[i]]
    <3> SUFFICES ASSUME NEW i \in DOMAIN pairs PROVE Pick(Q, S)[pairs[i]] = o[pairs[i]]
      OBVIOUS
    <3>1. pairs[i] \in Q
      <4> HIDE DEF pairs, Q
      <4> QED BY <2>3, LenProperties
    <3>2. pairs[i] \in S <=> pairs[i][1] = j
      BY DEF ToSet
    <3> HIDE DEF pairs, S
    <3> QED BY <3>1, <3>2 DEF Pick, OfItem
  <2>6. Bind(pairs, Pick(Q, S)) = Bind(pairs, o)
    <3> HIDE DEF pairs, S, Q, o
    <3> QED BY <2>5, BindSame
  <2>7. Sends(o, Q, Seq(Q))
    <3>1. \A q \in Q : o[q] = <<q>> \/ o[q] = << >>
      BY DEF OfItem
    <3>2. \A q \in Q : <<q>> \in Seq(Q)
      OBVIOUS
    <3>3. << >> \in Seq(Q)
      BY EmptySeq
    <3> HIDE DEF Q, o
    <3> QED BY <3>1, <3>2, <3>3 DEF Sends
  <2>8. Bind(pairs, o) = Bind(early0, o) \o Bind(late0, o)
    <3> HIDE DEF Q, o
    <3>1. \A s, t \in Seq(Q) : Bind(s \o t, o) = Bind(s, o) \o Bind(t, o)
      BY <2>7, BindConcat
    <3> QED BY <2>1, <2>2, <3>1, Zenon
  <2> QED BY <2>1, <2>2, <2>4, <2>6, <2>8
<1>2. all = FlattenSeq(f)
  <2>1. ByOrder(pairs) = FlattenSeq([i \in 1 .. n |-> Those(pairs, {q \in ToSet(pairs) : q[1] = i})])
    BY DEF ByOrder
  <2>2. [i \in 1 .. n |-> Those(pairs, {q \in ToSet(pairs) : q[1] = i})] = f
    <3> HIDE DEF pairs, both
    <3> QED BY <1>1
  <2> QED BY <2>1, <2>2
<1>3. ASSUME NEW i \in 1 .. n
      PROVE  f[i] \in Seq(Q) /\ Each(f[i], g) = R[i] \o T[i]
  <2> DEFINE r == Tag(i, R[i])
             t == Tag(i, T[i])
  <2>1. r \in Seq(Q) /\ Each(r, g) = R[i] /\ t \in Seq(Q) /\ Each(t, g) = T[i]
    BY TagProperties
  <2>2. Sends(g, Q, X) /\ Sends(k, Q, Seq(X)) /\ Ones(k, g, Q)
    <3>1. \A q \in Q : g[q] \in X
      BY DEF Second, Pairs
    <3>2. \A x \in X : <<x>> \in Seq(X)
      OBVIOUS
    <3> HIDE DEF g, Q
    <3> QED BY <3>1, <3>2 DEF Sends, Ones
  <2>3. f[i] = r \o t
    OBVIOUS
  <2> HIDE DEF r, t, k, g, Q, f
  <2>4. r \o t \in Seq(Q)
    BY <2>1, ConcatProperties
  <2>5. \A s \in Seq(Q) : Bind(s, k) = Each(s, g)
    BY <2>2, BindOnes
  <2>6. Bind(r \o t, k) = Bind(r, k) \o Bind(t, k)
    BY <2>1, <2>2, BindConcat
  <2> QED BY <2>1, <2>3, <2>4, <2>5, <2>6
<1>4. Sends(f, 1 .. n, Seq(Q))
  <2> HIDE DEF f, Q
  <2> QED BY <1>3 DEF Sends
<1>5. Sends(g, Q, X) /\ Sends(k, Q, Seq(X)) /\ Ones(k, g, Q)
  <2>1. \A q \in Q : g[q] \in X
    BY DEF Second, Pairs
  <2>2. \A x \in X : <<x>> \in Seq(X)
    OBVIOUS
  <2> HIDE DEF g, Q
  <2> QED BY <2>1, <2>2 DEF Sends, Ones
<1>6. Up(n) \in Seq(1 .. n) /\ FlattenSeq(f) = Bind(Up(n), f) /\ FlattenSeq(h) = Bind(Up(n), h)
  BY UpProperties, FlatIsBind
<1>7. Composes(h, f, k, 1 .. n)
  <2>1. \A i \in 1 .. n : h[i] = R[i] \o T[i]
    OBVIOUS
  <2> HIDE DEF f, k, g, h, Q
  <2>2. \A s \in Seq(Q) : Bind(s, k) = Each(s, g)
    BY <1>5, BindOnes
  <2> QED BY <1>3, <2>1, <2>2 DEF Composes
<1>8. [i \in DOMAIN all |-> all[i][2]] = Each(all, g)
  <2>1. all \in Seq(Q)
    <3> HIDE DEF f, Q
    <3> QED BY <1>2, <1>4, <1>6, BindType
  <2>2. \A i \in DOMAIN all : all[i] \in Q
    <3> HIDE DEF Q
    <3> QED BY <2>1, LenProperties
  <2> QED BY <2>2 DEF Each, Second
<1>10. [i \in Items |-> R[i] \o T[i]] = h
  OBVIOUS
<1> HIDE DEF f, k, g, h, Q
<1>9. Each(all, g) = FlattenSeq(h) /\ all \in Seq(Q)
  <2>1. all \in Seq(Q)
    BY <1>2, <1>4, <1>6, BindType
  <2>2. Each(all, g) = Bind(all, k)
    BY <1>5, <2>1, BindOnes
  <2>3. \A s \in Seq(1 .. n) : Bind(Bind(s, f), k) = Bind(s, h)
    BY <1>4, <1>5, <1>7, BindBind
  <2>4. Bind(Bind(Up(n), f), k) = Bind(Up(n), h)
    BY <1>6, <2>3
  <2> QED BY <1>2, <1>6, <2>1, <2>2, <2>4
<1> QED BY <1>8, <1>9, <1>10 DEF Q, Untagged, JoinAll, all, early0, late0

----------------------------------------------------------------------------
(* Lists: what the stages make are sequences, whatever they hold.           *)

LEMMA ListIn ==
  ASSUME NEW s, NEW X
  PROVE  /\ s \in Seq(X) => IsList(s)
         /\ IsList(s) /\ ToSet(s) \subseteq X => s \in Seq(X)
<1>1. ASSUME s \in Seq(X) PROVE IsList(s)
  <2>1. s = [i \in 1 .. Len(s) |-> s[i]] /\ DOMAIN s = 1 .. Len(s) /\ Len(s) \in Nat
    BY <1>1, LenProperties
  <2>2. \A i \in 1 .. Len(s) : s[i] \in ToSet(s)
    BY <2>1 DEF ToSet
  <2> DEFINE n == Len(s)
             Y == ToSet(s)
  <2> HIDE DEF n, Y
  <2>3. s = [i \in 1 .. n |-> s[i]] /\ n \in Nat /\ \A i \in 1 .. n : s[i] \in Y
    BY <2>1, <2>2 DEF n, Y
  <2>4. s \in Seq(Y)
    BY <2>3
  <2> QED BY <2>4 DEF Y, IsList
<1>2. ASSUME IsList(s), ToSet(s) \subseteq X PROVE s \in Seq(X)
  <2> DEFINE n == Len(s)
             Y == ToSet(s)
  <2>0. s \in Seq(Y)
    BY <1>2 DEF IsList
  <2> HIDE DEF Y
  <2>1. s = [i \in 1 .. n |-> s[i]] /\ n \in Nat /\ \A i \in 1 .. n : s[i] \in Y
    BY <2>0, LenProperties, ElementOfSeq
  <2>2. Y \subseteq X
    BY <1>2 DEF Y
  <2> HIDE DEF n
  <2>3. \A i \in 1 .. n : s[i] \in X
    BY <2>1, <2>2
  <2> QED BY <2>1, <2>3
<1> QED BY <1>1, <1>2

LEMMA ListOf ==
  ASSUME NEW m \in Nat, NEW f, f = [i \in 1 .. m |-> f[i]]
  PROVE  IsList(f) /\ DOMAIN f = 1 .. m /\ Len(f) = m
<1> DEFINE Y == {f[i] : i \in 1 .. m}
<1>1. \A i \in 1 .. m : f[i] \in Y
  OBVIOUS
<1> HIDE DEF Y
<1>2. f \in Seq(Y) /\ DOMAIN f = 1 .. m /\ Len(f) = m
  BY <1>1
<1> QED BY <1>2, ListIn

LEMMA ListDomain ==
  ASSUME NEW s, IsList(s)
  PROVE  Len(s) \in Nat /\ DOMAIN s = 1 .. Len(s) /\ s = [i \in 1 .. Len(s) |-> s[i]]
<1> DEFINE Y == ToSet(s)
<1>1. s \in Seq(Y)
  BY DEF IsList
<1> HIDE DEF Y
<1> QED BY <1>1, LenProperties

LEMMA ListEmpty == IsList(<< >>)
BY EmptySeq, ListIn

LEMMA ListConcat ==
  ASSUME NEW s, NEW t, IsList(s), IsList(t)
  PROVE  IsList(s \o t) /\ << >> \o s = s /\ s \o << >> = s
<1> DEFINE Y == ToSet(s) \cup ToSet(t)
<1>1. ToSet(s) \subseteq Y /\ ToSet(t) \subseteq Y
  OBVIOUS
<1> HIDE DEF Y
<1>2. s \in Seq(Y) /\ t \in Seq(Y)
  BY <1>1, ListIn
<1>3. s \o t \in Seq(Y)
  BY <1>2, ConcatProperties
<1>4. << >> \o s = s /\ s \o << >> = s
  BY <1>2, ConcatEmptySeq
<1> QED BY <1>3, <1>4, ListIn

LEMMA ListThose ==
  ASSUME NEW s, IsList(s), NEW S
  PROVE  IsList(Those(s, S))
<1> DEFINE Y == ToSet(s)
<1>1. s \in Seq(Y)
  BY DEF IsList
<1> HIDE DEF Y
<1>2. Sends(Pick(Y, S), Y, Seq(Y)) /\ Those(s, S) = Bind(s, Pick(Y, S))
  BY <1>1, ThoseIsBind
<1>3. Those(s, S) \in Seq(Y)
  BY <1>1, <1>2, BindType
<1> QED BY <1>3, ListIn

LEMMA ListFlat ==
  ASSUME NEW m \in Nat, NEW f, f = [i \in 1 .. m |-> f[i]], \A i \in 1 .. m : IsList(f[i])
  PROVE  IsList(FlattenSeq(f))
<1> DEFINE Y == UNION {ToSet(f[i]) : i \in 1 .. m}
<1>1. \A i \in 1 .. m : ToSet(f[i]) \subseteq Y
  OBVIOUS
<1> HIDE DEF Y
<1>2. Sends(f, 1 .. m, Seq(Y))
  BY <1>1, ListIn DEF Sends
<1>3. FlattenSeq(f) = Bind(Up(m), f) /\ Up(m) \in Seq(1 .. m)
  BY FlatIsBind, UpProperties
<1>4. FlattenSeq(f) \in Seq(Y)
  BY <1>2, <1>3, BindType
<1> QED BY <1>4, ListIn

----------------------------------------------------------------------------
(* What the stages make of a file is a list. *)

Readable(i, c) == c \in Contents[Worklist[i].path] /\ c.kind # "harvestPanics"

WellFormed(c) ==
    /\ c = [kind |-> c.kind, findings |-> c.findings, markers |-> c.markers]
    /\ c.kind \in Kinds \ {"harvestPanics"} /\ IsList(c.findings) /\ IsList(c.markers)
    /\ \A m \in ToSet(c.markers) : IsFiniteSet(m.tokens)

LEMMA ContentIs ==
  ASSUME NEW i \in Items, NEW c, Readable(i, c) PROVE WellFormed(c)
BY ItemsAre, ContentsAssumption DEF Readable, WellFormed

LEMMA ComplaintsAreList ==
  ASSUME NEW m, IsFiniteSet(m.tokens)
  PROVE  IsList(Complaints(m))
<1> DEFINE typos == {t \in m.tokens : ~ Known(t)}
           n == Cardinality(typos)
           one(x) == <<<<"suppression", x>>>>
           many == [k \in 1 .. n |-> <<"suppression", "unknown-rule">>]
<1>1. n \in Nat
  <2>1. IsFiniteSet(typos)
    <3> HIDE DEF Known
    <3> QED BY FS_Subset
  <2> QED BY <2>1, FS_CardinalityType
<1>2. \A x : IsList(one(x))
  <2> TAKE x
  <2>1. one(x) \in Seq({<<"suppression", x>>})
    OBVIOUS
  <2> HIDE DEF one
  <2> QED BY <2>1, ListIn
<1>3. IsList(many)
  <2>1. many = [k \in 1 .. n |-> many[k]]
    OBVIOUS
  <2> HIDE DEF many, n
  <2> QED BY <1>1, <2>1, ListOf
<1>4. Complaints(m) \in {one("unknown-marker"), one("empty"), many}
  BY DEF Complaints
<1> HIDE DEF one, many
<1> QED BY <1>2, <1>3, <1>4

LEMMA KeptAreList ==
  ASSUME NEW path, NEW rows, IsList(rows), NEW markers, NEW cfg
  PROVE  IsList(Keep(path, rows, markers, cfg))
<1> DEFINE kept == Those(rows, {r \in ToSet(rows) : /\ ~ Marked(markers, r.line, r.rule)
                                                    /\ ~ Suppresses(cfg.disable, r.rule)
                                                    /\ Resolve(r.rule, r.severity, cfg) # "off"})
           f == [n \in DOMAIN kept |-> Finding(path, kept[n].rule, kept[n].message,
                                               Resolve(kept[n].rule, kept[n].severity, cfg))]
<1>1. IsList(kept)
  BY ListThose
<1>2. Keep(path, rows, markers, cfg) = f
  BY DEF Keep
<1>3. f = [n \in DOMAIN kept |-> f[n]]
  OBVIOUS
<1> HIDE DEF f, kept
<1>4. DOMAIN kept = 1 .. Len(kept) /\ Len(kept) \in Nat
  BY <1>1, ListDomain
<1> QED BY <1>2, <1>3, <1>4, ListOf

LEMMA MarkerRowsAreList ==
  ASSUME NEW c, WellFormed(c)
  PROVE  IsList(MarkerRows(c))
<1>h. IsList(c.markers) /\ \A m \in ToSet(c.markers) : IsFiniteSet(m.tokens)
  BY DEF WellFormed
<1> DEFINE ms == c.markers
           n == Len(ms)
           row(j) == [k \in DOMAIN Complaints(ms[j]) |->
                         [rule |-> Complaints(ms[j])[k], message |-> "marker", severity |-> "warning",
                          line |-> ms[j].line]]
           f == [j \in 1 .. n |-> row(j)]
<1>1. n \in Nat /\ DOMAIN ms = 1 .. n
  BY <1>h, ListDomain
<1>2. ASSUME NEW j \in 1 .. n PROVE IsList(row(j))
  <2> DEFINE com == Complaints(ms[j])
             g == [k \in DOMAIN com |-> [rule |-> com[k], message |-> "marker", severity |-> "warning",
                                         line |-> ms[j].line]]
  <2>1. ms[j] \in ToSet(ms)
    BY <1>1 DEF ToSet
  <2>2. IsList(com)
    BY <1>h, <2>1, ComplaintsAreList
  <2>3. row(j) = g /\ g = [k \in DOMAIN com |-> g[k]]
    OBVIOUS
  <2> HIDE DEF com, g, row
  <2>4. DOMAIN com = 1 .. Len(com) /\ Len(com) \in Nat
    BY <2>2, ListDomain
  <2> QED BY <2>3, <2>4, ListOf
<1>3. MarkerRows(c) = FlattenSeq(f)
  BY <1>1 DEF MarkerRows
<1> HIDE DEF row
<1>4. f = [j \in 1 .. n |-> f[j]] /\ \A j \in 1 .. n : IsList(f[j])
  BY <1>2
<1> HIDE DEF f, n
<1> QED BY <1>1, <1>3, <1>4, ListFlat

LEMMA AnalysedAreList ==
  ASSUME NEW c, WellFormed(c), NEW path, NEW known, NEW cfg
  PROVE  IsList(Analysed(path, c, known, cfg))
<1>1. /\ IsList(c.findings) /\ IsList(c.markers)
      /\ \A m \in ToSet(c.markers) : IsFiniteSet(m.tokens)
  BY DEF WellFormed
<1>2. IsList(Raw(c, known))
  BY <1>1, ListThose DEF Raw
<1>3. IsList(MarkerRows(c))
  BY MarkerRowsAreList
<1>4. IsList(Raw(c, known) \o MarkerRows(c))
  BY <1>2, <1>3, ListConcat
<1> QED BY <1>4, KeptAreList DEF Analysed

LEMMA OneIsList == \A x : IsList(<<x>>)
<1> TAKE x
<1>1. <<x>> \in Seq({x})
  OBVIOUS
<1> QED BY <1>1, ListIn

LEMMA StagesAreLists ==
  ASSUME NEW i \in Items
  PROVE  /\ IsList(Reported(i))
         /\ \A known : Readable(i, content[i]) => IsList(FileFindings(i, known))
<1>1. IsList(Reported(i))
  <2>1. Reported(i) \in {<<ParseError(Worklist[i].path)>>, <<InternalError(Worklist[i].path)>>, << >>}
    BY DEF Reported
  <2> QED BY <2>1, OneIsList, ListEmpty
<1>2. ASSUME NEW known, Readable(i, content[i]) PROVE IsList(FileFindings(i, known))
  <2>1. IsList(Analysed(Worklist[i].path, content[i], known, config))
    BY <1>2, ContentIs, AnalysedAreList
  <2>2. IsList(<<InternalError(Worklist[i].path)>>)
    BY OneIsList
  <2> QED BY <2>1, <2>2 DEF FileFindings
<1> QED BY <1>1, <1>2

----------------------------------------------------------------------------
(* What the stages have made so far. *)

Taken(i) == Readable(i, content[i]) /\ stage1[i] = Outcome(i, content[i].kind)

Reports == FlattenSeq([i \in Items |-> Tag(i, Reported(i))])

Gathered == RunRows(config) \o FlattenSeq([i \in Items |-> Reported(i) \o stage3[i]])

Drained ==
    /\ \A i \in Items : stage1[i] # Unread
    /\ early = Reports
    /\ ioError = (\E i \in Items : stage1[i] = "unreadable")
    /\ index = {i \in Items : stage1[i] \in {"prepared", "discovery"}}
    /\ \A i \in analysed : i \in Items /\ stage1[i] = "prepared"
    /\ \A i \in Items : stage3[i] = IF i \in analysed THEN FileFindings(i, KnownPaths) ELSE << >>

StagesInv ==
    /\ pc \in {"idle", "stage1", "stage3", "done", "aborted"}
    /\ DOMAIN content = Items /\ DOMAIN stage1 = Items /\ DOMAIN stage3 = Items
    /\ \A i \in Items : stage1[i] # Unread => Taken(i)
    /\ pc = "stage1" => analysed = {} /\ \A i \in Items : stage3[i] = << >>
    /\ pc \in {"stage3", "done"} => Drained
    /\ pc = "done" => /\ \A i \in Items : stage1[i] = "prepared" => i \in analysed
                      /\ findings = Gathered

LEMMA StagesBegin == Init => StagesInv
BY DEF Init, StagesInv, Unread

LEMMA StagesReset == Start => StagesInv'
BY DEF Start, StagesInv, Unread

LEMMA StagesRead ==
  ASSUME StagesInv, NEW i \in Items, ReadAndLower(i) PROVE StagesInv'
<1>1. PICK c \in Contents[Worklist[i].path] :
         /\ c.kind # "harvestPanics"
         /\ content' = [content EXCEPT ![i] = c]
         /\ stage1' = [stage1 EXCEPT ![i] = Outcome(i, c.kind)]
  BY DEF ReadAndLower
<1>2. /\ pc = "stage1" /\ pc' = pc /\ analysed' = analysed /\ stage3' = stage3
      /\ DOMAIN content = Items /\ DOMAIN stage1 = Items /\ DOMAIN stage3 = Items
      /\ analysed = {} /\ \A j \in Items : stage3[j] = << >>
  BY DEF ReadAndLower, StagesInv
<1>3. Readable(i, c)
  BY <1>1 DEF Readable
<1>4. ASSUME NEW j \in Items, stage1'[j] # Unread PROVE Taken(j)'
  <2>1. CASE j = i
    BY <1>1, <1>2, <1>3, <2>1 DEF Taken
  <2>2. CASE j # i
    <3>1. content'[j] = content[j] /\ stage1'[j] = stage1[j]
      BY <1>1, <1>2, <2>2
    <3>2. Taken(j)
      BY <1>4, <3>1 DEF StagesInv
    <3> QED BY <3>1, <3>2 DEF Taken
  <2> QED BY <2>1, <2>2
<1>5. DOMAIN content' = Items /\ DOMAIN stage1' = Items
  BY <1>1, <1>2
<1> QED BY <1>2, <1>4, <1>5 DEF StagesInv

(* Nothing of the stages changes but pc and the findings. *)
LEMMA StagesKept ==
  ASSUME StagesInv, UNCHANGED <<content, config, stage1, index, analysed, stage3, early, ioError>>
  PROVE  /\ pc \in {"stage3", "done"} => Drained'
         /\ \A i \in Items : stage1'[i] # Unread => Taken(i)'
         /\ Gathered' = Gathered
<1>1. \A i \in Items : /\ Reported(i)' = Reported(i)
                       /\ FileFindings(i, KnownPaths)' = FileFindings(i, KnownPaths)
                       /\ Taken(i)' = Taken(i)
  BY DEF Reported, FileFindings, KnownPaths, Taken
<1>2. Reports' = Reports /\ Gathered' = Gathered
  BY <1>1 DEF Reports, Gathered
<1> QED BY <1>1, <1>2 DEF StagesInv, Drained

LEMMA StagesDrain ==
  ASSUME StagesInv, Drain PROVE StagesInv'
<1>1. \A i \in Items : Reported(i)' = Reported(i) /\ Taken(i)' = Taken(i)
  BY DEF Drain, Reported, Taken
<1>2. early' = Reports
  BY DEF Drain, Reports, Tag
<1>3. Reports' = Reports
  BY <1>1 DEF Reports
<1>4. Drained'
  BY <1>2, <1>3 DEF Drain, Drained, StagesInv
<1> QED BY <1>1, <1>4 DEF Drain, StagesInv

LEMMA StagesAnalyse ==
  ASSUME StagesInv, NEW i \in Items, Analyse(i) PROVE StagesInv'
<1>1. \A j \in Items : /\ Reported(j)' = Reported(j) /\ Taken(j)' = Taken(j)
                       /\ FileFindings(j, KnownPaths)' = FileFindings(j, KnownPaths)
  BY DEF Analyse, Reported, Taken, FileFindings, KnownPaths
<1>2. Reports' = Reports
  BY <1>1 DEF Reports
<1>3. Drained
  BY DEF Analyse, StagesInv
<1>4. ASSUME NEW j \in Items
      PROVE  stage3'[j] = IF j \in analysed' THEN FileFindings(j, KnownPaths)' ELSE << >>
  <2>1. stage3[j] = IF j \in analysed THEN FileFindings(j, KnownPaths) ELSE << >>
    BY <1>3 DEF Drained
  <2>2. stage3' = [stage3 EXCEPT ![i] = FileFindings(i, KnownPaths)] /\ DOMAIN stage3 = Items
    BY DEF Analyse, StagesInv
  <2>3. analysed' = analysed \cup {i}
    BY DEF Analyse
  <2>4. CASE j = i
    BY <1>1, <2>2, <2>3, <2>4
  <2>5. CASE j # i
    BY <1>1, <2>1, <2>2, <2>3, <2>5
  <2> QED BY <2>4, <2>5
<1>5. Drained'
  <2>1. \A j \in analysed' : j \in Items /\ stage1'[j] = "prepared"
    BY <1>3 DEF Analyse, Drained
  <2> QED BY <1>2, <1>3, <1>4, <2>1 DEF Analyse, Drained
<1>6. DOMAIN stage3' = Items
  BY DEF Analyse, StagesInv
<1> QED BY <1>1, <1>5, <1>6 DEF Analyse, StagesInv

LEMMA StagesCollect ==
  ASSUME StagesInv, Collect PROVE StagesInv'
<1> DEFINE R == [i \in Items |-> Reported(i)]
           X == UNION {ToSet(R[i]) \cup ToSet(stage3[i]) : i \in Items}
<1>1. Drained /\ pc = "stage3" /\ pc' = "done"
  BY DEF Collect, StagesInv
<1>2. findings' = RunRows(config) \o Untagged(ByOrder(early \o TagAll(stage3)))
  BY DEF Collect, Tag, TagAll, Untagged
<1>3. ASSUME NEW i \in Items PROVE R[i] \in Seq(X) /\ stage3[i] \in Seq(X)
  <2>1. Taken(i)
    BY <1>1 DEF StagesInv, Drained
  <2>2. IsList(R[i]) /\ IsList(FileFindings(i, KnownPaths)) /\ IsList(<< >>)
    BY <2>1, StagesAreLists, ListEmpty DEF Taken
  <2>3. IsList(stage3[i])
    <3>1. stage3[i] = FileFindings(i, KnownPaths) \/ stage3[i] = << >>
      BY <1>1 DEF Drained
    <3> QED BY <2>2, <3>1
  <2>4. ToSet(R[i]) \subseteq X /\ ToSet(stage3[i]) \subseteq X
    OBVIOUS
  <2> HIDE DEF X, R
  <2> QED BY <2>2, <2>3, <2>4, ListIn
<1>4. early = TagAll(R)
  BY <1>1 DEF Drained, Reports, TagAll
<1>5. Untagged(ByOrder(TagAll(R) \o TagAll(stage3))) = JoinAll(R, stage3)
  <2> HIDE DEF X, R
  <2> QED BY <1>3, SortedIsJoined
<1>6. JoinAll(R, stage3) = FlattenSeq([i \in Items |-> Reported(i) \o stage3[i]])
  BY DEF JoinAll
<1>7. findings' = Gathered
  BY <1>2, <1>4, <1>5, <1>6 DEF Gathered
<1>8. UNCHANGED <<content, config, stage1, index, analysed, stage3, early, ioError>>
  BY DEF Collect
<1> QED BY <1>1, <1>7, <1>8, StagesKept DEF Collect, StagesInv

LEMMA StagesNext ==
  ASSUME StagesInv, [Next]_vars PROVE StagesInv'
<1>1. ASSUME \/ UNCHANGED vars \/ \E mode \in Modes : Write(mode)
             \/ Prune \/ \E i \in Items : HarvestPanics(i)
      PROVE  StagesInv'
  <2>1. UNCHANGED <<content, config, stage1, index, analysed, stage3, early, ioError, findings>>
    BY <1>1 DEF vars, Write, Prune, HarvestPanics
  <2>2. pc' = pc \/ pc' = "aborted"
    BY <1>1 DEF vars, Write, Prune, HarvestPanics
  <2> QED BY <2>1, <2>2, StagesKept DEF StagesInv
<1> QED BY <1>1, StagesReset, StagesRead, StagesDrain, StagesAnalyse, StagesCollect DEF Next

LEMMA Stages == Spec => []StagesInv
<1> QED BY StagesBegin, StagesNext, PTL DEF Spec

----------------------------------------------------------------------------
(* The files of one run, one after another. *)

KnownOf(files) == {Worklist[j].path : j \in {j \in Items : files[j].kind \in {"parsed", "rulePanics"}}}

(* What OneByOne says of one file *)
Alone(cfg, files, i) ==
    LET path == Worklist[i].path
        kind == files[i].kind
    IN  IF ~ Worklist[i].analyze THEN << >>
        ELSE IF kind = "unparseable" THEN <<ParseError(path)>>
        ELSE IF kind \in {"panics", "tooDeep", "rulePanics"} THEN <<InternalError(path)>>
        ELSE IF kind = "parsed" THEN Analysed(path, files[i], KnownOf(files), cfg)
        ELSE << >>

LEMMA OneByOneIsAlone ==
  \A cfg, files : OneByOne(cfg, files) = RunRows(cfg) \o FlattenSeq([i \in Items |-> Alone(cfg, files, i)])
<1> TAKE cfg, files
<1>1. [i \in Items |->
        LET path  == Worklist[i].path
            kind  == files[i].kind
            known == {Worklist[j].path : j \in {j \in Items : files[j].kind \in {"parsed", "rulePanics"}}}
        IN  IF ~ Worklist[i].analyze THEN << >>
            ELSE IF kind = "unparseable" THEN <<ParseError(path)>>
            ELSE IF kind \in {"panics", "tooDeep", "rulePanics"} THEN <<InternalError(path)>>
            ELSE IF kind = "parsed" THEN Analysed(path, files[i], known, cfg)
            ELSE << >>] = [i \in Items |-> Alone(cfg, files, i)]
  BY Zenon DEF Alone, KnownOf
<1> QED BY <1>1, Zenon DEF OneByOne

(* The outcome of an item, by what it was read as *)
LEMMA OutcomeIs ==
  ASSUME NEW i \in Items, Taken(i)
  PROVE  /\ content[i].kind \in Kinds \ {"harvestPanics"}
         /\ stage1[i] \in {"prepared", "discovery"} <=> content[i].kind \in {"parsed", "rulePanics"}
         /\ stage1[i] = "prepared" <=> Worklist[i].analyze /\ content[i].kind \in {"parsed", "rulePanics"}
         /\ \A k \in Failing : stage1[i] = k <=> Worklist[i].analyze /\ content[i].kind = k
<1>1. content[i].kind \in Kinds \ {"harvestPanics"}
  BY ContentIs DEF Taken, WellFormed
<1>2. stage1[i] = Outcome(i, content[i].kind)
  BY DEF Taken
<1>3. Worklist[i].analyze \in BOOLEAN
  BY ItemsAre
<1> QED BY <1>1, <1>2, <1>3 DEF Outcome, Kinds, Failing

LEMMA GatheredIsOneByOne ==
  ASSUME StagesInv, pc = "done"
  PROVE  findings = OneByOne(config, content)
<1>1. /\ Drained /\ findings = Gathered
      /\ \A i \in Items : Taken(i) /\ (stage1[i] = "prepared" => i \in analysed)
  BY DEF StagesInv, Drained
<1>2. KnownPaths = KnownOf(content)
  <2>1. index = {j \in Items : content[j].kind \in {"parsed", "rulePanics"}}
    BY <1>1, OutcomeIs DEF Drained
  <2> QED BY <2>1 DEF KnownPaths, KnownOf
<1>3. ASSUME NEW i \in Items PROVE Reported(i) \o stage3[i] = Alone(config, content, i)
  <2> DEFINE kind == content[i].kind
             late == FileFindings(i, KnownPaths)
  <2>1. /\ IsList(Reported(i)) /\ IsList(late)
        /\ << >> \o late = late /\ Reported(i) \o << >> = Reported(i)
        /\ << >> \o << >> = << >>
    <3>1. IsList(Reported(i)) /\ IsList(late) /\ IsList(<< >>)
      BY <1>1, StagesAreLists, ListEmpty DEF Taken
    <3> HIDE DEF late
    <3> QED BY <3>1, ListConcat
  <2>2. stage3[i] = IF stage1[i] = "prepared" THEN late ELSE << >>
    BY <1>1 DEF Drained
  <2>3. /\ kind \in Kinds \ {"harvestPanics"}
        /\ stage1[i] = "prepared" <=> Worklist[i].analyze /\ kind \in {"parsed", "rulePanics"}
        /\ \A k \in Failing : stage1[i] = k <=> Worklist[i].analyze /\ kind = k
    BY <1>1, OutcomeIs
  <2>4. CASE stage1[i] = "prepared"
    <3>1. Reported(i) = << >>
      BY <2>4 DEF Reported
    <3>2. late = Alone(config, content, i)
      BY <1>2, <2>3, <2>4 DEF Alone, FileFindings
    <3> HIDE DEF late
    <3> QED BY <2>1, <2>2, <2>4, <3>1, <3>2
  <2>5. CASE stage1[i] # "prepared"
    <3>1. Reported(i) = Alone(config, content, i)
      <4>1. Reported(i) = IF stage1[i] = "unparseable" THEN <<ParseError(Worklist[i].path)>>
                          ELSE IF stage1[i] \in {"panics", "tooDeep"} THEN <<InternalError(Worklist[i].path)>>
                          ELSE << >>
        BY DEF Reported
      <4> QED BY <2>3, <2>5, <4>1 DEF Alone, Failing, Kinds
    <3> QED BY <2>1, <2>2, <2>5, <3>1
  <2> QED BY <2>4, <2>5
<1>4. [i \in Items |-> Reported(i) \o stage3[i]] = [i \in Items |-> Alone(config, content, i)]
  BY <1>3
<1> QED BY <1>1, <1>4, OneByOneIsAlone DEF Gathered

(* The report never depends on the order the workers of either stage       *)
(* finish in, nor on which files fail where (analyze_files): for every     *)
(* work list, contents and configuration it is that of the files taken     *)
(* one after another.                                                      *)
THEOREM ReportIsOneByOne == Spec => []PoolIsInvisible
<1>1. StagesInv => PoolIsInvisible
  BY GatheredIsOneByOne DEF PoolIsInvisible
<1> QED BY <1>1, Stages, PTL

----------------------------------------------------------------------------
(* What is in the sequences that are put together. *)

LEMMA RangeConcat ==
  ASSUME NEW s, NEW t, IsList(s), IsList(t)
  PROVE  ToSet(s \o t) = ToSet(s) \cup ToSet(t)
<1> DEFINE Y == ToSet(s) \cup ToSet(t)
           m == Len(s)
           n == Len(t)
           u == s \o t
<1>1. ToSet(s) \subseteq Y /\ ToSet(t) \subseteq Y
  OBVIOUS
<1> HIDE DEF Y
<1>2. s \in Seq(Y) /\ t \in Seq(Y)
  BY <1>1, ListIn
<1>3. m \in Nat /\ n \in Nat /\ DOMAIN s = 1 .. m /\ DOMAIN t = 1 .. n
  BY <1>2, LenProperties
<1>4. /\ u \in Seq(Y) /\ Len(u) = m + n
      /\ \A i \in 1 .. Len(u) : u[i] = IF i <= m THEN s[i] ELSE t[i - m]
  BY <1>2, ConcatProperties
<1>5. DOMAIN u = 1 .. m + n
  BY <1>4, LenProperties
<1> HIDE DEF m, n, u
<1>6. \A i \in DOMAIN u : u[i] \in ToSet(s) \/ u[i] \in ToSet(t)
  <2> TAKE i \in DOMAIN u
  <2>1. CASE i <= m
    BY <1>3, <1>4, <1>5, <2>1 DEF ToSet
  <2>2. CASE ~ (i <= m)
    <3>1. i - m \in DOMAIN t
      BY <1>3, <1>5, <2>2
    <3> QED BY <1>4, <1>5, <2>2, <3>1 DEF ToSet
  <2> QED BY <2>1, <2>2
<1>7. \A i \in DOMAIN s : i \in DOMAIN u /\ u[i] = s[i]
  BY <1>3, <1>4, <1>5
<1>8. \A i \in DOMAIN t : m + i \in DOMAIN u /\ u[m + i] = t[i]
  <2> TAKE i \in DOMAIN t
  <2>1. m + i \in 1 .. m + n /\ ~ (m + i <= m) /\ (m + i) - m = i
    BY <1>3
  <2> QED BY <1>4, <1>5, <2>1
<1>9. ToSet(u) \subseteq ToSet(s) \cup ToSet(t)
  BY <1>6 DEF ToSet
<1>10. ToSet(s) \subseteq ToSet(u)
  BY <1>7 DEF ToSet
<1>11. ToSet(t) \subseteq ToSet(u)
  BY <1>8 DEF ToSet
<1> QED BY <1>9, <1>10, <1>11 DEF u

LEMMA RangeOne == \A x : IsList(<<x>>) /\ ToSet(<<x>>) = {x}
<1> TAKE x
<1> DEFINE o == <<x>>
<1>1. DOMAIN o = {1} /\ o[1] = x /\ IsList(o)
  BY OneIsList
<1> HIDE DEF o
<1>2. ToSet(o) = {x}
  BY <1>1 DEF ToSet
<1> QED BY <1>1, <1>2 DEF o

LEMMA RangeEmpty == ToSet(<< >>) = {}
BY DEF ToSet

LEMMA RangeAppend ==
  ASSUME NEW X
  PROVE  \A s \in Seq(X), x \in X : ToSet(Append(s, x)) = ToSet(s) \cup {x}
<1> SUFFICES ASSUME NEW s \in Seq(X), NEW x \in X
             PROVE  ToSet(Append(s, x)) = ToSet(s) \cup {x}
  OBVIOUS
<1>1. Append(s, x) = s \o <<x>>
  BY AppendIsConcat
<1>2. IsList(s) /\ IsList(<<x>>) /\ ToSet(<<x>>) = {x}
  BY RangeOne, ListIn
<1> DEFINE o == <<x>>
<1> HIDE DEF o
<1>3. ToSet(s \o o) = ToSet(s) \cup ToSet(o)
  BY <1>2, RangeConcat DEF o
<1> QED BY <1>1, <1>2, <1>3 DEF o

LEMMA BindRange ==
  ASSUME NEW X, NEW Y, NEW f, Sends(f, X, Seq(Y))
  PROVE  \A s \in Seq(X) : \A y : y \in ToSet(Bind(s, f)) <=> \E x \in ToSet(s) : y \in ToSet(f[x])
<1> DEFINE P == {s \in Seq(X) : \A y : y \in ToSet(Bind(s, f)) <=> \E x \in ToSet(s) : y \in ToSet(f[x])}
<1>1. << >> \in P
  BY BindEmpty, EmptySeq, RangeEmpty
<1>2. ASSUME NEW s \in P, NEW x \in X PROVE Append(s, x) \in P
  <2>1. s \in Seq(X) /\ Append(s, x) \in Seq(X)
    BY AppendProperties
  <2>2. ToSet(Append(s, x)) = ToSet(s) \cup {x}
    BY <2>1, RangeAppend
  <2>3. Bind(Append(s, x), f) = Bind(s, f) \o f[x]
    BY <2>1, BindAppend
  <2>4. Bind(s, f) \in Seq(Y) /\ f[x] \in Seq(Y)
    BY <2>1, BindType DEF Sends
  <2>5. ToSet(Bind(s, f) \o f[x]) = ToSet(Bind(s, f)) \cup ToSet(f[x])
    BY <2>4, ListIn, RangeConcat
  <2>6. \A y : y \in ToSet(Bind(s, f)) <=> \E z \in ToSet(s) : y \in ToSet(f[z])
    OBVIOUS
  <2>7. \A y : y \in ToSet(Bind(Append(s, x), f)) <=> \E z \in ToSet(Append(s, x)) : y \in ToSet(f[z])
    BY <2>2, <2>3, <2>5, <2>6
  <2> QED BY <2>1, <2>7
<1>3. P = Seq(X)
  <2>1. P \in SUBSET Seq(X)
    OBVIOUS
  <2> HIDE DEF P
  <2> QED BY <1>1, <1>2, <2>1, AppendInduction
<1> QED BY <1>3

LEMMA ThoseRange ==
  ASSUME NEW s, IsList(s), NEW S
  PROVE  ToSet(Those(s, S)) = ToSet(s) \cap S
<1> DEFINE Y == ToSet(s)
           p == Pick(Y, S)
<1>1. s \in Seq(Y)
  BY DEF IsList
<1>2. \A y \in Y : p[y] = IF y \in S THEN <<y>> ELSE << >>
  BY DEF Pick
<1>3. Y = ToSet(s)
  OBVIOUS
<1> HIDE DEF Y
<1>4. Sends(p, Y, Seq(Y)) /\ Those(s, S) = Bind(s, p)
  BY <1>1, ThoseIsBind
<1> HIDE DEF p
<1>5. \A y : y \in ToSet(Those(s, S)) <=> \E x \in Y : y \in ToSet(p[x])
  BY <1>1, <1>3, <1>4, BindRange
<1>6. \A x \in Y : ToSet(p[x]) = IF x \in S THEN {x} ELSE {}
  BY <1>2, RangeOne, RangeEmpty
<1>7. \A y : y \in ToSet(Those(s, S)) <=> y \in Y /\ y \in S
  <2> TAKE y
  <2>1. ASSUME y \in ToSet(Those(s, S)) PROVE y \in Y /\ y \in S
    <3>1. PICK x \in Y : y \in ToSet(p[x])
      BY <1>5, <2>1
    <3>2. x \in S /\ y = x
      BY <1>6, <3>1
    <3> QED BY <3>1, <3>2
  <2>2. ASSUME y \in Y, y \in S PROVE y \in ToSet(Those(s, S))
    <3>1. y \in ToSet(p[y])
      BY <1>6, <2>2
    <3> QED BY <1>5, <2>2, <3>1
  <2> QED BY <2>1, <2>2
<1> QED BY <1>3, <1>7

LEMMA FlatRange ==
  ASSUME NEW m \in Nat, NEW f, f = [i \in 1 .. m |-> f[i]], \A i \in 1 .. m : IsList(f[i])
  PROVE  \A y : y \in ToSet(FlattenSeq(f)) <=> \E i \in 1 .. m : y \in ToSet(f[i])
<1> DEFINE Y == UNION {ToSet(f[i]) : i \in 1 .. m}
<1>1. \A i \in 1 .. m : ToSet(f[i]) \subseteq Y
  OBVIOUS
<1> HIDE DEF Y
<1>2. Sends(f, 1 .. m, Seq(Y))
  BY <1>1, ListIn DEF Sends
<1>3. FlattenSeq(f) = Bind(Up(m), f) /\ Up(m) \in Seq(1 .. m)
  BY FlatIsBind, UpProperties
<1>4. \A y : y \in ToSet(FlattenSeq(f)) <=> \E x \in ToSet(Up(m)) : y \in ToSet(f[x])
  BY <1>2, <1>3, BindRange
<1>5. ToSet(Up(m)) = 1 .. m
  BY DEF Up, ToSet
<1> QED BY <1>4, <1>5

(* A set of indices has its least. *)
LEMMA LeastIs ==
  ASSUME NEW n \in Nat, NEW S \in SUBSET (1 .. n), S # {}
  PROVE  Least(S) \in S /\ \A j \in S : Least(S) <= j
<1> DEFINE Has(T) == \E i \in T : \A j \in T : i <= j
           P == {m \in Nat : \A T \in SUBSET (1 .. m) : T # {} => Has(T)}
<1>1. 0 \in P
  <2>1. 1 .. 0 = {}
    OBVIOUS
  <2> QED BY <2>1
<1>2. ASSUME NEW m \in P PROVE m + 1 \in P
  <2> SUFFICES ASSUME NEW T \in SUBSET (1 .. m + 1), T # {} PROVE Has(T)
    OBVIOUS
  <2> DEFINE U == T \cap (1 .. m)
  <2>1. CASE U = {}
    <3>1. \A j \in T : j = m + 1
      <4> TAKE j \in T
      <4>1. j \in 1 .. m \/ j = m + 1
        OBVIOUS
      <4> QED BY <2>1, <4>1
    <3>2. m + 1 <= m + 1
      OBVIOUS
    <3> QED BY <3>1, <3>2
  <2>2. CASE U # {}
    <3>1. Has(U)
      BY <2>2
    <3>2. PICK i \in U : \A j \in U : i <= j
      BY <3>1
    <3>3. \A j \in T : j \in U \/ j = m + 1
      OBVIOUS
    <3>4. i \in T /\ i <= m + 1
      OBVIOUS
    <3> QED BY <3>2, <3>3, <3>4
  <2> QED BY <2>1, <2>2
<1>3. P = Nat
  <2>1. P \in SUBSET Nat
    OBVIOUS
  <2> HIDE DEF P
  <2> QED BY <1>1, <1>2, <2>1, SetInduction
<1>4. Has(S)
  BY <1>3
<1> QED BY <1>4 DEF Least

----------------------------------------------------------------------------
(* The baseline over a stream. *)

(* Two diagnostics of one bin are one to the filter. *)
LEMMA SameBin ==
  ASSUME NEW b, NEW s, NEW i, NEW j, Bin(b, s[i]) = Bin(b, s[j])
  PROVE  /\ Members(b, s, i) = Members(b, s, j) /\ First(b, s, i) = First(b, s, j)
         /\ Silenced(b, s, i) <=> Silenced(b, s, j)
<1>1. Members(b, s, i) = Members(b, s, j)
  BY DEF Members
<1> QED BY <1>1 DEF First, Silenced

LEMMA FirstIs ==
  ASSUME NEW b, NEW s, IsList(s), NEW i \in DOMAIN s, Keyed(s[i])
  PROVE  /\ i \in Members(b, s, i)
         /\ First(b, s, i) \in Members(b, s, i)
         /\ First(b, s, i) \in DOMAIN s /\ Keyed(s[First(b, s, i)])
         /\ Bin(b, s[First(b, s, i)]) = Bin(b, s[i])
         /\ \A j \in Members(b, s, i) : First(b, s, i) <= j
<1>1. i \in Members(b, s, i)
  BY DEF Members
<1>2. Len(s) \in Nat /\ DOMAIN s = 1 .. Len(s)
  BY ListDomain
<1>3. Members(b, s, i) \in SUBSET (1 .. Len(s))
  BY <1>2 DEF Members
<1>4. First(b, s, i) \in Members(b, s, i) /\ \A j \in Members(b, s, i) : First(b, s, i) <= j
  BY <1>1, <1>2, <1>3, LeastIs DEF First
<1> QED BY <1>1, <1>4 DEF Members

LEMMA InOrderIs ==
  ASSUME NEW s, IsList(s), NEW S
  PROVE  IsList(InOrder(s, S)) /\ ToSet(InOrder(s, S)) = DOMAIN s \cap S
<1> DEFINE u == [i \in DOMAIN s |-> i]
<1>1. Len(s) \in Nat /\ DOMAIN s = 1 .. Len(s)
  BY ListDomain
<1>2. u = [i \in 1 .. Len(s) |-> u[i]] /\ ToSet(u) = DOMAIN s
  BY <1>1 DEF ToSet
<1>3. InOrder(s, S) = Those(u, S)
  BY DEF InOrder
<1> HIDE DEF u
<1>4. IsList(u)
  BY <1>1, <1>2, ListOf
<1> QED BY <1>2, <1>3, <1>4, ListThose, ThoseRange

LEMMA ThoseEmpty == \A S : Those(<< >>, S) = << >>
<1> TAKE S
<1> DEFINE p == Pick({}, S)
           e == << >>
<1>1. e \in Seq({})
  BY EmptySeq
<1>2. \A s \in Seq({}) : Those(s, S) = Bind(s, p)
  BY ThoseIsBind
<1>3. Bind(e, p) = << >>
  BY BindEmpty
<1> HIDE DEF e, p
<1>4. Those(e, S) = Bind(e, p)
  BY <1>1, <1>2
<1> QED BY <1>3, <1>4 DEF e

LEMMA NoneClaims == \A d : ~ Claimed(<< >>, d)
<1> TAKE d
<1>1. << >> \o << >> = << >>
  BY ListEmpty, ListConcat
<1> QED BY <1>1, ThoseEmpty DEF Claimed, Claimants

LEMMA SurfacedIs ==
  ASSUME NEW b, NEW s, IsList(s)
  PROVE  /\ IsList(Surfaced(b, s))
         /\ \A y : y \in ToSet(Surfaced(b, s))
                     <=> y \in DOMAIN s /\ (Keyed(s[y]) => ~ Silenced(b, s, y))
<1> DEFINE n == Len(s)
           keyed == {i \in DOMAIN s : Keyed(s[i])}
           Leads(i) == i \in keyed /\ i = First(b, s, i) /\ ~ Silenced(b, s, i)
           f == [i \in DOMAIN s |-> IF Leads(i) THEN InOrder(s, Members(b, s, i)) ELSE << >>]
           rest == InOrder(s, DOMAIN s \ keyed)
<1>1. n \in Nat /\ DOMAIN s = 1 .. n
  BY ListDomain
<1>2. CASE b = << >>
  <2> DEFINE u == [i \in DOMAIN s |-> i]
  <2>1. Surfaced(b, s) = u
    BY <1>2 DEF Surfaced
  <2>2. u = [i \in 1 .. n |-> u[i]] /\ ToSet(u) = DOMAIN s
    BY <1>1 DEF ToSet
  <2>3. \A y : ~ Silenced(b, s, y)
    BY <1>2, NoneClaims DEF Silenced
  <2> HIDE DEF u, n
  <2>4. IsList(u)
    BY <1>1, <2>2, ListOf
  <2> QED BY <2>1, <2>2, <2>3, <2>4
<1>3. CASE b # << >>
  <2>1. Surfaced(b, s) = FlattenSeq(f) \o rest
    BY <1>3 DEF Surfaced
  <2>2. IsList(rest) /\ \A y : y \in ToSet(rest) <=> y \in DOMAIN s /\ ~ Keyed(s[y])
    BY InOrderIs
  <2>3. \A i \in DOMAIN s : /\ IsList(f[i])
                            /\ ToSet(f[i]) = IF Leads(i) THEN Members(b, s, i) ELSE {}
    <3> TAKE i \in DOMAIN s
    <3>1. Members(b, s, i) \subseteq DOMAIN s
      BY DEF Members
    <3>2. f[i] = IF Leads(i) THEN InOrder(s, Members(b, s, i)) ELSE << >>
      OBVIOUS
    <3> DEFINE m == Members(b, s, i)
               o == InOrder(s, m)
    <3>3. IsList(o) /\ ToSet(o) = DOMAIN s \cap m /\ m \subseteq DOMAIN s
      BY <3>1, InOrderIs
    <3>4. f[i] = IF Leads(i) THEN o ELSE << >>
      BY <3>2
    <3>5. m = Members(b, s, i)
      OBVIOUS
    <3> HIDE DEF Leads, f, m, o
    <3> QED BY <3>3, <3>4, <3>5, ListEmpty, RangeEmpty
  <2>4. f = [i \in 1 .. n |-> f[i]]
    BY <1>1
  <2>5. ASSUME NEW i \in DOMAIN s, Leads(i), NEW y \in Members(b, s, i)
        PROVE  y \in DOMAIN s /\ Keyed(s[y]) /\ ~ Silenced(b, s, y)
    <3>1. y \in DOMAIN s /\ Keyed(s[y]) /\ Bin(b, s[y]) = Bin(b, s[i])
      BY DEF Members
    <3> QED BY <2>5, <3>1, SameBin
  <2>6. ASSUME NEW y \in DOMAIN s, Keyed(s[y]), ~ Silenced(b, s, y)
        PROVE  \E i \in DOMAIN s : Leads(i) /\ y \in Members(b, s, i)
    <3> DEFINE i == First(b, s, y)
    <3>1. i \in DOMAIN s /\ Keyed(s[i]) /\ Bin(b, s[i]) = Bin(b, s[y]) /\ y \in Members(b, s, y)
      BY <2>6, FirstIs
    <3>4. i = First(b, s, y)
      OBVIOUS
    <3> HIDE DEF i
    <3>2. Members(b, s, i) = Members(b, s, y) /\ First(b, s, i) = First(b, s, y) /\ ~ Silenced(b, s, i)
      BY <2>6, <3>1, SameBin
    <3> QED BY <3>1, <3>2, <3>4
  <2> HIDE DEF f, rest, n, Leads
  <2>7. IsList(FlattenSeq(f))
    BY <1>1, <2>3, <2>4, ListFlat
  <2>8. \A y : y \in ToSet(FlattenSeq(f)) <=> \E i \in DOMAIN s : y \in ToSet(f[i])
    BY <1>1, <2>3, <2>4, FlatRange
  <2>9. \A y : y \in ToSet(FlattenSeq(f)) <=> y \in DOMAIN s /\ Keyed(s[y]) /\ ~ Silenced(b, s, y)
    <3> TAKE y
    <3>1. ASSUME y \in ToSet(FlattenSeq(f)) PROVE y \in DOMAIN s /\ Keyed(s[y]) /\ ~ Silenced(b, s, y)
      <4>1. PICK i \in DOMAIN s : y \in ToSet(f[i])
        BY <2>8, <3>1
      <4> QED BY <2>3, <2>5, <4>1
    <3>2. ASSUME y \in DOMAIN s, Keyed(s[y]), ~ Silenced(b, s, y) PROVE y \in ToSet(FlattenSeq(f))
      <4>1. PICK i \in DOMAIN s : Leads(i) /\ y \in Members(b, s, i)
        BY <2>6, <3>2
      <4>2. y \in ToSet(f[i])
        BY <2>3, <4>1
      <4> QED BY <2>8, <4>2
    <3> QED BY <3>1, <3>2
  <2>10. IsList(Surfaced(b, s)) /\ ToSet(Surfaced(b, s)) = ToSet(FlattenSeq(f)) \cup ToSet(rest)
    BY <2>1, <2>2, <2>7, ListConcat, RangeConcat
  <2> QED BY <2>2, <2>9, <2>10
<1> QED BY <1>2, <1>3

LEMMA FilteredIs ==
  ASSUME NEW b, NEW s, IsList(s)
  PROVE  /\ IsList(Filtered(b, s))
         /\ \A i \in DOMAIN s : (Keyed(s[i]) => ~ Silenced(b, s, i)) => s[i] \in ToSet(Filtered(b, s))
<1> DEFINE u == Surfaced(b, s)
           v == [n \in DOMAIN u |-> s[u[n]]]
<1>1. IsList(u) /\ Filtered(b, s) = v
  BY SurfacedIs DEF Filtered
<1>2. ASSUME NEW i \in DOMAIN s, Keyed(s[i]) => ~ Silenced(b, s, i) PROVE s[i] \in ToSet(v)
  <2>1. i \in ToSet(u)
    BY <1>2, SurfacedIs
  <2> HIDE DEF u
  <2>2. PICK k \in DOMAIN u : u[k] = i
    BY <2>1 DEF ToSet
  <2>3. k \in DOMAIN v /\ v[k] = s[i]
    BY <2>2
  <2> HIDE DEF v
  <2> QED BY <2>3 DEF ToSet
<1>3. v = [n \in DOMAIN u |-> v[n]]
  OBVIOUS
<1> HIDE DEF u, v
<1>4. IsList(v)
  BY <1>1, <1>3, ListDomain, ListOf
<1> QED BY <1>1, <1>2, <1>4

(* What a bucket claims is of its file and rule. *)
LEMMA ClaimIs ==
  ASSUME NEW b, IsList(b), NEW d, Claimed(b, d)
  PROVE  Claim(b, d) \in ToSet(b) /\ Claim(b, d).file = d.file /\ Claim(b, d).rule = d.rule /\ Keyed(d)
<1> DEFINE own  == {x \in ToSet(b) : x.file = d.file /\ x.rule = d.rule}
           hits == {x \in own : x.message # AnyMessage /\ Occurs(x.message, d.message)}
           rows == {x \in own : x.message = AnyMessage}
           c == Claimants(b, d)
<1>1. Keyed(d) /\ c = Those(b, hits) \o Those(b, rows) /\ c # << >>
  BY DEF Claimed, Claimants
<1>2. hits \subseteq own /\ rows \subseteq own
  OBVIOUS
<1> HIDE DEF c, hits, rows
<1>3. IsList(Those(b, hits)) /\ IsList(Those(b, rows))
  BY ListThose
<1>4. IsList(c) /\ ToSet(c) = ToSet(Those(b, hits)) \cup ToSet(Those(b, rows))
  BY <1>1, <1>3, ListConcat, RangeConcat
<1>5. ToSet(c) \subseteq own
  BY <1>2, <1>4, ThoseRange
<1>6. Head(c) \in ToSet(c)
  <2> DEFINE Y == ToSet(c)
  <2>1. c \in Seq(Y)
    BY <1>4 DEF IsList
  <2> HIDE DEF Y
  <2>2. Head(c) \in Y
    BY <1>1, <2>1, HeadTailProperties
  <2> QED BY <2>2 DEF Y
<1>7. Claim(b, d) \in own
  BY <1>5, <1>6 DEF Claim, c
<1> QED BY <1>1, <1>7

LEMMA UnclaimedSurfaces ==
  ASSUME NEW b, NEW s, IsList(s), NEW i \in DOMAIN s, ~ Claimed(b, s[i])
  PROVE  Keyed(s[i]) => ~ Silenced(b, s, i)
<1> SUFFICES ASSUME Keyed(s[i]), Silenced(b, s, i) PROVE FALSE
  OBVIOUS
<1> DEFINE d == s[First(b, s, i)]
<1>1. Claimed(b, d)
  BY DEF Silenced
<1>2. Bin(b, d) = Bin(b, s[i])
  BY FirstIs
<1> HIDE DEF d
<1>3. Bin(b, d) = <<Claim(b, d).file, Claim(b, d).rule, Claim(b, d).message>>
  BY <1>1 DEF Bin, Tuple
<1>4. Bin(b, s[i]) = <<s[i].file, s[i].rule>>
  BY DEF Bin
<1>5. \A x, y, z, u, v : <<x, y, z>> # <<u, v>>
  OBVIOUS
<1> QED BY <1>2, <1>3, <1>4, <1>5

----------------------------------------------------------------------------
(* What is in a report, and in a baseline made from one. *)

LEMMA AloneIsList ==
  ASSUME NEW cfg, NEW files, NEW i \in Items, WellFormed(files[i])
  PROVE  IsList(Alone(cfg, files, i))
<1> DEFINE a == Analysed(Worklist[i].path, files[i], KnownOf(files), cfg)
<1>1. IsList(a)
  BY AnalysedAreList
<1>2. Alone(cfg, files, i) \in {<< >>, <<ParseError(Worklist[i].path)>>, <<InternalError(Worklist[i].path)>>, a}
  <2> HIDE DEF a
  <2> QED BY DEF Alone, a
<1> HIDE DEF a
<1> QED BY <1>1, <1>2, OneIsList, ListEmpty

LEMMA OneByOneIs ==
  ASSUME NEW cfg, NEW files, \A i \in Items : WellFormed(files[i])
  PROVE  /\ IsList(OneByOne(cfg, files))
         /\ \A y : y \in ToSet(OneByOne(cfg, files))
                     <=> y \in ToSet(RunRows(cfg)) \/ \E i \in Items : y \in ToSet(Alone(cfg, files, i))
<1> DEFINE f == [i \in Items |-> Alone(cfg, files, i)]
           n == Len(Worklist)
<1>1. IsList(RunRows(cfg))
  BY OneIsList, ListEmpty DEF RunRows
<1>2. \A i \in Items : IsList(Alone(cfg, files, i))
  BY AloneIsList
<1>3. n \in Nat /\ Items = 1 .. n
  BY ItemsAre
<1>4. f = [i \in 1 .. n |-> f[i]] /\ \A i \in Items : IsList(f[i]) /\ f[i] = Alone(cfg, files, i)
  BY <1>2, <1>3
<1>5. OneByOne(cfg, files) = RunRows(cfg) \o FlattenSeq(f)
  BY OneByOneIsAlone
<1> HIDE DEF f, n
<1>6. IsList(FlattenSeq(f))
  BY <1>3, <1>4, ListFlat
<1>7. \A y : y \in ToSet(FlattenSeq(f)) <=> \E i \in Items : y \in ToSet(Alone(cfg, files, i))
  <2>1. \A y : y \in ToSet(FlattenSeq(f)) <=> \E i \in Items : y \in ToSet(f[i])
    BY <1>3, <1>4, FlatRange
  <2> QED BY <1>4, <2>1
<1>8. IsList(OneByOne(cfg, files)) /\ ToSet(OneByOne(cfg, files)) = ToSet(RunRows(cfg)) \cup ToSet(FlattenSeq(f))
  BY <1>1, <1>5, <1>6, ListConcat, RangeConcat
<1> QED BY <1>7, <1>8

LEMMA DoneIs ==
  ASSUME StagesInv, pc = "done"
  PROVE  /\ \A i \in Items : WellFormed(content[i])
         /\ IsList(findings)
         /\ \A i \in Items : ToSet(Alone(config, content, i)) \subseteq ToSet(findings)
<1>1. \A i \in Items : Taken(i)
  BY DEF StagesInv, Drained
<1>2. \A i \in Items : WellFormed(content[i])
  BY <1>1, ContentIs DEF Taken
<1> QED BY <1>2, GatheredIsOneByOne, OneByOneIs

(* from_diagnostics *)
SameKey(s, mode, i) ==
    {j \in DOMAIN s : Keyed(s[j]) /\ <<s[j].file, s[j].rule, IF mode = "rule" THEN AnyMessage ELSE s[j].message>>
                                     = <<s[i].file, s[i].rule, IF mode = "rule" THEN AnyMessage ELSE s[i].message>>}
BucketOf(s, mode, i) ==
    Bucket(s[i].file, s[i].rule, IF mode = "rule" THEN AnyMessage ELSE s[i].message,
           Cardinality(SameKey(s, mode, i)))

LEMMA IndicesAreFinite ==
  ASSUME NEW s, IsList(s), NEW S \in SUBSET DOMAIN s
  PROVE  IsFiniteSet(S) /\ Cardinality(S) \in Nat /\ (S # {} => Cardinality(S) > 0)
<1>1. Len(s) \in Nat /\ DOMAIN s = 1 .. Len(s)
  BY ListDomain
<1>2. IsFiniteSet(1 .. Len(s))
  BY <1>1, FS_Interval
<1>3. IsFiniteSet(S)
  BY <1>1, <1>2, FS_Subset
<1>4. Cardinality(S) \in Nat /\ (Cardinality(S) = 0 <=> S = {})
  BY <1>3, FS_CardinalityType, FS_EmptySet
<1> QED BY <1>3, <1>4

LEMMA RecordedIs ==
  ASSUME NEW s, IsList(s), NEW mode
  PROVE  /\ IsBaseline(FromDiagnostics(s, mode))
         /\ \A x : x \in ToSet(FromDiagnostics(s, mode))
                     <=> \E i \in DOMAIN s : Keyed(s[i]) /\ x = BucketOf(s, mode, i)
<1> DEFINE n == Len(s)
           same(i) == SameKey(s, mode, i)
           o(i) == <<BucketOf(s, mode, i)>>
           f == [i \in DOMAIN s |-> IF Keyed(s[i]) /\ i = Least(same(i)) THEN o(i) ELSE << >>]
<1>1. FromDiagnostics(s, mode) = FlattenSeq(f)
  BY DEF FromDiagnostics, SameKey, BucketOf
<1>2. n \in Nat /\ DOMAIN s = 1 .. n
  BY ListDomain
<1>3. f = [i \in 1 .. n |-> f[i]]
  BY <1>2
<1>4. \A i \in DOMAIN s : f[i] = IF Keyed(s[i]) /\ i = Least(same(i)) THEN o(i) ELSE << >>
  OBVIOUS
<1>5. \A i : IsList(o(i)) /\ ToSet(o(i)) = {BucketOf(s, mode, i)}
  BY RangeOne
<1> HIDE DEF f, n, o
<1>6. \A i \in 1 .. n : IsList(f[i])
  BY <1>2, <1>4, <1>5, ListEmpty
<1>7. IsList(FlattenSeq(f)) /\ \A x : x \in ToSet(FlattenSeq(f)) <=> \E i \in DOMAIN s : x \in ToSet(f[i])
  BY <1>2, <1>3, <1>6, ListFlat, FlatRange
<1>8. \A x : x \in ToSet(FlattenSeq(f))
               <=> \E i \in DOMAIN s : Keyed(s[i]) /\ i = Least(same(i)) /\ x = BucketOf(s, mode, i)
  <2> HIDE DEF same
  <2>1. \A i \in DOMAIN s : \A x : x \in ToSet(f[i]) <=> Keyed(s[i]) /\ i = Least(same(i)) /\ x = BucketOf(s, mode, i)
    BY <1>4, <1>5, RangeEmpty
  <2> QED BY <1>7, <2>1
<1>9. ASSUME NEW i \in DOMAIN s, Keyed(s[i])
      PROVE  /\ Least(same(i)) \in DOMAIN s /\ Keyed(s[Least(same(i))])
             /\ same(Least(same(i))) = same(i)
             /\ BucketOf(s, mode, Least(same(i))) = BucketOf(s, mode, i)
             /\ Cardinality(same(i)) \in Nat \ {0}
  <2> DEFINE j == Least(same(i))
  <2>1. i \in same(i) /\ same(i) \in SUBSET DOMAIN s
    BY <1>9 DEF SameKey
  <2>2. j \in same(i)
    BY <1>2, <2>1, LeastIs
  <2>3. Cardinality(same(i)) \in Nat \ {0}
    BY <2>1, IndicesAreFinite
  <2> HIDE DEF j
  <2>4. /\ j \in DOMAIN s /\ Keyed(s[j]) /\ s[j].file = s[i].file /\ s[j].rule = s[i].rule
        /\ (IF mode = "rule" THEN AnyMessage ELSE s[j].message) = (IF mode = "rule" THEN AnyMessage ELSE s[i].message)
    BY <2>2 DEF SameKey
  <2>5. same(j) = same(i)
    BY <2>4 DEF SameKey
  <2>6. BucketOf(s, mode, j) = BucketOf(s, mode, i)
    BY <2>4, <2>5, Zenon DEF BucketOf
  <2> QED BY <2>3, <2>4, <2>5, <2>6 DEF j
<1>10. \A x : x \in ToSet(FlattenSeq(f)) <=> \E i \in DOMAIN s : Keyed(s[i]) /\ x = BucketOf(s, mode, i)
  <2> TAKE x
  <2>1. ASSUME NEW i \in DOMAIN s, Keyed(s[i]), x = BucketOf(s, mode, i) PROVE x \in ToSet(FlattenSeq(f))
    <3> DEFINE j == Least(same(i))
    <3>1. j \in DOMAIN s /\ Keyed(s[j]) /\ same(j) = same(i) /\ BucketOf(s, mode, j) = BucketOf(s, mode, i)
      BY <1>9, <2>1
    <3>2. j = Least(same(j))
      BY <3>1
    <3> HIDE DEF j, same
    <3> QED BY <1>8, <2>1, <3>1, <3>2
  <2> QED BY <1>8, <2>1
<1>11. ASSUME NEW x \in ToSet(FlattenSeq(f))
       PROVE  x = Bucket(x.file, x.rule, x.message, x.count) /\ x.count \in Nat \ {0}
  <2>1. PICK i \in DOMAIN s : Keyed(s[i]) /\ x = BucketOf(s, mode, i)
    BY <1>10
  <2>2. Cardinality(same(i)) \in Nat \ {0}
    BY <1>9, <2>1
  <2> QED BY <2>1, <2>2 DEF BucketOf, Bucket
<1> QED BY <1>1, <1>7, <1>10, <1>11 DEF IsBaseline

LEMMA PrunedIs ==
  ASSUME NEW b, IsBaseline(b), NEW s
  PROVE  /\ IsBaseline(Pruned(b, s))
         /\ \A x : x \in ToSet(Pruned(b, s)) <=> x \in ToSet(b) /\ Actual(b, s, x) # 0
<1> DEFINE met == {x \in ToSet(b) : Actual(b, s, x) # 0}
<1>1. Pruned(b, s) = Those(b, met) /\ met \subseteq ToSet(b)
  BY DEF Pruned
<1>2. \A x : x \in met <=> x \in ToSet(b) /\ Actual(b, s, x) # 0
  OBVIOUS
<1> HIDE DEF met
<1>3. IsList(Those(b, met)) /\ ToSet(Those(b, met)) = ToSet(b) \cap met
  BY ListThose, ThoseRange DEF IsBaseline
<1> QED BY <1>1, <1>2, <1>3 DEF IsBaseline

PipelineInv == StagesInv /\ IsBaseline(baseline) /\ config \in Configs

LEMMA PipelineIs == Spec => []PipelineInv
<1>1. Init => PipelineInv
  BY StagesBegin, BaselinesAssumption DEF Init, PipelineInv
<1>2. ASSUME PipelineInv, [Next]_vars PROVE PipelineInv'
  <2>1. StagesInv'
    BY <1>2, StagesNext DEF PipelineInv
  <2>2. ASSUME NEW mode \in Modes, Write(mode) PROVE IsBaseline(baseline')
    BY <1>2, <2>2, DoneIs, RecordedIs DEF Write, PipelineInv
  <2>3. ASSUME Prune PROVE IsBaseline(baseline')
    BY <1>2, <2>3, PrunedIs DEF Prune, PipelineInv
  <2>4. ASSUME ~ (Prune \/ \E mode \in Modes : Write(mode)) PROVE baseline' = baseline
    BY <1>2, <2>4 DEF Next, vars, Start, Drain, Collect, ReadAndLower, HarvestPanics, Analyse
  <2>5. config' \in Configs
    BY <1>2 DEF Next, vars, Start, Drain, Collect, ReadAndLower, HarvestPanics, Analyse, Prune, Write, PipelineInv
  <2> QED BY <1>2, <2>1, <2>2, <2>3, <2>4, <2>5 DEF PipelineInv
<1> QED BY <1>1, <1>2, PTL DEF Spec

(* A file that could not be analysed leaves a finding that a marker, the   *)
(* configuration and the baseline let through, or an io error; only a      *)
(* bucket recorded for internal-error can take it (finding_fails_run).     *)
THEOREM FailuresShow == Spec => []FailuresAreSeenUnlessRecorded
<1>1. ASSUME PipelineInv PROVE FailuresAreSeenUnlessRecorded
  <2> SUFFICES ASSUME pc = "done", NEW i \in Failed
               PROVE  Fails(Shown) \/ \E b \in ToSet(baseline) : b.rule = Internal
    BY DEF FailuresAreSeenUnlessRecorded
  <2> DEFINE path == Worklist[i].path
             kind == content[i].kind
             a == Alone(config, content, i)
  <2>1. i \in Items /\ Worklist[i].analyze /\ kind \in {"unreadable", "unparseable", "tooDeep", "panics", "rulePanics"}
    BY DEF Failed, Failing
  <2>2. Drained /\ Taken(i) /\ IsList(findings) /\ ToSet(a) \subseteq ToSet(findings) /\ IsList(baseline)
    BY <1>1, <2>1, DoneIs DEF PipelineInv, StagesInv, Drained, IsBaseline
  <2>3. CASE kind = "unreadable"
    <3>1. stage1[i] = "unreadable"
      BY <2>1, <2>2, <2>3, OutcomeIs DEF Failing
    <3> QED BY <2>1, <2>2, <3>1 DEF Drained, Fails
  <2>4. ASSUME NEW f, a = <<f>>, FailsRun(f), f.rule = NoRule \/ f.rule = Internal
        PROVE  Fails(Shown) \/ \E b \in ToSet(baseline) : b.rule = Internal
    <3>1. f \in ToSet(a)
      BY <2>4, RangeOne
    <3>2. PICK k \in DOMAIN findings : findings[k] = f
      BY <2>2, <3>1 DEF ToSet
    <3>3. CASE Claimed(baseline, f)
      <4>1. Claim(baseline, f) \in ToSet(baseline) /\ Claim(baseline, f).rule = f.rule /\ Keyed(f)
        BY <2>2, <3>3, ClaimIs
      <4> QED BY <2>4, <4>1 DEF Keyed
    <3>4. CASE ~ Claimed(baseline, f)
      <4>1. f \in ToSet(Shown)
        BY <2>2, <3>2, <3>4, UnclaimedSurfaces, FilteredIs DEF Shown
      <4> QED BY <2>4, <4>1 DEF ToSet, Fails
    <3> QED BY <3>3, <3>4
  <2>5. CASE kind = "unparseable"
    <3>1. a = <<ParseError(path)>>
      BY <2>1, <2>5 DEF Alone
    <3>2. FailsRun(ParseError(path)) /\ ParseError(path).rule = NoRule
      BY DEF FailsRun, ParseError, Finding
    <3> HIDE DEF a
    <3> QED BY <2>4, <3>1, <3>2
  <2>6. CASE kind \in {"tooDeep", "panics", "rulePanics"}
    <3>1. a = <<InternalError(path)>>
      BY <2>1, <2>6 DEF Alone
    <3>2. FailsRun(InternalError(path)) /\ InternalError(path).rule = Internal
      BY DEF FailsRun, InternalError, Finding
    <3> HIDE DEF a
    <3> QED BY <2>4, <3>1, <3>2
  <2> QED BY <2>1, <2>3, <2>5, <2>6
<1> QED BY <1>1, PipelineIs, PTL

----------------------------------------------------------------------------
(* Pruning. *)

LEMMA ThoseConcat ==
  ASSUME NEW s, NEW t, IsList(s), IsList(t), NEW S
  PROVE  Those(s \o t, S) = Those(s, S) \o Those(t, S)
<1> DEFINE Y == ToSet(s) \cup ToSet(t)
           p == Pick(Y, S)
<1>1. ToSet(s) \subseteq Y /\ ToSet(t) \subseteq Y
  OBVIOUS
<1> HIDE DEF Y
<1>2. s \in Seq(Y) /\ t \in Seq(Y)
  BY <1>1, ListIn
<1>3. s \o t \in Seq(Y)
  BY <1>2, ConcatProperties
<1>4. Sends(p, Y, Seq(Y)) /\ \A u \in Seq(Y) : Those(u, S) = Bind(u, p)
  BY ThoseIsBind
<1> HIDE DEF p
<1>5. Bind(s \o t, p) = Bind(s, p) \o Bind(t, p)
  BY <1>2, <1>4, BindConcat
<1> QED BY <1>2, <1>3, <1>4, <1>5

LEMMA ThoseSame ==
  ASSUME NEW s, NEW A, NEW B, \A x \in ToSet(s) : x \in A <=> x \in B
  PROVE  Those(s, A) = Those(s, B)
<1>1. \A i \in DOMAIN s : s[i] \in A <=> s[i] \in B
  BY DEF ToSet
<1>2. [i \in DOMAIN s |-> IF s[i] \in A THEN <<s[i]>> ELSE << >>]
        = [i \in DOMAIN s |-> IF s[i] \in B THEN <<s[i]>> ELSE << >>]
  BY <1>1
<1> QED BY <1>2 DEF Those

LEMMA ThoseThose ==
  ASSUME NEW s, IsList(s), NEW A, NEW B
  PROVE  Those(Those(s, A), B) = Those(s, A \cap B)
<1> DEFINE Y == ToSet(s)
           p == Pick(Y, A)
           q == Pick(Y, B)
           r == Pick(Y, A \cap B)
<1>1. s \in Seq(Y)
  BY DEF IsList
<1> HIDE DEF Y
<1>2. Sends(p, Y, Seq(Y)) /\ Sends(q, Y, Seq(Y)) /\ Those(s, A) = Bind(s, p)
      /\ Those(s, A \cap B) = Bind(s, r) /\ \A u \in Seq(Y) : Those(u, B) = Bind(u, q)
  BY <1>1, ThoseIsBind
<1>3. Composes(r, p, q, Y)
  <2> SUFFICES ASSUME NEW y \in Y PROVE r[y] = Bind(p[y], q)
    BY DEF Composes
  <2>1. Bind(<< >>, q) = << >> /\ Bind(<<y>>, q) = q[y]
    BY <1>2, BindOne, BindEmpty
  <2>2. /\ p[y] = IF y \in A THEN <<y>> ELSE << >>
        /\ q[y] = IF y \in B THEN <<y>> ELSE << >>
        /\ r[y] = IF y \in A \cap B THEN <<y>> ELSE << >>
    BY DEF Pick
  <2> DEFINE o == <<y>>
  <2> HIDE DEF p, q, r, o
  <2> QED BY <2>1, <2>2 DEF o
<1> HIDE DEF p, q, r
<1>4. Bind(Bind(s, p), q) = Bind(s, r)
  BY <1>1, <1>2, <1>3, BindBind
<1>5. Bind(s, p) \in Seq(Y)
  BY <1>1, <1>2, BindType
<1> QED BY <1>2, <1>4, <1>5

(* The first of the elements stays the first when it stays. *)
LEMMA ThoseHead ==
  ASSUME NEW s, IsList(s), s # << >>, NEW S, Head(s) \in S
  PROVE  Those(s, S) # << >> /\ Head(Those(s, S)) = Head(s)
<1> DEFINE Y == ToSet(s)
           h == Head(s)
           t == Tail(s)
           o == <<h>>
           u == Those(t, S)
<1>1. s \in Seq(Y)
  BY DEF IsList
<1> HIDE DEF Y
<1>2. h \in Y /\ t \in Seq(Y)
  BY <1>1, HeadTailProperties
<1>3. s = o \o t
  BY <1>1
<1>4. IsList(o) /\ IsList(t) /\ ToSet(o) = {h}
  BY <1>2, RangeOne, ListIn
<1> HIDE DEF t, o
<1>5. Those(s, S) = Those(o, S) \o u
  BY <1>3, <1>4, ThoseConcat
<1>6. Those(o, S) = o
  <2>1. Those(o, S) = Those(o, {h})
    BY <1>4, ThoseSame
  <2>2. Those(o, {h}) = FlattenSeq([i \in {1} |-> o])
    BY DEF Those, o
  <2>3. FlattenSeq([i \in {1} |-> o]) = o
    <3> DEFINE f == [i \in 1 .. 1 |-> o]
    <3>1. f = [i \in {1} |-> o] /\ f[1] = o /\ f = [i \in 1 .. 1 |-> f[i]] /\ 1 \in 1 .. 1 /\ 1 .. 1 = {1}
      OBVIOUS
    <3> HIDE DEF f
    <3>2. FlattenSeq(f) = Bind(Up(1), f)
      BY <3>1, FlatIsBind
    <3>3. Bind(Up(1), f) = f[1]
      BY <1>4, <3>1, BindSingle DEF IsList
    <3> QED BY <3>1, <3>2, <3>3
  <2> QED BY <2>1, <2>2, <2>3
<1>7. IsList(u)
  BY <1>4, ListThose
<1> DEFINE Z == ToSet(u) \cup {h}
<1>8. u \in Seq(Z) /\ h \in Z
  BY <1>7, ListIn
<1> HIDE DEF u, Z, h
<1>9. <<h>> \o u # << >> /\ Head(<<h>> \o u) = h
  BY <1>8
<1> QED BY <1>5, <1>6, <1>9 DEF o, h

LEMMA ClaimantsAre ==
  ASSUME NEW b, IsList(b), NEW d
  PROVE  /\ IsList(Claimants(b, d))
         /\ \A M : Claimants(Those(b, M), d) = Those(Claimants(b, d), M)
<1> DEFINE Own(x)  == x.file = d.file /\ x.rule = d.rule
           hits(c) == {x \in {x \in ToSet(c) : Own(x)} : x.message # AnyMessage /\ Occurs(x.message, d.message)}
           rows(c) == {x \in {x \in ToSet(c) : Own(x)} : x.message = AnyMessage}
<1>1. \A c : Claimants(c, d) = IF Keyed(d) THEN Those(c, hits(c)) \o Those(c, rows(c)) ELSE << >>
  BY DEF Claimants
<1>2. \A M : ToSet(Those(b, M)) = ToSet(b) \cap M
  BY ThoseRange
<1>3. \A M : /\ hits(Those(b, M)) = hits(b) \cap M
             /\ rows(Those(b, M)) = rows(b) \cap M
  BY <1>2
<1> HIDE DEF hits, rows
<1>4. \A S : IsList(Those(b, S))
  BY ListThose
<1>5. IsList(Claimants(b, d))
  <2> DEFINE h == Those(b, hits(b))
             r == Those(b, rows(b))
  <2>1. IsList(h) /\ IsList(r)
    BY <1>4
  <2>2. Claimants(b, d) = h \o r \/ Claimants(b, d) = << >>
    BY <1>1
  <2> HIDE DEF h, r
  <2> QED BY <2>1, <2>2, ListConcat, ListEmpty
<1>6. ASSUME NEW M PROVE Claimants(Those(b, M), d) = Those(Claimants(b, d), M)
  <2>1. \A S : Those(Those(b, M), S \cap M) = Those(Those(b, S), M)
    <3> TAKE S
    <3>1. Those(Those(b, M), S \cap M) = Those(b, M \cap (S \cap M))
      BY ThoseThose
    <3>2. Those(Those(b, S), M) = Those(b, S \cap M)
      BY ThoseThose
    <3>3. M \cap (S \cap M) = S \cap M
      OBVIOUS
    <3> QED BY <3>1, <3>2, <3>3
  <2>2. CASE Keyed(d)
    <3> DEFINE h == Those(b, hits(b))
               r == Those(b, rows(b))
    <3>1. Those(Those(b, M), hits(Those(b, M))) = Those(h, M)
      BY <1>3, <2>1
    <3>2. Those(Those(b, M), rows(Those(b, M))) = Those(r, M)
      BY <1>3, <2>1
    <3>3. Claimants(Those(b, M), d) = Those(h, M) \o Those(r, M)
      BY <1>1, <2>2, <3>1, <3>2
    <3>4. Claimants(b, d) = h \o r /\ IsList(h) /\ IsList(r)
      BY <1>1, <1>4, <2>2
    <3> HIDE DEF h, r
    <3> QED BY <3>3, <3>4, ThoseConcat
  <2>3. CASE ~ Keyed(d)
    BY <1>1, <2>3, ThoseEmpty
  <2> QED BY <2>2, <2>3
<1> QED BY <1>5, <1>6

(* What a bucket that stays claims, it still claims. *)
LEMMA StillClaims ==
  ASSUME NEW b, IsList(b), NEW d, NEW M, Claimed(b, d) => Claim(b, d) \in M
  PROVE  /\ Claimed(Those(b, M), d) <=> Claimed(b, d)
         /\ Claimed(b, d) => Claim(Those(b, M), d) = Claim(b, d)
<1> DEFINE c == Claimants(b, d)
           e == Claimants(Those(b, M), d)
<1>1. IsList(c) /\ e = Those(c, M)
  BY ClaimantsAre
<1>2. c # << >> => Head(c) \in M
  BY DEF Claimed, Claim
<1> HIDE DEF c, e
<1>3. CASE c = << >>
  <2>1. e = << >>
    BY <1>1, <1>3, ThoseEmpty
  <2> QED BY <1>3, <2>1 DEF Claimed, c, e
<1>4. CASE c # << >>
  <2>1. e # << >> /\ Head(e) = Head(c)
    BY <1>1, <1>2, <1>4, ThoseHead
  <2> QED BY <1>4, <2>1 DEF Claimed, Claim, c, e
<1> QED BY <1>3, <1>4

(* The filter asks of the buckets only what they claim of the stream. *)
LEMMA SameClaims ==
  ASSUME NEW b, NEW e, NEW s, IsList(s),
         \A i \in DOMAIN s : /\ Claimed(e, s[i]) <=> Claimed(b, s[i])
                             /\ Claimed(b, s[i]) => Claim(e, s[i]) = Claim(b, s[i])
  PROVE  ToSet(Surfaced(e, s)) = ToSet(Surfaced(b, s))
<1>1. \A i \in DOMAIN s : Bin(e, s[i]) = Bin(b, s[i])
  BY DEF Bin
<1>2. ASSUME NEW i \in DOMAIN s, Keyed(s[i]) PROVE Silenced(e, s, i) <=> Silenced(b, s, i)
  <2>1. Members(e, s, i) = Members(b, s, i)
    BY <1>1 DEF Members
  <2>2. First(e, s, i) = First(b, s, i)
    BY <2>1 DEF First
  <2>3. First(b, s, i) \in DOMAIN s
    BY <1>2, FirstIs
  <2> QED BY <2>1, <2>2, <2>3 DEF Silenced
<1>3. \A y : y \in ToSet(Surfaced(e, s)) <=> y \in ToSet(Surfaced(b, s))
  <2>1. \A y : y \in ToSet(Surfaced(e, s)) <=> y \in DOMAIN s /\ (Keyed(s[y]) => ~ Silenced(e, s, y))
    BY SurfacedIs
  <2>2. \A y : y \in ToSet(Surfaced(b, s)) <=> y \in DOMAIN s /\ (Keyed(s[y]) => ~ Silenced(b, s, y))
    BY SurfacedIs
  <2> QED BY <1>2, <2>1, <2>2
<1> QED BY <1>3

(* A bucket that claims a diagnostic of the stream is met. *)
LEMMA ClaimIsMet ==
  ASSUME NEW b, NEW s, IsList(s), NEW i \in DOMAIN s, Claimed(b, s[i])
  PROVE  Actual(b, s, Claim(b, s[i])) \in Nat \ {0}
<1> DEFINE S == {j \in DOMAIN s : /\ Claimed(b, s[j])
                                  /\ Tuple(Claim(b, s[j])) = Tuple(Claim(b, s[i]))}
<1>1. S \in SUBSET DOMAIN s /\ i \in S
  OBVIOUS
<1>2. Actual(b, s, Claim(b, s[i])) = Cardinality(S)
  BY DEF Actual
<1> HIDE DEF S
<1> QED BY <1>1, <1>2, IndicesAreFinite

(* baseline prune drops only buckets that claim nothing of the run it      *)
(* prunes by, and no claim moves to another bucket: check reports the same *)
(* of that run, whatever the baseline.                                     *)
THEOREM PruningIsInvisible == Spec => PruneShowsTheSame
<1>1. ASSUME PipelineInv, Prune PROVE ToSet(Surfaced(baseline', findings)) = ToSet(Surfaced(baseline, findings))
  <2> DEFINE M == {x \in ToSet(baseline) : Actual(baseline, findings, x) # 0}
  <2>1. baseline' = Those(baseline, M)
    BY <1>1 DEF Prune, Pruned
  <2>2. IsList(findings) /\ IsList(baseline)
    BY <1>1, DoneIs DEF Prune, PipelineInv, IsBaseline
  <2>3. ASSUME NEW i \in DOMAIN findings, Claimed(baseline, findings[i])
        PROVE  Claim(baseline, findings[i]) \in M
    <3>1. Claim(baseline, findings[i]) \in ToSet(baseline)
      BY <2>2, <2>3, ClaimIs
    <3>2. Actual(baseline, findings, Claim(baseline, findings[i])) # 0
      BY <2>2, <2>3, ClaimIsMet
    <3> QED BY <3>1, <3>2
  <2> HIDE DEF M
  <2>4. \A i \in DOMAIN findings :
           /\ Claimed(Those(baseline, M), findings[i]) <=> Claimed(baseline, findings[i])
           /\ Claimed(baseline, findings[i]) => Claim(Those(baseline, M), findings[i]) = Claim(baseline, findings[i])
    BY <2>2, <2>3, StillClaims
  <2> QED BY <2>1, <2>2, <2>4, SameClaims
<1>2. PipelineInv => [Prune => ToSet(Surfaced(baseline', findings)) = ToSet(Surfaced(baseline, findings))]_baseline
  BY <1>1
<1> QED BY <1>2, PipelineIs, PTL DEF PruneShowsTheSame

----------------------------------------------------------------------------
(* One bucket to a bin. *)

LEMMA SameBucket ==
  ASSUME NEW b, IsList(b), NEW d, NEW e, Claimed(b, d), Claimed(b, e), Bin(b, d) = Bin(b, e)
  PROVE  Claim(b, d) = Claim(b, e)
<1> DEFINE x == Claim(b, d)
           y == Claim(b, e)
           M == {x, y}
           c == Those(b, M)
<1>1. /\ x \in ToSet(b) /\ x.file = d.file /\ x.rule = d.rule /\ Keyed(d)
      /\ y \in ToSet(b) /\ y.file = e.file /\ y.rule = e.rule /\ Keyed(e)
  BY ClaimIs
<1>2. x.file = y.file /\ x.rule = y.rule /\ x.message = y.message
  BY DEF Bin, Tuple
<1>3. /\ x.message = AnyMessage \/ Occurs(x.message, d.message)
      /\ y.message = AnyMessage \/ Occurs(y.message, e.message)
  <2>1. \A f : Claimed(b, f) => Claim(b, f).message = AnyMessage \/ Occurs(Claim(b, f).message, f.message)
    <3> SUFFICES ASSUME NEW f, Claimed(b, f)
                 PROVE  Claim(b, f).message = AnyMessage \/ Occurs(Claim(b, f).message, f.message)
      OBVIOUS
    <3> DEFINE own  == {z \in ToSet(b) : z.file = f.file /\ z.rule = f.rule}
               hits == {z \in own : z.message # AnyMessage /\ Occurs(z.message, f.message)}
               rows == {z \in own : z.message = AnyMessage}
               h == Those(b, hits)
               r == Those(b, rows)
               k == Claimants(b, f)
    <3>1. k = h \o r /\ k # << >>
      BY DEF Claimed, Claimants
    <3>2. IsList(h) /\ IsList(r) /\ ToSet(h) \subseteq hits /\ ToSet(r) \subseteq rows
      <4> HIDE DEF hits, rows
      <4> QED BY ListThose, ThoseRange
    <3>3. \A z \in hits \cup rows : z.message = AnyMessage \/ Occurs(z.message, f.message)
      OBVIOUS
    <3>4. Claim(b, f) = Head(k)
      BY DEF Claim
    <3> HIDE DEF k, h, r, hits, rows
    <3>5. IsList(k) /\ ToSet(k) \subseteq hits \cup rows
      BY <3>1, <3>2, ListConcat, RangeConcat
    <3>6. k \in Seq(hits \cup rows)
      BY <3>5, ListIn
    <3>7. Head(k) \in hits \cup rows
      BY <3>1, <3>6, HeadTailProperties
    <3> QED BY <3>3, <3>4, <3>7
  <2> QED BY <2>1
<1>4. ToSet(c) \subseteq M
  <2> HIDE DEF x, y, M
  <2> QED BY ThoseRange
<1>5. Claimants(c, d) = Claimants(c, e)
  <2> DEFINE Own(f)  == {z \in ToSet(c) : z.file = f.file /\ z.rule = f.rule}
             Hits(f) == {z \in Own(f) : z.message # AnyMessage /\ Occurs(z.message, f.message)}
             Rows(f) == {z \in Own(f) : z.message = AnyMessage}
  <2>1. Own(d) = Own(e)
    BY <1>1, <1>2, <1>4
  <2>2. Hits(d) = Hits(e)
    BY <1>1, <1>2, <1>3, <1>4
  <2>3. Rows(d) = Rows(e)
    BY <2>1
  <2> HIDE DEF c
  <2> QED BY <1>1, <2>2, <2>3 DEF Claimants
<1>6. x \in M /\ y \in M
  OBVIOUS
<1> HIDE DEF M
<1>7. Claim(c, d) = x
  <2>1. Claimed(b, d) => Claim(b, d) \in M
    BY <1>6
  <2> QED BY <2>1, StillClaims
<1>8. Claim(c, e) = y
  <2>1. Claimed(b, e) => Claim(b, e) \in M
    BY <1>6
  <2> QED BY <2>1, StillClaims
<1> QED BY <1>5, <1>7, <1>8 DEF Claim

LEMMA SilencedIs ==
  ASSUME NEW b, IsList(b), NEW s, IsList(s), NEW i \in DOMAIN s, Keyed(s[i])
  PROVE  Silenced(b, s, i) <=> /\ Claimed(b, s[i])
                               /\ Cardinality(Members(b, s, i)) <= Claim(b, s[i]).count
<1> DEFINE d == s[First(b, s, i)]
<1>1. Bin(b, d) = Bin(b, s[i])
  BY FirstIs
<1>2. Silenced(b, s, i) <=> Claimed(b, d) /\ Cardinality(Members(b, s, i)) <= Claim(b, d).count
  BY DEF Silenced
<1> HIDE DEF d
<1>3. \A f : Claimed(b, f) => Bin(b, f) = <<Claim(b, f).file, Claim(b, f).rule, Claim(b, f).message>>
  BY DEF Bin, Tuple
<1>4. \A f : ~ Claimed(b, f) => Bin(b, f) = <<f.file, f.rule>>
  BY DEF Bin
<1>5. \A x, y, z, u, v : <<x, y, z>> # <<u, v>>
  OBVIOUS
<1>6. Claimed(b, d) <=> Claimed(b, s[i])
  BY <1>1, <1>3, <1>4, <1>5
<1>7. Claimed(b, d) => Claim(b, d) = Claim(b, s[i])
  BY <1>1, <1>6, SameBucket
<1> QED BY <1>2, <1>6, <1>7

(* What check shows of a stream is what surfaces of it. *)
LEMMA ShownIs ==
  ASSUME NEW b, NEW s, IsList(s), NEW f \in ToSet(Filtered(b, s))
  PROVE  \E i \in DOMAIN s : s[i] = f /\ (Keyed(s[i]) => ~ Silenced(b, s, i))
<1> DEFINE u == Surfaced(b, s)
           v == [n \in DOMAIN u |-> s[u[n]]]
<1>1. Filtered(b, s) = v
  BY DEF Filtered
<1>2. PICK n \in DOMAIN u : f = s[u[n]]
  <2>1. PICK n \in DOMAIN v : f = v[n]
    BY <1>1 DEF ToSet
  <2> QED BY <2>1
<1>3. u[n] \in ToSet(u)
  BY DEF ToSet
<1>4. u[n] \in DOMAIN s /\ (Keyed(s[u[n]]) => ~ Silenced(b, s, u[n]))
  <2> HIDE DEF u
  <2> QED BY <1>3, SurfacedIs DEF u
<1> QED BY <1>2, <1>4

----------------------------------------------------------------------------
(* A baseline of rule rows. *)

LEMMA RuleRowsClaim ==
  ASSUME NEW b, IsList(b), \A x \in ToSet(b) : x.message = AnyMessage, NEW d
  PROVE  /\ Claimed(b, d) <=> Keyed(d) /\ \E x \in ToSet(b) : x.file = d.file /\ x.rule = d.rule
         /\ Claimed(b, d) => Tuple(Claim(b, d)) = <<d.file, d.rule, AnyMessage>>
<1>1. Claimed(b, d) => /\ Keyed(d) /\ Claim(b, d) \in ToSet(b)
                       /\ Claim(b, d).file = d.file /\ Claim(b, d).rule = d.rule
  BY ClaimIs
<1>2. Claimed(b, d) => Tuple(Claim(b, d)) = <<d.file, d.rule, AnyMessage>>
  BY <1>1 DEF Tuple
<1>3. ASSUME Keyed(d), NEW x \in ToSet(b), x.file = d.file, x.rule = d.rule PROVE Claimed(b, d)
  <2> DEFINE own  == {z \in ToSet(b) : z.file = d.file /\ z.rule = d.rule}
             hits == {z \in own : z.message # AnyMessage /\ Occurs(z.message, d.message)}
             rows == {z \in own : z.message = AnyMessage}
             h == Those(b, hits)
             r == Those(b, rows)
  <2>1. Claimants(b, d) = h \o r /\ x \in rows
    BY <1>3 DEF Claimants
  <2> HIDE DEF hits, rows
  <2>2. IsList(h) /\ IsList(r) /\ x \in ToSet(r)
    BY <2>1, ListThose, ThoseRange
  <2> HIDE DEF h, r
  <2>3. x \in ToSet(Claimants(b, d))
    BY <2>1, <2>2, RangeConcat
  <2> QED BY <2>3, RangeEmpty DEF Claimed
<1> QED BY <1>1, <1>2, <1>3

LEMMA GateIsFresh ==
  ASSUME NEW b, IsBaseline(b), \A x \in ToSet(b) : x.message = AnyMessage, NEW s, IsList(s)
  PROVE  /\ ~ Drifted(b, s) /\ (\A f \in ToSet(Filtered(b, s)) : ~ Keyed(f))
              => ToSet(b) = ToSet(FromDiagnostics(s, "rule"))
         /\ ToSet(b) = ToSet(FromDiagnostics(s, "rule"))
              => ~ Drifted(b, s) /\ \A f \in ToSet(Filtered(b, s)) : ~ Keyed(f)
<1> DEFINE Of(file, rule) == {j \in DOMAIN s : Keyed(s[j]) /\ s[j].file = file /\ s[j].rule = rule}
           new == ToSet(FromDiagnostics(s, "rule"))
<1>1. IsList(b) /\ \A x \in ToSet(b) : /\ x = Bucket(x.file, x.rule, AnyMessage, x.count)
                                       /\ x.count \in Nat \ {0}
  BY DEF IsBaseline
<1>2. \A x : x \in new <=> \E i \in DOMAIN s : /\ Keyed(s[i])
                                               /\ x = Bucket(s[i].file, s[i].rule, AnyMessage,
                                                             Cardinality(Of(s[i].file, s[i].rule)))
  <2>1. \A i : BucketOf(s, "rule", i) = Bucket(s[i].file, s[i].rule, AnyMessage, Cardinality(Of(s[i].file, s[i].rule)))
    <3> TAKE i
    <3>1. SameKey(s, "rule", i) = Of(s[i].file, s[i].rule)
      BY DEF SameKey
    <3> QED BY <3>1 DEF BucketOf
  <2>2. \A x : x \in new <=> \E i \in DOMAIN s : Keyed(s[i]) /\ x = BucketOf(s, "rule", i)
    BY RecordedIs
  <2> HIDE DEF Of, new
  <2> QED BY <2>1, <2>2
<1>3. ASSUME NEW x \in ToSet(b) PROVE Actual(b, s, x) = Cardinality(Of(x.file, x.rule))
  <2>1. \A i \in DOMAIN s : Claimed(b, s[i]) /\ Tuple(Claim(b, s[i])) = Tuple(x)
                              <=> Keyed(s[i]) /\ s[i].file = x.file /\ s[i].rule = x.rule
    <3> TAKE i \in DOMAIN s
    <3>1. Tuple(x) = <<x.file, x.rule, AnyMessage>>
      BY DEF Tuple
    <3>2. /\ Claimed(b, s[i]) <=> Keyed(s[i]) /\ \E z \in ToSet(b) : z.file = s[i].file /\ z.rule = s[i].rule
          /\ Claimed(b, s[i]) => Tuple(Claim(b, s[i])) = <<s[i].file, s[i].rule, AnyMessage>>
      BY <1>1, RuleRowsClaim
    <3> QED BY <3>1, <3>2
  <2> QED BY <2>1 DEF Actual
<1>4. ASSUME NEW i \in DOMAIN s, Claimed(b, s[i]) PROVE Members(b, s, i) = Of(s[i].file, s[i].rule)
  <2>1. \A j \in DOMAIN s : /\ Claimed(b, s[j]) <=> Keyed(s[j]) /\ \E z \in ToSet(b) : z.file = s[j].file /\ z.rule = s[j].rule
                            /\ Claimed(b, s[j]) => Bin(b, s[j]) = <<s[j].file, s[j].rule, AnyMessage>>
                            /\ ~ Claimed(b, s[j]) => Bin(b, s[j]) = <<s[j].file, s[j].rule>>
    BY <1>1, RuleRowsClaim DEF Bin
  <2>2. \A x, y, z, u, v : <<x, y, z>> # <<u, v>>
    OBVIOUS
  <2>3. \A j \in DOMAIN s : Keyed(s[j]) /\ Bin(b, s[j]) = Bin(b, s[i])
                              <=> Keyed(s[j]) /\ s[j].file = s[i].file /\ s[j].rule = s[i].rule
    BY <1>4, <2>1, <2>2
  <2> QED BY <2>3 DEF Members
<1>5. Drifted(b, s) <=> \E x \in ToSet(b) : Cardinality(Of(x.file, x.rule)) # x.count
  <2>1. Drifted(b, s) <=> \E x \in ToSet(b) : Actual(b, s, x) # x.count
    BY DEF Drifted, ToSet
  <2> QED BY <1>3, <2>1
<1> HIDE DEF Of
<1>6. ASSUME ~ Drifted(b, s), \A f \in ToSet(Filtered(b, s)) : ~ Keyed(f)
      PROVE  ToSet(b) = new
  <2>1. ASSUME NEW x \in ToSet(b) PROVE x \in new
    <3>1. Cardinality(Of(x.file, x.rule)) = x.count /\ x.count # 0
      BY <1>1, <1>5, <1>6
    <3>2. Of(x.file, x.rule) # {}
      BY <3>1, FS_EmptySet
    <3>3. PICK i \in DOMAIN s : Keyed(s[i]) /\ s[i].file = x.file /\ s[i].rule = x.rule
      BY <3>2 DEF Of
    <3> QED BY <1>1, <1>2, <3>1, <3>3
  <2>2. ASSUME NEW x \in new PROVE x \in ToSet(b)
    <3>1. PICK i \in DOMAIN s : Keyed(s[i]) /\ x = Bucket(s[i].file, s[i].rule, AnyMessage,
                                                            Cardinality(Of(s[i].file, s[i].rule)))
      BY <1>2
    <3>2. Claimed(b, s[i])
      <4> SUFFICES ASSUME ~ Claimed(b, s[i]) PROVE FALSE
        OBVIOUS
      <4>1. s[i] \in ToSet(Filtered(b, s))
        BY UnclaimedSurfaces, FilteredIs
      <4> QED BY <1>6, <3>1, <4>1
    <3>3. PICK z \in ToSet(b) : z.file = s[i].file /\ z.rule = s[i].rule
      BY <1>1, <3>2, RuleRowsClaim
    <3>4. Cardinality(Of(z.file, z.rule)) = z.count
      BY <1>5, <1>6
    <3> QED BY <1>1, <3>1, <3>3, <3>4
  <2> QED BY <2>1, <2>2
<1>7. ASSUME ToSet(b) = new
      PROVE  ~ Drifted(b, s) /\ \A f \in ToSet(Filtered(b, s)) : ~ Keyed(f)
  <2>1. ASSUME NEW x \in ToSet(b) PROVE Cardinality(Of(x.file, x.rule)) = x.count
    <3>1. PICK i \in DOMAIN s : x = Bucket(s[i].file, s[i].rule, AnyMessage,
                                           Cardinality(Of(s[i].file, s[i].rule)))
      BY <1>2, <1>7
    <3>2. x.file = s[i].file /\ x.rule = s[i].rule /\ x.count = Cardinality(Of(s[i].file, s[i].rule))
      BY <3>1 DEF Bucket
    <3> QED BY <3>2
  <2>2. ASSUME NEW f \in ToSet(Filtered(b, s)), Keyed(f) PROVE FALSE
    <3>1. PICK i \in DOMAIN s : s[i] = f /\ ~ Silenced(b, s, i)
      BY <2>2, ShownIs
    <3> DEFINE z == Bucket(s[i].file, s[i].rule, AnyMessage, Cardinality(Of(s[i].file, s[i].rule)))
    <3>2. z \in ToSet(b)
      BY <1>2, <1>7, <2>2, <3>1
    <3>3. z.file = s[i].file /\ z.rule = s[i].rule
      BY DEF Bucket
    <3> HIDE DEF z
    <3>4. Claimed(b, s[i])
      BY <1>1, <2>2, <3>1, <3>2, <3>3, RuleRowsClaim
    <3>5. /\ Claim(b, s[i]) \in ToSet(b) /\ Claim(b, s[i]).file = s[i].file
          /\ Claim(b, s[i]).rule = s[i].rule
      BY <1>1, <3>4, ClaimIs
    <3>6. Cardinality(Members(b, s, i)) = Claim(b, s[i]).count /\ Claim(b, s[i]).count \in Nat
      BY <1>1, <1>4, <2>1, <3>4, <3>5
    <3>7. Silenced(b, s, i)
      BY <1>1, <2>2, <3>1, <3>4, <3>6, SilencedIs
    <3> QED BY <3>1, <3>7
  <2> QED BY <1>5, <2>1, <2>2
<1> QED BY <1>6, <1>7

(* With a baseline of rule rows, the strict gate is satisfied and nothing  *)
(* that can be recorded is shown exactly when regenerating the baseline    *)
(* would record what it holds (baseline_strict_violation, from_diagnostics).*)
THEOREM GateIsFreshness == Spec => []GateMeansFresh
<1>1. ASSUME PipelineInv PROVE GateMeansFresh
  <2> SUFFICES ASSUME pc = "done", ByRule
               PROVE  SettledBaseline <=> ToSet(baseline) = ToSet(FromDiagnostics(findings, "rule"))
    BY DEF GateMeansFresh
  <2>1. IsList(findings) /\ IsBaseline(baseline) /\ \A x \in ToSet(baseline) : x.message = AnyMessage
    BY <1>1, DoneIs DEF PipelineInv, ByRule
  <2>2. SettledBaseline <=> ~ Drifted(baseline, findings) /\ \A f \in ToSet(Filtered(baseline, findings)) : ~ Keyed(f)
    BY DEF SettledBaseline, Shown, ToSet
  <2> QED BY <2>1, <2>2, GateIsFresh
<1> QED BY <1>1, PipelineIs, PTL

----------------------------------------------------------------------------
(* Counting the elements of a sequence that are in a set. *)

Where(s, S) == {i \in DOMAIN s : s[i] \in S}
Tally(s, S) == Cardinality(Where(s, S))

LEMMA TallyType ==
  ASSUME NEW s, IsList(s), NEW S
  PROVE  /\ Where(s, S) \in SUBSET DOMAIN s /\ IsFiniteSet(Where(s, S)) /\ Tally(s, S) \in Nat
         /\ Tally(s, S) = 0 <=> ToSet(s) \cap S = {}
<1>1. Where(s, S) \in SUBSET DOMAIN s
  BY DEF Where
<1>2. IsFiniteSet(Where(s, S)) /\ Tally(s, S) \in Nat
  BY <1>1, IndicesAreFinite DEF Tally
<1>3. Tally(s, S) = 0 <=> Where(s, S) = {}
  BY <1>2, FS_EmptySet DEF Tally
<1>4. Where(s, S) = {} <=> ToSet(s) \cap S = {}
  BY DEF Where, ToSet
<1> QED BY <1>1, <1>2, <1>3, <1>4

LEMMA TallyAppend ==
  ASSUME NEW X, NEW s \in Seq(X), NEW x \in X, NEW S
  PROVE  Tally(Append(s, x), S) = Tally(s, S) + (IF x \in S THEN 1 ELSE 0)
<1> DEFINE n == Len(s)
           t == Append(s, x)
<1>1. n \in Nat /\ DOMAIN s = 1 .. n
  BY LenProperties
<1>2. t \in Seq(X) /\ Len(t) = n + 1
  BY AppendProperties
<1>3. \A i \in 1 .. n : t[i] = s[i]
  BY AppendProperties
<1>4. t[n + 1] = x
  BY AppendProperties
<1>5. DOMAIN t = 1 .. n + 1
  BY <1>2, LenProperties
<1> HIDE DEF n, t
<1>6. Where(t, S) = IF x \in S THEN Where(s, S) \cup {n + 1} ELSE Where(s, S)
  BY <1>1, <1>3, <1>4, <1>5 DEF Where
<1>7. n + 1 \notin Where(s, S)
  BY <1>1 DEF Where
<1>8. IsFiniteSet(Where(s, S)) /\ Cardinality(Where(s, S)) \in Nat
  BY ListIn, TallyType DEF Tally
<1>9. Cardinality(Where(s, S) \cup {n + 1}) = Cardinality(Where(s, S)) + 1
  BY <1>7, <1>8, FS_AddElement
<1> QED BY <1>6, <1>8, <1>9 DEF Tally, t

LEMMA TallyEmpty == \A S : Tally(<< >>, S) = 0
BY ListEmpty, RangeEmpty, TallyType

LEMMA TallyConcat ==
  ASSUME NEW s, IsList(s), NEW t, IsList(t), NEW S
  PROVE  Tally(s \o t, S) = Tally(s, S) + Tally(t, S)
<1> DEFINE X == ToSet(s) \cup ToSet(t)
           P == {u \in Seq(X) : Tally(s \o u, S) = Tally(s, S) + Tally(u, S)}
<1>0. ToSet(s) \subseteq X /\ ToSet(t) \subseteq X
  OBVIOUS
<1> HIDE DEF X
<1>1. s \in Seq(X) /\ t \in Seq(X)
  BY <1>0, ListIn
<1>2. << >> \in P
  <2>1. s \o << >> = s /\ << >> \in Seq(X) /\ Tally(s, S) \in Nat
    BY <1>1, ConcatEmptySeq, EmptySeq, TallyType
  <2> QED BY <2>1, TallyEmpty
<1>3. ASSUME NEW u \in P, NEW x \in X PROVE Append(u, x) \in P
  <2>1. u \in Seq(X) /\ Tally(s \o u, S) = Tally(s, S) + Tally(u, S)
    OBVIOUS
  <2>2. Append(u, x) \in Seq(X) /\ s \o u \in Seq(X)
    BY <1>1, <2>1, AppendProperties, ConcatProperties
  <2>3. s \o Append(u, x) = Append(s \o u, x)
    BY <1>1, <2>1, ConcatAppend
  <2> DEFINE w == s \o u
             one == IF x \in S THEN 1 ELSE 0
  <2>4. Tally(Append(u, x), S) = Tally(u, S) + one
    BY <2>1, TallyAppend
  <2>5. Tally(Append(w, x), S) = Tally(w, S) + one
    BY <2>2, TallyAppend
  <2>6. Tally(s, S) \in Nat /\ Tally(u, S) \in Nat /\ one \in Nat
    BY <1>1, <2>1, ListIn, TallyType
  <2> HIDE DEF w, one
  <2>7. Tally(s \o Append(u, x), S) = Tally(s, S) + Tally(Append(u, x), S)
    BY <2>1, <2>3, <2>4, <2>5, <2>6 DEF w
  <2> QED BY <2>2, <2>7
<1>4. P = Seq(X)
  <2>1. P \in SUBSET Seq(X)
    OBVIOUS
  <2> HIDE DEF P
  <2> QED BY <1>2, <1>3, <2>1, AppendInduction
<1> QED BY <1>1, <1>4

(* Element by element no more: altogether no more. *)
Fewer(f, g, X, S) == \A x \in X : Tally(f[x], S) <= Tally(g[x], S)

LEMMA BindTally ==
  ASSUME NEW X, NEW Y, NEW f, NEW g, NEW S, Sends(f, X, Seq(Y)), Sends(g, X, Seq(Y)), Fewer(f, g, X, S)
  PROVE  \A s \in Seq(X) : Tally(Bind(s, f), S) <= Tally(Bind(s, g), S)
<1> DEFINE P == {s \in Seq(X) : Tally(Bind(s, f), S) <= Tally(Bind(s, g), S)}
<1>1. << >> \in P
  BY BindEmpty, TallyEmpty, EmptySeq
<1>2. ASSUME NEW s \in P, NEW x \in X PROVE Append(s, x) \in P
  <2>1. s \in Seq(X) /\ Append(s, x) \in Seq(X) /\ Tally(Bind(s, f), S) <= Tally(Bind(s, g), S)
    BY AppendProperties
  <2>2. Bind(Append(s, x), f) = Bind(s, f) \o f[x]
    BY <2>1, BindAppend
  <2>3. Bind(Append(s, x), g) = Bind(s, g) \o g[x]
    BY <2>1, BindAppend
  <2>4. IsList(Bind(s, f)) /\ IsList(Bind(s, g))
    BY <2>1, BindType, ListIn
  <2>5. IsList(f[x]) /\ IsList(g[x])
    BY ListIn DEF Sends
  <2>6. Tally(Bind(s, f) \o f[x], S) = Tally(Bind(s, f), S) + Tally(f[x], S)
    BY <2>4, <2>5, TallyConcat
  <2>7. Tally(Bind(s, g) \o g[x], S) = Tally(Bind(s, g), S) + Tally(g[x], S)
    BY <2>4, <2>5, TallyConcat
  <2>8. Tally(f[x], S) <= Tally(g[x], S)
    BY DEF Fewer
  <2>9. Tally(Bind(s, f), S) \in Nat /\ Tally(Bind(s, g), S) \in Nat /\ Tally(f[x], S) \in Nat /\ Tally(g[x], S) \in Nat
    BY <2>4, <2>5, TallyType
  <2>10. Tally(Bind(Append(s, x), f), S) <= Tally(Bind(Append(s, x), g), S)
    BY <2>1, <2>2, <2>3, <2>6, <2>7, <2>8, <2>9
  <2> QED BY <2>1, <2>10
<1>3. P = Seq(X)
  <2>1. P \in SUBSET Seq(X)
    OBVIOUS
  <2> HIDE DEF P
  <2> QED BY <1>1, <1>2, <2>1, AppendInduction
<1> QED BY <1>3

LEMMA FlatTally ==
  ASSUME NEW m \in Nat, NEW f, NEW g, NEW S, f = [i \in 1 .. m |-> f[i]], g = [i \in 1 .. m |-> g[i]],
         \A i \in 1 .. m : IsList(f[i]) /\ IsList(g[i]), Fewer(f, g, 1 .. m, S)
  PROVE  Tally(FlattenSeq(f), S) <= Tally(FlattenSeq(g), S)
<1> DEFINE Y == UNION {ToSet(f[i]) \cup ToSet(g[i]) : i \in 1 .. m}
<1>1. \A i \in 1 .. m : ToSet(f[i]) \subseteq Y /\ ToSet(g[i]) \subseteq Y
  OBVIOUS
<1> HIDE DEF Y
<1>2. Sends(f, 1 .. m, Seq(Y)) /\ Sends(g, 1 .. m, Seq(Y))
  BY <1>1, ListIn DEF Sends
<1>3. FlattenSeq(f) = Bind(Up(m), f) /\ FlattenSeq(g) = Bind(Up(m), g) /\ Up(m) \in Seq(1 .. m)
  BY FlatIsBind, UpProperties
<1>4. Tally(Bind(Up(m), f), S) <= Tally(Bind(Up(m), g), S)
  BY <1>2, <1>3, BindTally
<1> QED BY <1>3, <1>4

LEMMA OneTally == \A x, S : Tally(<<x>>, S) = IF x \in S THEN 1 ELSE 0
<1> TAKE x, S
<1> DEFINE o == <<x>>
<1>1. DOMAIN o = {1} /\ o[1] = x
  OBVIOUS
<1> HIDE DEF o
<1>2. Where(o, S) = IF x \in S THEN {1} ELSE {}
  BY <1>1 DEF Where
<1>3. Cardinality({1}) = 1 /\ Cardinality({}) = 0
  BY FS_Singleton, FS_EmptySet
<1>4. Tally(o, S) = IF x \in S THEN 1 ELSE 0
  BY <1>2, <1>3 DEF Tally
<1> QED BY <1>4 DEF o

LEMMA ThoseTally ==
  ASSUME NEW s, IsList(s), NEW S, NEW T
  PROVE  Tally(Those(s, S), T) <= Tally(s, T)
<1> DEFINE Y == ToSet(s)
           p == Pick(Y, S)
           e == [y \in Y |-> y]
           g == [y \in Y |-> <<y>>]
<1>1. s \in Seq(Y)
  BY DEF IsList
<1> HIDE DEF Y
<1>2. Sends(p, Y, Seq(Y)) /\ Those(s, S) = Bind(s, p)
  BY <1>1, ThoseIsBind
<1>3. Sends(e, Y, Y) /\ Ones(g, e, Y) /\ \A y \in Y : e[y] = y
  BY DEF Sends, Ones
<1>4. Sends(g, Y, Seq(Y))
  <2>1. \A y \in Y : <<y>> \in Seq(Y)
    OBVIOUS
  <2> QED BY <2>1 DEF Sends
<1>5. Fewer(p, g, Y, T)
  <2> SUFFICES ASSUME NEW y \in Y PROVE Tally(p[y], T) <= Tally(g[y], T)
    BY DEF Fewer
  <2>1. p[y] = IF y \in S THEN <<y>> ELSE << >>
    BY DEF Pick
  <2> DEFINE o == <<y>>
  <2>2. g[y] = o /\ (p[y] = o \/ p[y] = << >>)
    BY <2>1
  <2>3. Tally(o, T) \in Nat
    BY OneTally
  <2> HIDE DEF o, p, g
  <2> QED BY <2>2, <2>3, TallyEmpty
<1> HIDE DEF p, e, g
<1>6. Bind(s, g) = Each(s, e)
  BY <1>1, <1>3, BindOnes
<1>7. Each(s, e) = s
  BY <1>1, <1>3, EachIdentity
<1>8. Tally(Bind(s, p), T) <= Tally(Bind(s, g), T)
  BY <1>1, <1>2, <1>4, <1>5, BindTally
<1> QED BY <1>2, <1>6, <1>7, <1>8

LEMMA InOrderOnce ==
  ASSUME NEW s, IsList(s), NEW S, NEW y
  PROVE  Tally(InOrder(s, S), {y}) \in {0, 1}
<1> DEFINE u == [i \in DOMAIN s |-> i]
<1>1. InOrder(s, S) = Those(u, S)
  BY DEF InOrder
<1>2. Len(s) \in Nat /\ DOMAIN s = 1 .. Len(s)
  BY ListDomain
<1>3. u = [i \in 1 .. Len(s) |-> u[i]]
  BY <1>2
<1>4. Where(u, {y}) = IF y \in DOMAIN s THEN {y} ELSE {}
  BY DEF Where
<1> HIDE DEF u
<1>5. IsList(u)
  BY <1>2, <1>3, ListOf
<1>6. Tally(u, {y}) \in {0, 1}
  BY <1>4, FS_Singleton, FS_EmptySet DEF Tally
<1>7. Tally(Those(u, S), {y}) <= Tally(u, {y}) /\ Tally(Those(u, S), {y}) \in Nat
  BY <1>5, ThoseTally, ListThose, TallyType
<1> QED BY <1>1, <1>6, <1>7

(* A diagnostic surfaces once. *)
LEMMA SurfacedOnce ==
  ASSUME NEW b, NEW s, IsList(s), NEW y \in DOMAIN s
  PROVE  Tally(Surfaced(b, s), {y}) <= 1
<1> DEFINE n == Len(s)
           keyed == {i \in DOMAIN s : Keyed(s[i])}
           Leads(i) == i \in keyed /\ i = First(b, s, i) /\ ~ Silenced(b, s, i)
           f == [i \in DOMAIN s |-> IF Leads(i) THEN InOrder(s, Members(b, s, i)) ELSE << >>]
           rest == InOrder(s, DOMAIN s \ keyed)
<1>1. n \in Nat /\ DOMAIN s = 1 .. n
  BY ListDomain
<1>2. CASE b = << >>
  <2> DEFINE u == [i \in DOMAIN s |-> i]
  <2>1. Surfaced(b, s) = u /\ Where(u, {y}) = {y}
    BY <1>2 DEF Surfaced, Where
  <2> HIDE DEF u
  <2> QED BY <2>1, FS_Singleton DEF Tally
<1>3. CASE b # << >>
  <2>1. Surfaced(b, s) = FlattenSeq(f) \o rest
    BY <1>3 DEF Surfaced
  <2>2. IsList(rest) /\ Tally(rest, {y}) \in {0, 1} /\ (Keyed(s[y]) => Tally(rest, {y}) = 0)
    <3>1. Keyed(s[y]) => ToSet(rest) \cap {y} = {}
      BY InOrderIs
    <3> HIDE DEF keyed
    <3> QED BY <3>1, InOrderIs, InOrderOnce, TallyType
  <2>3. \A i \in DOMAIN s : /\ IsList(f[i]) /\ Tally(f[i], {y}) \in {0, 1}
                            /\ Tally(f[i], {y}) # 0 => y \in Members(b, s, i) /\ i = First(b, s, i)
    <3> TAKE i \in DOMAIN s
    <3> DEFINE m == Members(b, s, i)
               o == InOrder(s, m)
    <3>1. f[i] = (IF Leads(i) THEN o ELSE << >>) /\ (Leads(i) => i = First(b, s, i))
      OBVIOUS
    <3>2. IsList(o) /\ Tally(o, {y}) \in {0, 1} /\ ToSet(o) = DOMAIN s \cap m
      <4> HIDE DEF m
      <4> QED BY InOrderIs, InOrderOnce
    <3>3. Tally(o, {y}) # 0 => y \in m
      <4> HIDE DEF m, o
      <4> QED BY <3>2, TallyType
    <3> HIDE DEF o, f, Leads
    <3> QED BY <3>1, <3>2, <3>3, ListEmpty, TallyEmpty
  <2>4. f = [i \in 1 .. n |-> f[i]]
    BY <1>1
  <2> DEFINE k == First(b, s, y)
             g == [i \in 1 .. n |-> IF i = k THEN <<y>> ELSE << >>]
  <2>5. /\ g = [i \in 1 .. n |-> g[i]]
        /\ \A i \in 1 .. n : /\ g[i] = IF i = k THEN <<y>> ELSE << >>
                             /\ IsList(g[i]) /\ Tally(g[i], {y}) = IF i = k THEN 1 ELSE 0
    <3> DEFINE o == <<y>>
    <3>1. IsList(o) /\ Tally(o, {y}) = 1 /\ IsList(<< >>) /\ Tally(<< >>, {y}) = 0
      BY OneIsList, OneTally, ListEmpty, TallyEmpty
    <3>2. \A i \in 1 .. n : g[i] = IF i = k THEN o ELSE << >>
      OBVIOUS
    <3>3. g = [i \in 1 .. n |-> g[i]]
      OBVIOUS
    <3> HIDE DEF o, g, k, n
    <3>4. \A i \in 1 .. n : IsList(g[i]) /\ Tally(g[i], {y}) = IF i = k THEN 1 ELSE 0
      BY <3>1, <3>2
    <3> QED BY <3>2, <3>3, <3>4 DEF o
  <2>6. \A i \in DOMAIN s : Tally(f[i], {y}) # 0 => i = k
    <3> SUFFICES ASSUME NEW i \in DOMAIN s, Tally(f[i], {y}) # 0 PROVE i = k
      OBVIOUS
    <3>1. y \in Members(b, s, i) /\ i = First(b, s, i)
      BY <2>3
    <3>2. Bin(b, s[y]) = Bin(b, s[i])
      BY <3>1 DEF Members
    <3> QED BY <3>1, <3>2, SameBin
  <2>7. Keyed(s[y]) => k \in 1 .. n
    BY <1>1, FirstIs
  <2> HIDE DEF f, rest, n, g, k, Leads
  <2>8. IsList(FlattenSeq(f)) /\ Tally(FlattenSeq(f), {y}) \in Nat
    BY <1>1, <2>3, <2>4, ListFlat, TallyType
  <2>9. Fewer(f, g, 1 .. n, {y})
    <3> SUFFICES ASSUME NEW i \in 1 .. n PROVE Tally(f[i], {y}) <= Tally(g[i], {y})
      BY DEF Fewer
    <3>1. i \in DOMAIN s /\ Tally(f[i], {y}) \in {0, 1} /\ (Tally(f[i], {y}) # 0 => i = k)
      BY <1>1, <2>3, <2>6
    <3>2. Tally(g[i], {y}) = IF i = k THEN 1 ELSE 0
      BY <2>5
    <3> QED BY <3>1, <3>2
  <2>10. Tally(FlattenSeq(f), {y}) <= Tally(FlattenSeq(g), {y})
    BY <1>1, <2>3, <2>4, <2>5, <2>9, FlatTally
  <2>11. CASE Keyed(s[y])
    <3>1. FlattenSeq(g) = g[k]
      <4>1. g[k] \in Seq(ToSet(g[k])) /\ \A i \in 1 .. n : i # k => g[i] = << >>
        BY <2>5, <2>7, <2>11 DEF IsList
      <4>2. Bind(Up(n), g) = g[k]
        BY <1>1, <2>7, <2>11, <4>1, BindSingle
      <4> QED BY <1>1, <2>5, <4>2, FlatIsBind
    <3>2. Tally(FlattenSeq(g), {y}) = 1
      BY <2>5, <2>7, <2>11, <3>1
    <3> QED BY <2>1, <2>2, <2>8, <2>10, <2>11, <3>2, TallyConcat
  <2>12. CASE ~ Keyed(s[y])
    <3>1. \A i \in DOMAIN s : Tally(f[i], {y}) = 0
      <4> SUFFICES ASSUME NEW i \in DOMAIN s, Tally(f[i], {y}) # 0 PROVE FALSE
        OBVIOUS
      <4> QED BY <2>3, <2>12 DEF Members
    <3>2. \A i \in DOMAIN s : y \notin ToSet(f[i])
      <4> SUFFICES ASSUME NEW i \in DOMAIN s PROVE y \notin ToSet(f[i])
        OBVIOUS
      <4>1. ToSet(f[i]) \cap {y} = {}
        BY <2>3, <3>1, TallyType
      <4> QED BY <4>1
    <3>3. y \notin ToSet(FlattenSeq(f))
      BY <1>1, <2>3, <2>4, <3>2, FlatRange
    <3>4. Tally(FlattenSeq(f), {y}) = 0
      BY <2>8, <3>3, TallyType
    <3> QED BY <2>1, <2>2, <2>8, <3>4, TallyConcat
  <2> QED BY <2>11, <2>12
<1> QED BY <1>2, <1>3

(* So what check shows is counted at the indices that surface. *)
Surfaces(b, s, S) == {i \in DOMAIN s : s[i] \in S /\ (Keyed(s[i]) => ~ Silenced(b, s, i))}

LEMMA ShownTally ==
  ASSUME NEW b, NEW s, IsList(s), NEW S
  PROVE  Tally(Filtered(b, s), S) = Cardinality(Surfaces(b, s, S))
<1> DEFINE u == Surfaced(b, s)
           v == [n \in DOMAIN u |-> s[u[n]]]
           A == Where(v, S)
           B == Surfaces(b, s, S)
           F == [k \in A |-> u[k]]
<1>1. Filtered(b, s) = v /\ DOMAIN v = DOMAIN u
  BY DEF Filtered
<1>2. /\ IsList(u)
      /\ \A y : y \in ToSet(u) <=> y \in DOMAIN s /\ (Keyed(s[y]) => ~ Silenced(b, s, y))
  BY SurfacedIs
<1>3. \A k \in DOMAIN u, l \in DOMAIN u : u[k] = u[l] => k = l
  <2> SUFFICES ASSUME NEW k \in DOMAIN u, NEW l \in DOMAIN u, u[k] = u[l], k # l PROVE FALSE
    OBVIOUS
  <2> DEFINE y == u[k]
             W == Where(u, {y})
  <2>1. y \in ToSet(u) /\ k \in W /\ l \in W
    BY DEF Where, ToSet
  <2>3. y \in DOMAIN s
    BY <1>2, <2>1
  <2>4. Cardinality(W) <= 1 /\ IsFiniteSet(W)
    <3> HIDE DEF u, y
    <3> QED BY <1>2, <2>3, SurfacedOnce, TallyType DEF Tally, u
  <2> HIDE DEF W, y, u
  <2>5. Cardinality({k}) = 1 /\ IsFiniteSet({k}) /\ l \notin {k}
    BY FS_Singleton
  <2>6. Cardinality({k} \cup {l}) = 2
    BY <2>5, FS_AddElement
  <2>7. Cardinality({k} \cup {l}) <= Cardinality(W)
    <3>1. {k} \cup {l} \in SUBSET W
      BY <2>1
    <3> QED BY <2>4, <3>1, FS_Subset
  <2>8. Cardinality(W) \in Nat
    BY <2>4, FS_CardinalityType
  <2> QED BY <2>4, <2>6, <2>7, <2>8
<1>4. F \in [A -> B]
  <2> SUFFICES ASSUME NEW k \in A PROVE u[k] \in B
    OBVIOUS
  <2>1. k \in DOMAIN u /\ s[u[k]] \in S /\ u[k] \in ToSet(u)
    BY DEF Where, ToSet
  <2> QED BY <1>2, <2>1 DEF Surfaces
<1>5. \A k, l \in A : F[k] = F[l] => k = l
  BY <1>3 DEF Where
<1>6. \A y \in B : \E k \in A : F[k] = y
  <2> SUFFICES ASSUME NEW y \in B PROVE \E k \in A : u[k] = y
    OBVIOUS
  <2>1. y \in ToSet(u) /\ s[y] \in S
    BY <1>2 DEF Surfaces
  <2>2. PICK k \in DOMAIN u : u[k] = y
    BY <2>1 DEF ToSet
  <2>3. k \in A
    BY <2>1, <2>2 DEF Where
  <2> QED BY <2>2, <2>3
<1>7. IsFiniteSet(A)
  <2>1. v = [n \in DOMAIN u |-> v[n]]
    OBVIOUS
  <2> HIDE DEF u, v
  <2>2. IsList(v)
    BY <1>2, <2>1, ListDomain, ListOf
  <2> QED BY <2>2, TallyType
<1> HIDE DEF F, A, B, u, v
<1>8. ExistsBijection(A, B)
  BY <1>4, <1>5, <1>6, Fun_IsBij, Fun_ExistsBij
<1>9. Cardinality(A) = Cardinality(B)
  BY <1>7, <1>8, FS_Bijection
<1> QED BY <1>1, <1>9 DEF Tally, A, B

----------------------------------------------------------------------------
(* How much a baseline silences. *)

CountOf(b, f, r, k) == IF b[k].file = f /\ b[k].rule = r THEN b[k].count ELSE 0

LEMMA RecordedSteps ==
  ASSUME IsBaseline(baseline), NEW f, NEW r
  PROVE  \E up \in [0 .. Len(baseline) -> Nat] :
           /\ Recorded(f, r) = up[Len(baseline)] /\ up[0] = 0
           /\ \A k \in 1 .. Len(baseline) : up[k] = up[k - 1] + CountOf(baseline, f, r, k)
<1> DEFINE n == Len(baseline)
           step == [k \in Nat |-> [t \in Nat |-> IF k \in 1 .. n THEN t + CountOf(baseline, f, r, k) ELSE t]]
           Is(g) == g = [k \in 0 .. n |->
                           IF k = 0 THEN 0
                           ELSE LET b == baseline[k]
                                IN  g[k - 1] + (IF b.file = f /\ b.rule = r THEN b.count ELSE 0)]
           up == CHOOSE g : Is(g)
<1>1. n \in Nat /\ \A k \in 1 .. n : CountOf(baseline, f, r, k) \in Nat
  <2>1. n \in Nat /\ DOMAIN baseline = 1 .. n
    BY ListDomain DEF IsBaseline
  <2>2. ASSUME NEW k \in 1 .. n PROVE CountOf(baseline, f, r, k) \in Nat
    <3>1. baseline[k] \in ToSet(baseline)
      BY <2>1 DEF ToSet
    <3>2. baseline[k].count \in Nat
      BY <3>1 DEF IsBaseline
    <3> QED BY <3>2 DEF CountOf
  <2> QED BY <2>1, <2>2
<1>2. step \in [Nat -> [Nat -> Nat]]
  BY <1>1
<1>3. PICK g \in [0 .. n -> Nat] : Iterates(g, n, 0, step)
  <2> HIDE DEF step, n
  <2> QED BY <1>1, <1>2, Recursion
<1>4. \A k \in 0 .. n : g[k] = IF k = 0 THEN 0 ELSE g[k - 1] + CountOf(baseline, f, r, k)
  <2> SUFFICES ASSUME NEW k \in 0 .. n
               PROVE  g[k] = IF k = 0 THEN 0 ELSE g[k - 1] + CountOf(baseline, f, r, k)
    OBVIOUS
  <2>1. g[k] = IF k = 0 THEN 0 ELSE step[k][g[k - 1]]
    BY <1>3 DEF Iterates
  <2>2. CASE k = 0
    BY <2>1, <2>2
  <2>3. CASE k # 0
    <3>1. k \in 1 .. n /\ k \in Nat /\ k - 1 \in 0 .. n /\ g[k - 1] \in Nat
      BY <1>1, <2>3
    <3>2. step[k][g[k - 1]] = g[k - 1] + CountOf(baseline, f, r, k)
      BY <3>1
    <3> HIDE DEF step
    <3> QED BY <2>1, <2>3, <3>2
  <2> QED BY <2>2, <2>3
<1>5. Is(g)
  <2>1. g = [k \in 0 .. n |-> g[k]]
    OBVIOUS
  <2>2. [k \in 0 .. n |-> g[k]] =
          [k \in 0 .. n |-> IF k = 0 THEN 0
                            ELSE LET b == baseline[k]
                                 IN  g[k - 1] + (IF b.file = f /\ b.rule = r THEN b.count ELSE 0)]
    BY <1>4 DEF CountOf
  <2> QED BY <2>1, <2>2
<1>6. Is(up)
  <2> HIDE DEF Is
  <2> QED BY <1>5
<1>7. Recorded(f, r) = up[n]
  BY DEF Recorded
<1>8. \A k \in 0 .. n : up[k] = IF k = 0 THEN 0 ELSE up[k - 1] + CountOf(baseline, f, r, k)
  <2> HIDE DEF up
  <2> QED BY <1>6 DEF CountOf
<1>9. up = [k \in 0 .. n |-> up[k]]
  <2> DEFINE v(k) == IF k = 0 THEN 0 ELSE LET b == baseline[k]
                                          IN  up[k - 1] + (IF b.file = f /\ b.rule = r THEN b.count ELSE 0)
  <2>1. up = [k \in 0 .. n |-> v(k)]
    BY <1>6
  <2> HIDE DEF v, up
  <2> QED BY <2>1
<1> HIDE DEF up, Is, step
<1>10. \A k \in 0 .. n : up[k] \in Nat
  <2> DEFINE P == {k \in Nat : k \in 0 .. n => up[k] \in Nat}
  <2>1. 0 \in P
    BY <1>1, <1>8
  <2>2. ASSUME NEW k \in P PROVE k + 1 \in P
    <3> SUFFICES ASSUME k + 1 \in 0 .. n PROVE up[k + 1] \in Nat
      OBVIOUS
    <3>1. k \in 0 .. n /\ up[k] \in Nat /\ k + 1 # 0 /\ (k + 1) - 1 = k /\ k + 1 \in 1 .. n
      BY <1>1
    <3>2. up[k + 1] = up[k] + CountOf(baseline, f, r, k + 1)
      BY <1>8, <3>1
    <3> QED BY <1>1, <3>1, <3>2
  <2>3. P = Nat
    <3>1. P \in SUBSET Nat
      OBVIOUS
    <3> HIDE DEF P
    <3> QED BY <2>1, <2>2, <3>1, SetInduction
  <2> QED BY <1>1, <2>3
<1>11. up \in [0 .. n -> Nat]
  BY <1>9, <1>10
<1>12. up[0] = 0 /\ \A k \in 1 .. n : up[k] = up[k - 1] + CountOf(baseline, f, r, k)
  <2>1. 0 \in 0 .. n /\ \A k \in 1 .. n : k \in 0 .. n /\ k # 0
    BY <1>1
  <2> QED BY <1>8, <2>1
<1> QED BY <1>7, <1>11, <1>12

(* What the buckets of one file and rule silence, bucket by bucket *)
LEMMA SilencedIsRecorded ==
  ASSUME IsBaseline(baseline), NEW s, IsList(s), NEW f, NEW r
  PROVE  Cardinality({i \in DOMAIN s : s[i].file = f /\ s[i].rule = r /\ Keyed(s[i]) /\ Silenced(baseline, s, i)})
           <= Recorded(f, r)
<1> DEFINE b == baseline
           n == Len(b)
           Q == {i \in DOMAIN s : s[i].file = f /\ s[i].rule = r /\ Keyed(s[i]) /\ Silenced(b, s, i)}
           By(k) == {i \in Q : Claim(b, s[i]) = b[k]}
           To(k) == {i \in Q : \E l \in 1 .. k : Claim(b, s[i]) = b[l]}
<1>1. IsList(b) /\ n \in Nat /\ DOMAIN b = 1 .. n /\ \A k \in 1 .. n : b[k].count \in Nat
  <2>1. IsList(b) /\ n \in Nat /\ DOMAIN b = 1 .. n
    BY ListDomain DEF IsBaseline
  <2>2. \A k \in 1 .. n : b[k].count \in Nat
    <3> TAKE k \in 1 .. n
    <3>1. b[k] \in ToSet(b)
      BY <2>1 DEF ToSet
    <3> QED BY <3>1 DEF IsBaseline
  <2> QED BY <2>1, <2>2
<1>2. PICK up \in [0 .. n -> Nat] :
         /\ Recorded(f, r) = up[n] /\ up[0] = 0
         /\ \A k \in 1 .. n : up[k] = up[k - 1] + CountOf(b, f, r, k)
  BY RecordedSteps
<1>3. \A i \in Q : Claimed(b, s[i]) /\ Cardinality(Members(b, s, i)) <= Claim(b, s[i]).count
  BY <1>1, SilencedIs
<1>4. \A i \in Q : \E k \in 1 .. n : Claim(b, s[i]) = b[k]
  <2> SUFFICES ASSUME NEW i \in Q PROVE \E k \in 1 .. n : Claim(b, s[i]) = b[k]
    OBVIOUS
  <2>1. Claim(b, s[i]) \in ToSet(b)
    BY <1>1, <1>3, ClaimIs
  <2> QED BY <1>1, <2>1 DEF ToSet
<1>5. \A T \in SUBSET DOMAIN s : IsFiniteSet(T) /\ Cardinality(T) \in Nat
  BY IndicesAreFinite
<1>6. ASSUME NEW k \in 1 .. n PROVE Cardinality(By(k)) <= CountOf(b, f, r, k)
  <2>1. CASE By(k) = {}
    <3>1. CountOf(b, f, r, k) \in Nat
      BY <1>1 DEF CountOf
    <3> QED BY <2>1, <3>1, FS_EmptySet
  <2>2. CASE By(k) # {}
    <3>1. PICK i \in By(k) : TRUE
      BY <2>2
    <3>2. i \in DOMAIN s /\ Claimed(b, s[i]) /\ Claim(b, s[i]) = b[k] /\ s[i].file = f /\ s[i].rule = r
          /\ Cardinality(Members(b, s, i)) <= b[k].count
      BY <1>3
    <3>3. b[k].file = f /\ b[k].rule = r
      BY <1>1, <3>2, ClaimIs
    <3>4. By(k) \in SUBSET Members(b, s, i)
      <4> SUFFICES ASSUME NEW j \in By(k) PROVE j \in Members(b, s, i)
        OBVIOUS
      <4>1. j \in DOMAIN s /\ Keyed(s[j]) /\ Claimed(b, s[j]) /\ Claim(b, s[j]) = b[k]
        BY <1>3
      <4> QED BY <3>2, <4>1 DEF Members, Bin
    <3>5. Members(b, s, i) \in SUBSET DOMAIN s
      BY DEF Members
    <3>6. By(k) \in SUBSET DOMAIN s
      OBVIOUS
    <3> HIDE DEF By
    <3>7. Cardinality(By(k)) <= Cardinality(Members(b, s, i))
      BY <1>5, <3>4, <3>5, FS_Subset
    <3> QED BY <1>1, <1>5, <3>2, <3>3, <3>5, <3>6, <3>7 DEF CountOf
  <2> QED BY <2>1, <2>2
<1> DEFINE P == {k \in Nat : k \in 0 .. n => Cardinality(To(k)) <= up[k]}
<1>7. 0 \in P
  <2>1. To(0) = {}
    <3>1. 1 .. 0 = {}
      OBVIOUS
    <3> QED BY <3>1
  <2>2. Cardinality(To(0)) = 0
    BY <2>1, FS_EmptySet
  <2> HIDE DEF To
  <2> QED BY <1>2, <2>2
<1>8. ASSUME NEW k \in P PROVE k + 1 \in P
  <2> SUFFICES ASSUME k + 1 \in 0 .. n PROVE Cardinality(To(k + 1)) <= up[k + 1]
    OBVIOUS
  <2>1. k \in Nat /\ k \in 0 .. n /\ k + 1 \in 1 .. n /\ (k + 1) - 1 = k /\ Cardinality(To(k)) <= up[k]
    BY <1>1
  <2>2. To(k + 1) = To(k) \cup By(k + 1)
    <3>1. \A l : l \in 1 .. k + 1 <=> l \in 1 .. k \/ l = k + 1
      BY <2>1
    <3> QED BY <3>1
  <2>3. To(k) \in SUBSET DOMAIN s /\ By(k + 1) \in SUBSET DOMAIN s /\ To(k) \cap By(k + 1) \in SUBSET DOMAIN s
    OBVIOUS
  <2>4. up[k + 1] = up[k] + CountOf(b, f, r, k + 1) /\ up[k] \in Nat /\ CountOf(b, f, r, k + 1) \in Nat
    <3>1. CountOf(b, f, r, k + 1) \in Nat
      BY <1>1, <2>1 DEF CountOf
    <3> QED BY <1>2, <2>1, <3>1
  <2>5. Cardinality(By(k + 1)) <= CountOf(b, f, r, k + 1)
    BY <1>6, <2>1
  <2> DEFINE A == To(k)
             B == By(k + 1)
  <2>6. IsFiniteSet(A) /\ IsFiniteSet(B) /\ Cardinality(A) \in Nat /\ Cardinality(B) \in Nat
        /\ Cardinality(A \cap B) \in Nat
    <3> HIDE DEF To, By
    <3> QED BY <1>5, <2>3
  <2> HIDE DEF A, B
  <2>7. Cardinality(A \cup B) = Cardinality(A) + Cardinality(B) - Cardinality(A \cap B)
    BY <2>6, FS_Union
  <2> HIDE DEF To, By
  <2> QED BY <2>1, <2>2, <2>4, <2>5, <2>6, <2>7 DEF A, B
<1>9. P = Nat
  <2>1. P \in SUBSET Nat
    OBVIOUS
  <2> HIDE DEF P
  <2> QED BY <1>7, <1>8, <2>1, SetInduction
<1>10. Cardinality(To(n)) <= up[n]
  <2> HIDE DEF To, n
  <2>1. n \in P /\ n \in 0 .. n
    BY <1>1, <1>9
  <2> QED BY <2>1
<1>11. To(n) = Q
  BY <1>4
<1> QED BY <1>2, <1>10, <1>11

(* Of one file and rule check silences no more findings than its buckets   *)
(* recorded, and none without a rule: within_threshold, for every baseline *)
(* and every run.                                                          *)
THEOREM OnlyRecordedIsSilenced == Spec => []NothingNewIsSilenced
<1>1. ASSUME PipelineInv PROVE NothingNewIsSilenced
  <2> SUFFICES ASSUME pc = "done", NEW i \in DOMAIN findings
               PROVE  LET f == findings[i].file
                          r == findings[i].rule
                      IN  Count(findings, f, r) - Count(Shown, f, r)
                            \in 0 .. (IF r = NoRule THEN 0 ELSE Recorded(f, r))
    BY DEF NothingNewIsSilenced
  <2> DEFINE s == findings
             f == s[i].file
             r == s[i].rule
             T == {x \in ToSet(s) : x.file = f /\ x.rule = r}
             A == {j \in DOMAIN s : s[j].file = f /\ s[j].rule = r}
             B == Surfaces(baseline, s, T)
             Q == {j \in DOMAIN s : s[j].file = f /\ s[j].rule = r /\ Keyed(s[j]) /\ Silenced(baseline, s, j)}
  <2>1. IsList(s) /\ IsBaseline(baseline)
    BY <1>1, DoneIs DEF PipelineInv
  <2>2. Count(s, f, r) = Cardinality(A)
    BY DEF Count
  <2>3. Count(Shown, f, r) = Cardinality(B)
    <3>1. \A j \in DOMAIN Shown : Shown[j] \in ToSet(s)
      <4> SUFFICES ASSUME NEW j \in DOMAIN Shown PROVE Shown[j] \in ToSet(s)
        OBVIOUS
      <4>1. Shown[j] \in ToSet(Filtered(baseline, s))
        BY DEF Shown, ToSet
      <4> HIDE DEF s
      <4>2. \E k \in DOMAIN s : s[k] = Shown[j]
        BY <2>1, <4>1, ShownIs
      <4> QED BY <4>2 DEF ToSet
    <3>2. Where(Shown, T) = {j \in DOMAIN Shown : Shown[j].file = f /\ Shown[j].rule = r}
      BY <3>1 DEF Where
    <3>3. Tally(Shown, T) = Cardinality(B)
      <4> HIDE DEF T, s
      <4> QED BY <2>1, ShownTally DEF Shown, s
    <3> QED BY <3>2, <3>3 DEF Count, Tally
  <2>4. A = B \cup Q /\ B \cap Q = {} /\ B \in SUBSET DOMAIN s /\ Q \in SUBSET DOMAIN s
    BY DEF Surfaces, ToSet
  <2>5. Cardinality(Q) <= Recorded(f, r)
    <3> HIDE DEF f, r, s
    <3> QED BY <2>1, SilencedIsRecorded
  <2>6. r = NoRule => Q = {}
    BY DEF Keyed
  <2>7. \E up \in Nat : Recorded(f, r) = up
    <3>1. PICK up \in [0 .. Len(baseline) -> Nat] : Recorded(f, r) = up[Len(baseline)]
      BY <2>1, RecordedSteps
    <3>2. Len(baseline) \in 0 .. Len(baseline)
      BY <2>1, ListDomain DEF IsBaseline
    <3> QED BY <3>1, <3>2
  <2> HIDE DEF A, B, Q, T, f, r, s
  <2>8. IsFiniteSet(B) /\ IsFiniteSet(Q) /\ Cardinality(B) \in Nat /\ Cardinality(Q) \in Nat
    BY <2>1, <2>4, IndicesAreFinite
  <2>9. Cardinality(A) = Cardinality(B) + Cardinality(Q)
    <3>1. Cardinality(B \cup Q) = Cardinality(B) + Cardinality(Q) - Cardinality(B \cap Q)
      BY <2>8, FS_Union
    <3>2. Cardinality(B \cap Q) = 0
      BY <2>4, FS_EmptySet
    <3> QED BY <2>4, <2>8, <3>1, <3>2
  <2>10. r = NoRule => Cardinality(Q) = 0
    BY <2>6, FS_EmptySet
  <2>11. Count(s, f, r) - Count(Shown, f, r) \in 0 .. (IF r = NoRule THEN 0 ELSE Recorded(f, r))
    BY <2>2, <2>3, <2>5, <2>7, <2>8, <2>9, <2>10
  <2> QED BY <2>11 DEF f, r, s
<1> QED BY <1>1, PipelineIs, PTL

----------------------------------------------------------------------------
(* What Keep makes of one row. *)

KeepOne(path, markers, cfg, r) ==
    IF ~ Marked(markers, r.line, r.rule) /\ ~ Suppresses(cfg.disable, r.rule)
       /\ Resolve(r.rule, r.severity, cfg) # "off"
    THEN <<Finding(path, r.rule, r.message, Resolve(r.rule, r.severity, cfg))>> ELSE << >>
KeepEach(path, markers, cfg, X) == [r \in X |-> KeepOne(path, markers, cfg, r)]

LEMMA KeepIsBind ==
  ASSUME NEW path, NEW rows, IsList(rows), NEW markers, NEW cfg
  PROVE  /\ Keep(path, rows, markers, cfg) = Bind(rows, KeepEach(path, markers, cfg, ToSet(rows)))
         /\ \E Y : Sends(KeepEach(path, markers, cfg, ToSet(rows)), ToSet(rows), Seq(Y))
<1> DEFINE X == ToSet(rows)
           lets(r) == /\ ~ Marked(markers, r.line, r.rule)
                      /\ ~ Suppresses(cfg.disable, r.rule)
                      /\ Resolve(r.rule, r.severity, cfg) # "off"
           said(r) == Finding(path, r.rule, r.message, Resolve(r.rule, r.severity, cfg))
           S == {r \in X : lets(r)}
           Y == {said(r) : r \in X}
           g == [r \in X |-> said(r)]
           o == [r \in X |-> <<said(r)>>]
           p == Pick(X, S)
           e == KeepEach(path, markers, cfg, X)
           kept == Those(rows, S)
<1>1. rows \in Seq(X)
  BY DEF IsList
<1>2. Keep(path, rows, markers, cfg) = [n \in DOMAIN kept |-> said(kept[n])]
  BY DEF Keep
<1>3. \A r \in X : e[r] = IF r \in S THEN <<said(r)>> ELSE << >>
  <2> TAKE r \in X
  <2>1. e[r] = KeepOne(path, markers, cfg, r)
    BY DEF KeepEach
  <2>2. r \in S <=> lets(r)
    OBVIOUS
  <2> QED BY <2>1, <2>2 DEF KeepOne
<1> HIDE DEF lets, e, S, said, X
<1>4. Sends(p, X, Seq(X)) /\ kept = Bind(rows, p)
  BY <1>1, ThoseIsBind
<1>5. kept \in Seq(X)
  BY <1>1, <1>4, BindType
<1>6. Sends(g, X, Y) /\ Ones(o, g, X)
  BY DEF Sends, Ones
<1>7. \A r \in X : <<said(r)>> \in Seq(Y)
  <2> TAKE r \in X
  <2>1. said(r) \in Y
    OBVIOUS
  <2> HIDE DEF Y
  <2> QED BY <2>1
<1>8. Sends(o, X, Seq(Y)) /\ Sends(e, X, Seq(Y))
  <2>1. << >> \in Seq(Y)
    BY EmptySeq
  <2> QED BY <1>3, <1>7, <2>1 DEF Sends
<1>9. Keep(path, rows, markers, cfg) = Each(kept, g)
  <2>1. \A n \in DOMAIN kept : kept[n] \in X
    BY <1>5, LenProperties
  <2> HIDE DEF kept
  <2> QED BY <1>2, <2>1 DEF Each
<1>10. Bind(kept, o) = Each(kept, g)
  <2> HIDE DEF o, g, Y, kept
  <2> QED BY <1>5, <1>6, BindOnes
<1>11. Composes(e, p, o, X)
  <2> SUFFICES ASSUME NEW r \in X PROVE e[r] = Bind(p[r], o)
    BY DEF Composes
  <2>1. CASE r \in S
    <3>1. p[r] = <<r>> /\ e[r] = o[r]
      BY <1>3, <2>1 DEF Pick
    <3>2. Bind(<<r>>, o) = o[r]
      <4> HIDE DEF o
      <4> QED BY <1>8, BindOne
    <3> QED BY <3>1, <3>2
  <2>2. CASE r \notin S
    <3>1. p[r] = << >> /\ e[r] = << >>
      BY <1>3, <2>2 DEF Pick
    <3> QED BY <3>1, BindEmpty
  <2> QED BY <2>1, <2>2
<1>12. Bind(Bind(rows, p), o) = Bind(rows, e)
  <2> HIDE DEF p, o, Y
  <2> QED BY <1>1, <1>4, <1>8, <1>11, BindBind
<1> QED BY <1>4, <1>8, <1>9, <1>10, <1>12 DEF e, X

LEMMA KeepRange ==
  ASSUME NEW path, NEW rows, IsList(rows), NEW markers, NEW cfg
  PROVE  \A y : y \in ToSet(Keep(path, rows, markers, cfg))
                  <=> \E r \in ToSet(rows) : y \in ToSet(KeepOne(path, markers, cfg, r))
<1> DEFINE X == ToSet(rows)
           e == KeepEach(path, markers, cfg, X)
<1>1. rows \in Seq(X)
  BY DEF IsList
<1>2. PICK Y : Keep(path, rows, markers, cfg) = Bind(rows, e) /\ Sends(e, X, Seq(Y))
  BY KeepIsBind
<1>3. \A r \in X : e[r] = KeepOne(path, markers, cfg, r)
  BY DEF KeepEach
<1> HIDE DEF e, X
<1>4. \A y : y \in ToSet(Bind(rows, e)) <=> \E r \in ToSet(rows) : y \in ToSet(e[r])
  BY <1>1, <1>2, BindRange
<1> QED BY <1>2, <1>3, <1>4 DEF X

LEMMA KeepTally ==
  ASSUME NEW path, NEW rows, IsList(rows), NEW m, NEW n, NEW cfg, NEW dfg, NEW S,
         \A r \in ToSet(rows) : Tally(KeepOne(path, m, cfg, r), S) <= Tally(KeepOne(path, n, dfg, r), S)
  PROVE  Tally(Keep(path, rows, m, cfg), S) <= Tally(Keep(path, rows, n, dfg), S)
<1> DEFINE X == ToSet(rows)
           e == KeepEach(path, m, cfg, X)
           f == KeepEach(path, n, dfg, X)
<1>1. rows \in Seq(X)
  BY DEF IsList
<1>2. PICK Y : Keep(path, rows, m, cfg) = Bind(rows, e) /\ Sends(e, X, Seq(Y))
  BY KeepIsBind
<1>3. PICK Z : Keep(path, rows, n, dfg) = Bind(rows, f) /\ Sends(f, X, Seq(Z))
  BY KeepIsBind
<1>4. Fewer(e, f, X, S)
  BY DEF Fewer, KeepEach
<1> DEFINE W == Y \cup Z
<1>5. Y \subseteq W /\ Z \subseteq W
  OBVIOUS
<1> HIDE DEF e, f, X, W
<1>6. Sends(e, X, Seq(W)) /\ Sends(f, X, Seq(W))
  <2>1. \A T : T \subseteq W => \A s \in Seq(T) : s \in Seq(W)
    OBVIOUS
  <2> QED BY <1>2, <1>3, <1>5, <2>1 DEF Sends
<1>7. Tally(Bind(rows, e), S) <= Tally(Bind(rows, f), S)
  BY <1>1, <1>4, <1>6, BindTally
<1> QED BY <1>2, <1>3, <1>7

(* The members of a bin, counted over any set that has the stream. *)
InBin(b, U, x) == {y \in U : Keyed(y) /\ Bin(b, y) = Bin(b, x)}

LEMMA MembersTally ==
  ASSUME NEW b, NEW s, IsList(s), NEW i \in DOMAIN s, NEW U, ToSet(s) \subseteq U
  PROVE  Cardinality(Members(b, s, i)) = Tally(s, InBin(b, U, s[i])) /\ Tally(s, InBin(b, U, s[i])) \in Nat
<1>1. \A j \in DOMAIN s : s[j] \in U
  BY DEF ToSet
<1>2. Members(b, s, i) = Where(s, InBin(b, U, s[i]))
  BY <1>1 DEF Members, Where, InBin
<1> QED BY <1>2, TallyType DEF Tally

(* Report by report no more: altogether no more. *)
LEMMA ReportTally ==
  ASSUME NEW cfg, NEW dfg, NEW files, NEW giles,
         \A i \in Items : WellFormed(files[i]) /\ WellFormed(giles[i]), NEW S,
         Tally(RunRows(cfg), S) <= Tally(RunRows(dfg), S),
         \A i \in Items : Tally(Alone(cfg, files, i), S) <= Tally(Alone(dfg, giles, i), S)
  PROVE  Tally(OneByOne(cfg, files), S) <= Tally(OneByOne(dfg, giles), S)
<1> DEFINE f == [i \in Items |-> Alone(cfg, files, i)]
           g == [i \in Items |-> Alone(dfg, giles, i)]
           n == Len(Worklist)
<1>1. OneByOne(cfg, files) = RunRows(cfg) \o FlattenSeq(f)
  BY OneByOneIsAlone
<1>2. OneByOne(dfg, giles) = RunRows(dfg) \o FlattenSeq(g)
  BY OneByOneIsAlone
<1>3. n \in Nat /\ Items = 1 .. n
  BY ItemsAre
<1>4. f = [i \in 1 .. n |-> f[i]] /\ g = [i \in 1 .. n |-> g[i]]
  BY <1>3
<1>5. \A i \in 1 .. n : IsList(f[i]) /\ IsList(g[i])
  BY <1>3, AloneIsList
<1>6. Fewer(f, g, 1 .. n, S)
  BY <1>3 DEF Fewer
<1>7. IsList(RunRows(cfg)) /\ IsList(RunRows(dfg))
  BY OneIsList, ListEmpty DEF RunRows
<1> HIDE DEF f, g, n
<1>8. IsList(FlattenSeq(f)) /\ IsList(FlattenSeq(g))
  BY <1>3, <1>4, <1>5, ListFlat
<1>9. Tally(FlattenSeq(f), S) <= Tally(FlattenSeq(g), S)
  BY <1>3, <1>4, <1>5, <1>6, FlatTally
<1>10. /\ Tally(RunRows(cfg) \o FlattenSeq(f), S) = Tally(RunRows(cfg), S) + Tally(FlattenSeq(f), S)
       /\ Tally(RunRows(dfg) \o FlattenSeq(g), S) = Tally(RunRows(dfg), S) + Tally(FlattenSeq(g), S)
  BY <1>7, <1>8, TallyConcat
<1>11. /\ Tally(RunRows(cfg), S) \in Nat /\ Tally(FlattenSeq(f), S) \in Nat
       /\ Tally(RunRows(dfg), S) \in Nat /\ Tally(FlattenSeq(g), S) \in Nat
  BY <1>7, <1>8, TallyType
<1> QED BY <1>1, <1>2, <1>9, <1>10, <1>11

----------------------------------------------------------------------------
(* One marker more. *)

(* What is said of one marker *)
RowsOf(m) ==
    [k \in DOMAIN Complaints(m) |->
        [rule |-> Complaints(m)[k], message |-> "marker", severity |-> "warning", line |-> m.line]]

LEMMA RowsAreList ==
  ASSUME NEW m, IsFiniteSet(m.tokens) PROVE IsList(RowsOf(m))
<1> DEFINE com == Complaints(m)
           g == [k \in DOMAIN com |-> [rule |-> com[k], message |-> "marker", severity |-> "warning", line |-> m.line]]
<1>1. IsList(com)
  BY ComplaintsAreList
<1>2. RowsOf(m) = g /\ g = [k \in DOMAIN com |-> g[k]]
  BY DEF RowsOf
<1> HIDE DEF com, g
<1>3. DOMAIN com = 1 .. Len(com) /\ Len(com) \in Nat
  BY <1>1, ListDomain
<1> QED BY <1>2, <1>3, ListOf

Extra(line, t) == [line |-> line, scope |-> "line", tokens |-> {t}]
WithExtra(c, line, t) == [c EXCEPT !.markers = Append(@, Extra(line, t))]

LEMMA NothingSaid ==
  ASSUME NEW line, NEW t, Known(t) PROVE RowsOf(Extra(line, t)) = << >> /\ IsFiniteSet(Extra(line, t).tokens)
<1> DEFINE m == Extra(line, t)
           typos == {u \in m.tokens : ~ Known(u)}
<1>1. m.tokens = {t} /\ m.scope = "line"
  BY DEF Extra
<1> HIDE DEF m
<1>2. typos = {}
  <2> HIDE DEF Known
  <2> QED BY <1>1
<1>3. Cardinality(typos) = 0
  BY <1>2, FS_EmptySet
<1>4. Complaints(m) = [n \in 1 .. Cardinality(typos) |-> <<"suppression", "unknown-rule">>]
  BY <1>1 DEF Complaints
<1>5. 1 .. 0 = {}
  OBVIOUS
<1>6. DOMAIN Complaints(m) = {}
  <2> HIDE DEF typos
  <2> QED BY <1>3, <1>4, <1>5
<1>7. DOMAIN RowsOf(m) = {}
  BY <1>6 DEF RowsOf
<1>8. RowsOf(m) = [k \in {} |-> k]
  BY <1>6, <1>7 DEF RowsOf
<1>9. << >> = [k \in {} |-> k]
  OBVIOUS
<1>10. IsFiniteSet({t})
  BY FS_Singleton
<1> QED BY <1>1, <1>8, <1>9, <1>10 DEF m

LEMMA ExtraIs ==
  ASSUME NEW c, WellFormed(c), NEW line, NEW t
  PROVE  WithExtra(c, line, t)
           = [kind |-> c.kind, findings |-> c.findings, markers |-> Append(c.markers, Extra(line, t))]
<1>1. c = [kind |-> c.kind, findings |-> c.findings, markers |-> c.markers]
  BY DEF WellFormed
<1> QED BY <1>1 DEF WithExtra

LEMMA MarkedRows ==
  ASSUME NEW c, WellFormed(c), NEW line, NEW t, Known(t), NEW d,
         d = [kind |-> c.kind, findings |-> c.findings, markers |-> Append(c.markers, Extra(line, t))]
  PROVE  /\ WellFormed(d) /\ MarkerRows(d) = MarkerRows(c)
         /\ d.kind = c.kind /\ d.findings = c.findings /\ d.markers = Append(c.markers, Extra(line, t))
<1> DEFINE m == Extra(line, t)
           ms == c.markers
           M == ToSet(ms) \cup {m}
           R == [x \in M |-> RowsOf(x)]
           Y == UNION {ToSet(RowsOf(x)) : x \in M}
<1>1. d.kind = c.kind /\ d.findings = c.findings /\ d.markers = Append(ms, m)
      /\ d = [kind |-> d.kind, findings |-> d.findings, markers |-> d.markers]
  OBVIOUS
<1>2. IsList(c.findings) /\ IsList(ms) /\ c.kind \in Kinds \ {"harvestPanics"}
      /\ \A x \in ToSet(ms) : IsFiniteSet(x.tokens)
  BY DEF WellFormed
<1>3. RowsOf(m) = << >> /\ IsFiniteSet(m.tokens)
  BY NothingSaid
<1>4. ToSet(ms) \subseteq M /\ m \in M /\ \A x \in M : IsFiniteSet(x.tokens) /\ R[x] = RowsOf(x)
  BY <1>2, <1>3
<1>5. \A x \in M : ToSet(RowsOf(x)) \subseteq Y
  OBVIOUS
<1> HIDE DEF M, R, Y, m, ms
<1>6. ms \in Seq(M) /\ Append(ms, m) \in Seq(M)
  BY <1>2, <1>4, ListIn, AppendProperties
<1>7. Sends(R, M, Seq(Y))
  BY <1>4, <1>5, RowsAreList, ListIn DEF Sends
<1>8. \A x : x.markers \in Seq(M) => MarkerRows(x) = Bind(x.markers, R)
  <2> SUFFICES ASSUME NEW x, x.markers \in Seq(M) PROVE MarkerRows(x) = Bind(x.markers, R)
    OBVIOUS
  <2> DEFINE u == x.markers
  <2>1. \A n \in DOMAIN u : R[u[n]] = RowsOf(u[n])
    BY <1>4, LenProperties
  <2>2. [n \in DOMAIN u |-> R[u[n]]] = [n \in DOMAIN u |-> RowsOf(u[n])]
    BY <2>1
  <2>3. MarkerRows(x) = FlattenSeq([n \in DOMAIN u |-> RowsOf(u[n])])
    BY DEF MarkerRows, RowsOf
  <2> QED BY <2>2, <2>3 DEF Bind, Each
<1>9. Bind(Append(ms, m), R) = Bind(ms, R)
  <2>1. Bind(Append(ms, m), R) = Bind(ms, R) \o R[m]
    BY <1>4, <1>6, <1>7, BindAppend
  <2>2. Bind(ms, R) \o << >> = Bind(ms, R)
    <3>1. Bind(ms, R) \in Seq(Y)
      BY <1>6, <1>7, BindType
    <3> QED BY <3>1, ConcatEmptySeq
  <2> QED BY <1>3, <1>4, <2>1, <2>2
<1>10. MarkerRows(d) = MarkerRows(c)
  BY <1>1, <1>6, <1>8, <1>9 DEF ms
<1>11. WellFormed(d)
  <2>1. IsList(d.markers)
    BY <1>1, <1>6, ListIn
  <2>2. ToSet(d.markers) \subseteq M
    <3>1. ToSet(Append(ms, m)) = ToSet(ms) \cup {m}
      BY <1>4, <1>6, RangeAppend
    <3> QED BY <1>1, <1>4, <3>1
  <2> QED BY <1>1, <1>2, <1>4, <2>1, <2>2 DEF WellFormed
<1> QED BY <1>1, <1>10, <1>11 DEF ms, m

LEMMA MarksMore ==
  ASSUME NEW X, NEW ms \in Seq(X), NEW m \in X, NEW path, NEW cfg, NEW r, NEW S
  PROVE  Tally(KeepOne(path, Append(ms, m), cfg, r), S) <= Tally(KeepOne(path, ms, cfg, r), S)
<1>1. ToSet(Append(ms, m)) = ToSet(ms) \cup {m}
  BY RangeAppend
<1>2. Marked(ms, r.line, r.rule) => Marked(Append(ms, m), r.line, r.rule)
  <2> HIDE DEF Suppresses
  <2> QED BY <1>1 DEF Marked
<1>3. KeepOne(path, Append(ms, m), cfg, r) \in {<< >>, KeepOne(path, ms, cfg, r)}
  <2> HIDE DEF Marked, Resolve, Suppresses, Finding
  <2> QED BY <1>2 DEF KeepOne
<1>4. Tally(KeepOne(path, ms, cfg, r), S) \in Nat
  <2>1. \A x : IsList(<<x>>)
    BY OneIsList
  <2>2. IsList(KeepOne(path, ms, cfg, r))
    BY <2>1, ListEmpty DEF KeepOne
  <2> QED BY <2>2, TallyType
<1> HIDE DEF KeepOne
<1> QED BY <1>3, <1>4, TallyEmpty

LEMMA MarkedFileSaysLess ==
  ASSUME NEW cfg, NEW files, NEW giles, NEW line, NEW t, Known(t), NEW S,
         \A i \in Items : /\ WellFormed(files[i])
                          /\ giles[i] = WithExtra(files[i], line, t)
  PROVE  \A i \in Items : /\ WellFormed(giles[i])
                          /\ Tally(Alone(cfg, giles, i), S) <= Tally(Alone(cfg, files, i), S)
<1>1. ASSUME NEW i \in Items
      PROVE  /\ WellFormed(giles[i]) /\ MarkerRows(giles[i]) = MarkerRows(files[i])
             /\ giles[i].kind = files[i].kind /\ giles[i].findings = files[i].findings
             /\ giles[i].markers = Append(files[i].markers, Extra(line, t))
  <2> DEFINE c == files[i]
             d == giles[i]
  <2>1. WellFormed(c) /\ d = WithExtra(c, line, t)
    OBVIOUS
  <2> HIDE DEF c, d
  <2>4. /\ WellFormed(d) /\ MarkerRows(d) = MarkerRows(c)
        /\ d.kind = c.kind /\ d.findings = c.findings /\ d.markers = Append(c.markers, Extra(line, t))
    BY <2>1, ExtraIs, MarkedRows
  <2> QED BY <2>4 DEF c, d
<1>2. KnownOf(giles) = KnownOf(files)
  BY <1>1 DEF KnownOf
<1>3. ASSUME NEW i \in Items PROVE Tally(Alone(cfg, giles, i), S) <= Tally(Alone(cfg, files, i), S)
  <2> DEFINE c == files[i]
             d == giles[i]
             path == Worklist[i].path
             known == KnownOf(files)
             rows == Raw(c, known) \o MarkerRows(c)
             ms == c.markers
             M == ToSet(ms) \cup {Extra(line, t)}
  <2>1. WellFormed(c) /\ IsList(c.findings) /\ IsList(ms)
    BY DEF WellFormed
  <2>2. IsList(rows)
    <3>1. IsList(Raw(c, known)) /\ IsList(MarkerRows(c))
      BY <2>1, ListThose, MarkerRowsAreList DEF Raw
    <3> QED BY <3>1, ListConcat
  <2>3. Analysed(path, c, known, cfg) = Keep(path, rows, ms, cfg)
    BY DEF Analysed
  <2>4. Analysed(path, d, known, cfg) = Keep(path, rows, Append(ms, Extra(line, t)), cfg)
    <3>1. Raw(d, known) = Raw(c, known) /\ MarkerRows(d) = MarkerRows(c) /\ d.markers = Append(ms, Extra(line, t))
      BY <1>1 DEF Raw
    <3> HIDE DEF c, d
    <3> QED BY <3>1 DEF Analysed
  <2>5. ToSet(ms) \subseteq M /\ Extra(line, t) \in M
    OBVIOUS
  <2> HIDE DEF rows, M
  <2>6. ms \in Seq(M)
    BY <2>1, <2>5, ListIn
  <2>7. Tally(Analysed(path, d, known, cfg), S) <= Tally(Analysed(path, c, known, cfg), S)
    <3>1. \A r \in ToSet(rows) : Tally(KeepOne(path, Append(ms, Extra(line, t)), cfg, r), S)
                                   <= Tally(KeepOne(path, ms, cfg, r), S)
      BY <2>5, <2>6, MarksMore
    <3> HIDE DEF ms, path, known, c, d
    <3> QED BY <2>2, <2>3, <2>4, <3>1, KeepTally
  <2>8. IsList(Alone(cfg, files, i)) /\ Tally(Alone(cfg, files, i), S) \in Nat
    BY AloneIsList, TallyType
  <2>9. CASE ~ (Worklist[i].analyze /\ c.kind = "parsed")
    <3>1. Alone(cfg, giles, i) = Alone(cfg, files, i)
      BY <1>1, <2>9 DEF Alone
    <3> QED BY <2>8, <3>1
  <2>10. CASE Worklist[i].analyze /\ c.kind = "parsed"
    <3>1. Alone(cfg, files, i) = Analysed(path, c, known, cfg)
      BY <2>10 DEF Alone
    <3>2. Alone(cfg, giles, i) = Analysed(path, d, known, cfg)
      BY <1>1, <1>2, <2>10 DEF Alone
    <3> HIDE DEF path, c, d, known
    <3> QED BY <2>7, <3>1, <3>2
  <2> QED BY <2>9, <2>10
<1> QED BY <1>1, <1>3

(* Fewer in every bin: nothing surfaces that did not, and no more of it. *)
LEMMA FewerShowsFewer ==
  ASSUME NEW b, IsBaseline(b), NEW s, IsList(s), NEW u, IsList(u),
         \A S : Tally(u, S) <= Tally(s, S), NEW f \in ToSet(Filtered(b, u))
  PROVE  Tally(Filtered(b, u), {f}) <= Tally(Filtered(b, s), {f})
<1> DEFINE U == ToSet(s) \cup ToSet(u)
           S == InBin(b, U, f)
<1>0. IsList(b) /\ \A x \in ToSet(b) : x.count \in Nat
  BY DEF IsBaseline
<1>1. PICK k \in DOMAIN u : u[k] = f /\ (Keyed(u[k]) => ~ Silenced(b, u, k))
  BY ShownIs
<1>2. ToSet(s) \subseteq U /\ ToSet(u) \subseteq U
  OBVIOUS
<1> HIDE DEF U
<1>3. ASSUME NEW i \in DOMAIN s, s[i] = f, Keyed(f), Silenced(b, s, i) PROVE FALSE
  <2>1. Claimed(b, f) /\ Cardinality(Members(b, s, i)) <= Claim(b, f).count
    BY <1>0, <1>3, SilencedIs
  <2>2. Cardinality(Members(b, s, i)) = Tally(s, S) /\ Tally(s, S) \in Nat
    BY <1>2, <1>3, MembersTally
  <2>3. Cardinality(Members(b, u, k)) = Tally(u, S) /\ Tally(u, S) \in Nat
    BY <1>1, <1>2, MembersTally
  <2>4. ~ (Cardinality(Members(b, u, k)) <= Claim(b, f).count)
    BY <1>0, <1>1, <1>3, <2>1, SilencedIs
  <2>5. Tally(u, S) <= Tally(s, S)
    OBVIOUS
  <2> HIDE DEF S
  <2>6. Claim(b, f).count \in Nat
    BY <1>0, <2>1, ClaimIs
  <2> QED BY <2>1, <2>2, <2>3, <2>4, <2>5, <2>6
<1>4. Surfaces(b, s, {f}) = Where(s, {f})
  BY <1>3 DEF Surfaces, Where
<1>5. Surfaces(b, u, {f}) \in SUBSET Where(u, {f})
  BY DEF Surfaces, Where
<1>6. Cardinality(Surfaces(b, u, {f})) <= Tally(u, {f}) /\ Cardinality(Surfaces(b, u, {f})) \in Nat
  BY <1>5, TallyType, FS_Subset, FS_CardinalityType DEF Tally
<1>7. Tally(u, {f}) <= Tally(s, {f}) /\ Tally(u, {f}) \in Nat /\ Tally(s, {f}) \in Nat
  BY TallyType
<1>8. /\ Tally(Filtered(b, u), {f}) = Cardinality(Surfaces(b, u, {f}))
      /\ Tally(Filtered(b, s), {f}) = Tally(s, {f})
  BY <1>4, ShownTally DEF Tally
<1> QED BY <1>6, <1>7, <1>8

LEMMA ExtraQuietens ==
  ASSUME StagesInv, pc = "done", NEW line, NEW t, Known(t)
  PROVE  /\ IsList(OneByOne(config, WithMarker(line, t)))
         /\ \A S : Tally(OneByOne(config, WithMarker(line, t)), S) <= Tally(findings, S)
<1> DEFINE giles == WithMarker(line, t)
<1>1. \A i \in Items : WellFormed(content[i])
  BY DoneIs
<1>2. \A i \in Items : giles[i] = WithExtra(content[i], line, t)
  BY DEF WithMarker, WithExtra, Extra
<1> HIDE DEF giles
<1>3. ASSUME NEW S
      PROVE  \A i \in Items : WellFormed(giles[i]) /\ Tally(Alone(config, giles, i), S) <= Tally(Alone(config, content, i), S)
  BY <1>1, <1>2, MarkedFileSaysLess
<1>4. \A i \in Items : WellFormed(giles[i])
  BY <1>3
<1>5. ASSUME NEW S PROVE Tally(OneByOne(config, giles), S) <= Tally(OneByOne(config, content), S)
  <2>1. IsList(RunRows(config))
    BY OneIsList, ListEmpty DEF RunRows
  <2>2. Tally(RunRows(config), S) <= Tally(RunRows(config), S)
    BY <2>1, TallyType
  <2> QED BY <1>1, <1>3, <2>2, ReportTally
<1>6. findings = OneByOne(config, content)
  BY GatheredIsOneByOne
<1>7. IsList(OneByOne(config, giles))
  BY <1>4, OneByOneIs
<1> QED BY <1>5, <1>6, <1>7 DEF giles

(* A marker added to any line of the files of a run never makes check show *)
(* a finding it did not, nor one more often: bins only shrink, whatever    *)
(* the baseline (filter_suppressed, Baseline::filter).                     *)
THEOREM MarkersOnlyQuieten == Spec => []MarkingIsQuieter
<1>1. ASSUME PipelineInv PROVE MarkingIsQuieter
  <2> SUFFICES ASSUME pc = "done", NEW line, NEW t \in Tokens,
                      NEW f \in ToSet(Filtered(baseline, OneByOne(config, WithMarker(line, t))))
               PROVE  Times(Filtered(baseline, OneByOne(config, WithMarker(line, t))), f) <= Times(Shown, f)
    BY DEF MarkingIsQuieter
  <2>1. Known(t)
    BY TokensAssumption
  <2> DEFINE u == OneByOne(config, WithMarker(line, t))
  <2>2. IsList(u) /\ \A S : Tally(u, S) <= Tally(findings, S)
    BY <1>1, <2>1, ExtraQuietens DEF PipelineInv
  <2>3. IsList(findings) /\ IsBaseline(baseline)
    BY <1>1, DoneIs DEF PipelineInv
  <2>4. \A x : Times(x, f) = Tally(x, {f})
    BY DEF Times, Tally, Where
  <2> HIDE DEF u
  <2>5. Tally(Filtered(baseline, u), {f}) <= Tally(Filtered(baseline, findings), {f})
    BY <2>2, <2>3, FewerShowsFewer DEF u
  <2> QED BY <2>4, <2>5 DEF Shown, u
<1> QED BY <1>1, PipelineIs, PTL

----------------------------------------------------------------------------
(* A stricter profile. *)

LEMMA TableRises ==
  ASSUME NEW profile, NEW p \in Stricter(profile), NEW rule
  PROVE  /\ Table(profile, rule) # "off" => Table(p, rule) # "off"
         /\ Table(profile, rule) = "error" => Table(p, rule) = "error"
<1>1. \/ profile = "lenient" /\ p \in {"balanced", "strict"}
      \/ profile = "balanced" /\ p = "strict"
  BY DEF Stricter
<1>2. /\ OffIn["balanced"] = NeverOn /\ OffIn["strict"] = NeverOn /\ NeverOn \subseteq OffIn["lenient"]
      /\ InfoIn["strict"] = {}
  BY DEF OffIn, InfoIn
<1>3. ASSUME rule \in ErrorIn["lenient"]
      PROVE  rule \in ErrorIn["balanced"] /\ rule \notin InfoIn["balanced"]
  BY <1>3 DEF ErrorIn, InfoIn, AlwaysErrors, Ids
<1>4. ASSUME rule \in ErrorIn["balanced"] PROVE rule \in ErrorIn["strict"]
  <2>1. rule \in {<<"call", "undefined-method">>, <<"call", "wrong-arity">>, <<"assert", "type-mismatch">>,
                  <<"flow", "always-raises">>, <<"call", "argument-type-mismatch">>,
                  <<"call", "possible-nil-receiver">>, <<"call", "raise-non-exception">>,
                  <<"def", "method-visibility-mismatch">>}
    BY <1>4 DEF ErrorIn, AlwaysErrors, Ids
  <2>2. rule \in CanonicalRules
    BY <2>1 DEF CanonicalRules, ImplementedRules, Ids
  <2>3. rule \in Catalogued
    BY <2>1, <2>2 DEF Catalogued
  <2>4. rule \notin NeverOn \cup MarkerRules \cup {<<"flow", "unreachable-clause">>}
    BY <2>1 DEF NeverOn, MarkerRules, Ids
  <2> QED BY <2>3, <2>4 DEF ErrorIn
<1>5. /\ OffIn["lenient"] \cap (InfoIn["lenient"] \cup ErrorIn["lenient"]) = {}
      /\ InfoIn["lenient"] \cap ErrorIn["lenient"] = {}
  <2>1. \A r \in OffIn["lenient"] : r[1] \in {"call", "static", "def"} /\ r \notin AlwaysErrors
    BY DEF OffIn, NeverOn, AlwaysErrors, Ids
  <2>2. \A r \in InfoIn["lenient"] : r[1] \in {"dump", "flow"}
    BY DEF InfoIn
  <2>3. \A r \in AlwaysErrors : r[1] \in {"call", "assert"}
    BY DEF AlwaysErrors, Ids
  <2>4. ErrorIn["lenient"] = AlwaysErrors
    BY DEF ErrorIn
  <2> QED BY <2>1, <2>2, <2>3, <2>4
<1>6. /\ OffIn["balanced"] \cap (InfoIn["balanced"] \cup ErrorIn["balanced"]) = {}
      /\ InfoIn["balanced"] \cap ErrorIn["balanced"] = {}
  BY DEF OffIn, InfoIn, ErrorIn, NeverOn, AlwaysErrors, Ids
<1>7. /\ OffIn["strict"] \cap (InfoIn["strict"] \cup ErrorIn["strict"]) = {}
      /\ InfoIn["strict"] \cap ErrorIn["strict"] = {}
  BY DEF OffIn, InfoIn, ErrorIn
<1>8. \A q \in {"lenient", "balanced", "strict"} :
        Table(q, rule) = IF rule \in OffIn[q] THEN "off"
                         ELSE IF rule \in InfoIn[q] THEN "info"
                         ELSE IF rule \in ErrorIn[q] THEN "error" ELSE "warning"
  BY <1>5, <1>6, <1>7 DEF Table
<1> QED BY <1>1, <1>2, <1>3, <1>4, <1>8

(* What is not off stays so, an error stays an error, and all else is as   *)
(* it was.                                                                 *)
Rises(cfg, dfg) ==
    /\ dfg.disable = cfg.disable /\ dfg.preEval = cfg.preEval
    /\ \A rule, authored : /\ Resolve(rule, authored, cfg) # "off" => Resolve(rule, authored, dfg) # "off"
                           /\ Resolve(rule, authored, cfg) = "error" => Resolve(rule, authored, dfg) = "error"

LEMMA ProfileRises ==
  ASSUME NEW cfg \in Configs, NEW p \in Stricter(cfg.profile)
  PROVE  Rises(cfg, [cfg EXCEPT !.profile = p])
<1> DEFINE dfg == [cfg EXCEPT !.profile = p]
<1>1. cfg = [disable |-> cfg.disable, overrides |-> cfg.overrides, features |-> cfg.features,
             profile |-> cfg.profile, preEval |-> cfg.preEval]
  BY ConfigsAssumption
<1>2. dfg = [disable |-> cfg.disable, overrides |-> cfg.overrides, features |-> cfg.features,
             profile |-> p, preEval |-> cfg.preEval]
  BY <1>1
<1> HIDE DEF dfg
<1>3. /\ dfg.disable = cfg.disable /\ dfg.preEval = cfg.preEval /\ dfg.profile = p
      /\ dfg.overrides = cfg.overrides /\ dfg.features = cfg.features
  BY <1>2
<1>4. \A rule : /\ Table(cfg.profile, rule) # "off" => Table(p, rule) # "off"
                /\ Table(cfg.profile, rule) = "error" => Table(p, rule) = "error"
  BY TableRises
<1>5. \A rule, authored :
        /\ Resolve(rule, authored, cfg) # "off" => Resolve(rule, authored, dfg) # "off"
        /\ Resolve(rule, authored, cfg) = "error" => Resolve(rule, authored, dfg) = "error"
  <2> HIDE DEF Table, Catalogued
  <2> QED BY <1>3, <1>4 DEF Resolve
<1> QED BY <1>3, <1>5 DEF Rises, dfg

(* The same finding, at least as severe *)
Alike(f, g) == f.file = g.file /\ f.rule = g.rule /\ f.message = g.message
Worse(f, g) == Alike(f, g) /\ (f.severity = "error" => g.severity = "error")

LEMMA AlikeIs ==
  ASSUME NEW b, NEW f, NEW g, Alike(f, g)
  PROVE  /\ Keyed(f) <=> Keyed(g)
         /\ Claimed(b, f) <=> Claimed(b, g)
         /\ Claim(b, f) = Claim(b, g) /\ Bin(b, f) = Bin(b, g)
<1>1. f.file = g.file /\ f.rule = g.rule /\ f.message = g.message
  BY DEF Alike
<1>2. Keyed(f) <=> Keyed(g)
  BY <1>1 DEF Keyed
<1>3. Claimants(b, f) = Claimants(b, g)
  BY <1>1, <1>2 DEF Claimants
<1>4. (Claimed(b, f) <=> Claimed(b, g)) /\ Claim(b, f) = Claim(b, g)
  BY <1>3 DEF Claimed, Claim
<1>5. Bin(b, f) = Bin(b, g)
  BY <1>1, <1>4, Zenon DEF Bin
<1> QED BY <1>2, <1>4, <1>5

(* Of each finding one at least as severe, and of each bin at least as     *)
(* many as long as everything said is counted.                             *)
Outdoes(b, s, u) ==
    /\ IsList(s) /\ IsList(u)
    /\ \A f \in ToSet(s) : \E g \in ToSet(u) : Worse(f, g)
    /\ \A U, x : ToSet(u) \subseteq U => Tally(s, InBin(b, U, x)) <= Tally(u, InBin(b, U, x))

LEMMA OutdoesItself == ASSUME NEW b, NEW s, IsList(s) PROVE Outdoes(b, s, s)
<1>1. \A f : Worse(f, f)
  BY DEF Worse, Alike
<1>2. \A S : Tally(s, S) <= Tally(s, S)
  BY TallyType
<1> QED BY <1>1, <1>2 DEF Outdoes

LEMMA NothingIsOutdone == ASSUME NEW b, NEW u, IsList(u) PROVE Outdoes(b, << >>, u)
<1>1. \A S : Tally(<< >>, S) = 0 /\ 0 <= Tally(u, S)
  BY TallyEmpty, TallyType
<1> QED BY <1>1, RangeEmpty, ListEmpty DEF Outdoes

LEMMA OneOutdoesOne ==
  ASSUME NEW b, NEW f, NEW g, Worse(f, g)
  PROVE  Outdoes(b, <<f>>, <<g>>)
<1>1. /\ IsList(<<f>>) /\ ToSet(<<f>>) = {f} /\ \A S : Tally(<<f>>, S) = IF f \in S THEN 1 ELSE 0
      /\ IsList(<<g>>) /\ ToSet(<<g>>) = {g} /\ \A S : Tally(<<g>>, S) = IF g \in S THEN 1 ELSE 0
  BY RangeOne, OneTally
<1>2. \A U, x : g \in U /\ f \in InBin(b, U, x) => g \in InBin(b, U, x)
  BY AlikeIs DEF Worse, InBin
<1> DEFINE o == <<f>>
           q == <<g>>
<1> HIDE DEF o, q
<1>3. \A U, x : ToSet(q) \subseteq U => Tally(o, InBin(b, U, x)) <= Tally(q, InBin(b, U, x))
  <2> SUFFICES ASSUME NEW U, NEW x, ToSet(q) \subseteq U PROVE Tally(o, InBin(b, U, x)) <= Tally(q, InBin(b, U, x))
    OBVIOUS
  <2>1. g \in U
    BY <1>1 DEF q
  <2>2. Tally(o, InBin(b, U, x)) = IF f \in InBin(b, U, x) THEN 1 ELSE 0
    BY <1>1 DEF o
  <2>3. Tally(q, InBin(b, U, x)) = IF g \in InBin(b, U, x) THEN 1 ELSE 0
    BY <1>1 DEF q
  <2> QED BY <1>2, <2>1, <2>2, <2>3
<1>4. Outdoes(b, o, q)
  BY <1>1, <1>3 DEF Outdoes, o, q
<1> QED BY <1>4 DEF o, q

LEMMA KeepOneOutdoes ==
  ASSUME NEW b, NEW path, NEW m, NEW cfg, NEW dfg, Rises(cfg, dfg), NEW r
  PROVE  Outdoes(b, KeepOne(path, m, cfg, r), KeepOne(path, m, dfg, r))
<1> DEFINE x == Resolve(r.rule, r.severity, cfg)
           y == Resolve(r.rule, r.severity, dfg)
           lets == ~ Marked(m, r.line, r.rule) /\ ~ Suppresses(cfg.disable, r.rule)
           f == Finding(path, r.rule, r.message, x)
           g == Finding(path, r.rule, r.message, y)
<1>1. dfg.disable = cfg.disable /\ (x # "off" => y # "off") /\ (x = "error" => y = "error")
  <2> HIDE DEF Resolve
  <2> QED BY DEF Rises
<1>2. KeepOne(path, m, cfg, r) = IF lets /\ x # "off" THEN <<f>> ELSE << >>
  BY DEF KeepOne
<1>3. KeepOne(path, m, dfg, r) = IF lets /\ y # "off" THEN <<g>> ELSE << >>
  BY <1>1 DEF KeepOne
<1>4. Worse(f, g)
  <2> HIDE DEF x, y
  <2> QED BY <1>1 DEF Worse, Alike, Finding
<1> HIDE DEF x, y, lets, f, g
<1>5. IsList(<<g>>) /\ IsList(<< >>)
  BY OneIsList, ListEmpty
<1>6. Outdoes(b, <<f>>, <<g>>) /\ Outdoes(b, << >>, <<g>>) /\ Outdoes(b, << >>, << >>)
  BY <1>4, <1>5, OneOutdoesOne, NothingIsOutdone
<1> QED BY <1>1, <1>2, <1>3, <1>6

LEMMA KeepOutdoes ==
  ASSUME NEW b, NEW path, NEW rows, IsList(rows), NEW m, NEW cfg, NEW dfg, Rises(cfg, dfg)
  PROVE  Outdoes(b, Keep(path, rows, m, cfg), Keep(path, rows, m, dfg))
<1> DEFINE s == Keep(path, rows, m, cfg)
           u == Keep(path, rows, m, dfg)
           one(r) == KeepOne(path, m, cfg, r)
           two(r) == KeepOne(path, m, dfg, r)
<1>1. IsList(s) /\ IsList(u)
  BY KeptAreList
<1>2. \A r : Outdoes(b, one(r), two(r))
  BY KeepOneOutdoes
<1>3. /\ \A y : y \in ToSet(s) <=> \E r \in ToSet(rows) : y \in ToSet(one(r))
      /\ \A y : y \in ToSet(u) <=> \E r \in ToSet(rows) : y \in ToSet(two(r))
  BY KeepRange
<1> HIDE DEF one, two
<1>4. \A f \in ToSet(s) : \E g \in ToSet(u) : Worse(f, g)
  BY <1>2, <1>3 DEF Outdoes
<1>5. ASSUME NEW U, NEW x, ToSet(u) \subseteq U PROVE Tally(s, InBin(b, U, x)) <= Tally(u, InBin(b, U, x))
  <2>1. \A r \in ToSet(rows) : Tally(one(r), InBin(b, U, x)) <= Tally(two(r), InBin(b, U, x))
    BY <1>2, <1>3, <1>5 DEF Outdoes
  <2> QED BY <2>1, KeepTally DEF one, two
<1> HIDE DEF s, u
<1>6. Outdoes(b, s, u)
  BY <1>1, <1>4, <1>5 DEF Outdoes
<1> QED BY <1>6 DEF s, u

LEMMA AloneOutdoes ==
  ASSUME NEW b, NEW cfg, NEW dfg, Rises(cfg, dfg), NEW files, NEW i \in Items, WellFormed(files[i])
  PROVE  Outdoes(b, Alone(cfg, files, i), Alone(dfg, files, i))
<1> DEFINE c == files[i]
           path == Worklist[i].path
           known == KnownOf(files)
           rows == Raw(c, known) \o MarkerRows(c)
<1>1. CASE ~ (Worklist[i].analyze /\ c.kind = "parsed")
  <2>1. Alone(dfg, files, i) = Alone(cfg, files, i)
    BY <1>1 DEF Alone
  <2>2. Outdoes(b, Alone(cfg, files, i), Alone(cfg, files, i))
    BY AloneIsList, OutdoesItself
  <2> QED BY <2>1, <2>2
<1>2. CASE Worklist[i].analyze /\ c.kind = "parsed"
  <2>1. Alone(cfg, files, i) = Keep(path, rows, c.markers, cfg)
    BY <1>2 DEF Alone, Analysed
  <2>2. Alone(dfg, files, i) = Keep(path, rows, c.markers, dfg)
    BY <1>2 DEF Alone, Analysed
  <2>3. IsList(rows)
    <3>1. IsList(Raw(c, known)) /\ IsList(MarkerRows(c))
      BY ListThose, MarkerRowsAreList DEF Raw, WellFormed
    <3> QED BY <3>1, ListConcat
  <2> HIDE DEF rows, path, c
  <2> QED BY <2>1, <2>2, <2>3, KeepOutdoes
<1> QED BY <1>1, <1>2

LEMMA RunRowsOutdo ==
  ASSUME NEW b, NEW cfg, NEW dfg, Rises(cfg, dfg)
  PROVE  Outdoes(b, RunRows(cfg), RunRows(dfg))
<1> DEFINE x == Resolve(PreEval, "error", cfg)
           y == Resolve(PreEval, "error", dfg)
           lets == cfg.preEval /\ ~ DisablesPreEval(cfg.disable)
           f == Finding("config", PreEval, "missing", x)
           g == Finding("config", PreEval, "missing", y)
<1>1. /\ dfg.disable = cfg.disable /\ dfg.preEval = cfg.preEval
      /\ (x # "off" => y # "off") /\ (x = "error" => y = "error")
  <2> HIDE DEF Resolve, PreEval
  <2> QED BY DEF Rises
<1>2. RunRows(cfg) = IF lets /\ x # "off" THEN <<f>> ELSE << >>
  BY DEF RunRows
<1>3. RunRows(dfg) = IF lets /\ y # "off" THEN <<g>> ELSE << >>
  BY <1>1 DEF RunRows
<1>4. Worse(f, g)
  <2> HIDE DEF x, y
  <2> QED BY <1>1 DEF Worse, Alike, Finding
<1> HIDE DEF x, y, lets, f, g
<1>5. IsList(<<g>>) /\ IsList(<< >>)
  BY OneIsList, ListEmpty
<1>6. Outdoes(b, <<f>>, <<g>>) /\ Outdoes(b, << >>, <<g>>) /\ Outdoes(b, << >>, << >>)
  BY <1>4, <1>5, OneOutdoesOne, NothingIsOutdone
<1> QED BY <1>1, <1>2, <1>3, <1>6

LEMMA ReportOutdoes ==
  ASSUME NEW b, NEW cfg, NEW dfg, Rises(cfg, dfg), NEW files, \A i \in Items : WellFormed(files[i])
  PROVE  Outdoes(b, OneByOne(cfg, files), OneByOne(dfg, files))
<1> DEFINE s == OneByOne(cfg, files)
           u == OneByOne(dfg, files)
<1>1. Outdoes(b, RunRows(cfg), RunRows(dfg)) /\ \A i \in Items : Outdoes(b, Alone(cfg, files, i), Alone(dfg, files, i))
  BY RunRowsOutdo, AloneOutdoes
<1>2. /\ IsList(s)
      /\ \A y : y \in ToSet(s) <=> y \in ToSet(RunRows(cfg)) \/ \E i \in Items : y \in ToSet(Alone(cfg, files, i))
  BY OneByOneIs
<1>3. /\ IsList(u)
      /\ \A y : y \in ToSet(u) <=> y \in ToSet(RunRows(dfg)) \/ \E i \in Items : y \in ToSet(Alone(dfg, files, i))
  BY OneByOneIs
<1>4. ASSUME NEW f \in ToSet(s) PROVE \E g \in ToSet(u) : Worse(f, g)
  <2>1. CASE f \in ToSet(RunRows(cfg))
    <3>1. PICK g \in ToSet(RunRows(dfg)) : Worse(f, g)
      BY <1>1, <2>1 DEF Outdoes
    <3> QED BY <1>3, <3>1
  <2>2. CASE \E i \in Items : f \in ToSet(Alone(cfg, files, i))
    <3>1. PICK i \in Items : f \in ToSet(Alone(cfg, files, i))
      BY <2>2
    <3>2. PICK g \in ToSet(Alone(dfg, files, i)) : Worse(f, g)
      BY <1>1, <3>1 DEF Outdoes
    <3> QED BY <1>3, <3>2
  <2> QED BY <1>2, <2>1, <2>2
<1>5. ASSUME NEW U, NEW x, ToSet(u) \subseteq U PROVE Tally(s, InBin(b, U, x)) <= Tally(u, InBin(b, U, x))
  <2> DEFINE S == InBin(b, U, x)
  <2>1. ToSet(RunRows(dfg)) \subseteq U /\ \A i \in Items : ToSet(Alone(dfg, files, i)) \subseteq U
    BY <1>3, <1>5
  <2>2. Tally(RunRows(cfg), S) <= Tally(RunRows(dfg), S)
    BY <1>1, <2>1 DEF Outdoes
  <2>3. \A i \in Items : Tally(Alone(cfg, files, i), S) <= Tally(Alone(dfg, files, i), S)
    BY <1>1, <2>1 DEF Outdoes
  <2> HIDE DEF S
  <2>4. Tally(s, S) <= Tally(u, S)
    BY <2>2, <2>3, ReportTally
  <2> QED BY <2>4 DEF S
<1> HIDE DEF s, u
<1>6. Outdoes(b, s, u)
  BY <1>2, <1>3, <1>4, <1>5 DEF Outdoes
<1> QED BY <1>6 DEF s, u

(* What surfaces of a report has a like that surfaces of one that outdoes  *)
(* it: its bin is no smaller there.                                        *)
LEMMA OutdoneSurfaces ==
  ASSUME NEW b, IsBaseline(b), NEW s, NEW u, Outdoes(b, s, u), NEW f \in ToSet(Filtered(b, s))
  PROVE  \E g \in ToSet(Filtered(b, u)) : Worse(f, g)
<1> DEFINE U == ToSet(s) \cup ToSet(u)
           S == InBin(b, U, f)
<1>0. IsList(s) /\ IsList(u) /\ IsList(b) /\ \A x \in ToSet(b) : x.count \in Nat
  BY DEF Outdoes, IsBaseline
<1>1. PICK k \in DOMAIN s : s[k] = f /\ (Keyed(s[k]) => ~ Silenced(b, s, k))
  BY <1>0, ShownIs
<1>2. ToSet(s) \subseteq U /\ ToSet(u) \subseteq U
  OBVIOUS
<1> HIDE DEF U
<1>3. f \in ToSet(s)
  BY <1>1 DEF ToSet
<1>4. PICK g \in ToSet(u) : Worse(f, g)
  BY <1>3 DEF Outdoes
<1>5. PICK i \in DOMAIN u : u[i] = g
  BY <1>4 DEF ToSet
<1>6. /\ Keyed(f) <=> Keyed(g)
      /\ Claimed(b, f) <=> Claimed(b, g)
      /\ Claim(b, f) = Claim(b, g) /\ Bin(b, f) = Bin(b, g)
  BY <1>4, AlikeIs DEF Worse
<1>7. ASSUME Keyed(g), Silenced(b, u, i) PROVE FALSE
  <2>1. Claimed(b, f) /\ Cardinality(Members(b, u, i)) <= Claim(b, f).count
    BY <1>0, <1>5, <1>6, <1>7, SilencedIs
  <2>2. Cardinality(Members(b, u, i)) = Tally(u, S) /\ Tally(u, S) \in Nat
    <3>1. InBin(b, U, g) = S
      BY <1>6 DEF InBin
    <3> QED BY <1>0, <1>2, <1>5, <3>1, MembersTally
  <2>3. Cardinality(Members(b, s, k)) = Tally(s, S) /\ Tally(s, S) \in Nat
    BY <1>0, <1>1, <1>2, MembersTally
  <2>4. ~ (Cardinality(Members(b, s, k)) <= Claim(b, f).count)
    BY <1>0, <1>1, <1>6, <1>7, <2>1, SilencedIs
  <2>5. Tally(s, S) <= Tally(u, S)
    BY <1>2 DEF Outdoes
  <2>6. Claim(b, f).count \in Nat
    BY <1>0, <2>1, ClaimIs
  <2> HIDE DEF S
  <2> QED BY <2>1, <2>2, <2>3, <2>4, <2>5, <2>6
<1>8. g \in ToSet(Filtered(b, u))
  BY <1>0, <1>5, <1>7, FilteredIs
<1> QED BY <1>4, <1>8

(* A run that fails under a profile fails under every stricter one: the    *)
(* tables only rise, bins only grow, and a finding that raises the exit    *)
(* code keeps a like of it (severity.rs, Baseline::filter,                 *)
(* finding_fails_run).                                                     *)
THEOREM StricterFails == Spec => []StricterFailsToo
<1>1. ASSUME PipelineInv PROVE StricterFailsToo
  <2> SUFFICES ASSUME pc = "done", Fails(Shown), NEW p \in Stricter(config.profile)
               PROVE  Fails(Filtered(baseline, OneByOne([config EXCEPT !.profile = p], content)))
    BY DEF StricterFailsToo
  <2> DEFINE s == OneByOne(config, content)
             u == OneByOne([config EXCEPT !.profile = p], content)
  <2>1. IsBaseline(baseline) /\ config \in Configs /\ findings = s /\ \A i \in Items : WellFormed(content[i])
    BY <1>1, DoneIs, GatheredIsOneByOne DEF PipelineInv
  <2>2. Rises(config, [config EXCEPT !.profile = p])
    BY <2>1, ProfileRises
  <2>3. Outdoes(baseline, s, u)
    BY <2>1, <2>2, ReportOutdoes
  <2> HIDE DEF s, u
  <2>4. CASE ioError
    BY <2>4 DEF Fails
  <2>5. CASE \E n \in DOMAIN Shown : FailsRun(Shown[n])
    <3>1. PICK f \in ToSet(Filtered(baseline, s)) : FailsRun(f)
      BY <2>1, <2>5 DEF Shown, ToSet
    <3>2. PICK g \in ToSet(Filtered(baseline, u)) : Worse(f, g)
      BY <2>1, <2>3, OutdoneSurfaces
    <3>3. FailsRun(g)
      BY <3>1, <3>2 DEF FailsRun, Worse, Alike
    <3>4. Fails(Filtered(baseline, u))
      BY <3>2, <3>3 DEF Fails, ToSet
    <3> QED BY <3>4 DEF u
  <2> QED BY <2>4, <2>5 DEF Fails
<1> QED BY <1>1, PipelineIs, PTL
=================================================================================
