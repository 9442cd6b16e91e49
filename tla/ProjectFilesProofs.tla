--------------------------- MODULE ProjectFilesProofs ---------------------------
(***************************************************************************)
(* The files of the cross-file overlay against a full rebuild, for any      *)
(* walk, any links and any order of saves, deletions and notifications.     *)
(***************************************************************************)
EXTENDS ProjectFiles, SequenceTheorems, WellFoundedInduction, TLAPS

(* Induction over the naturals, for a set of them. *)
LEMMA SetInduction ==
  ASSUME NEW P \in SUBSET Nat, 0 \in P, \A n \in P : n + 1 \in P
  PROVE  P = Nat
<1> SUFFICES ASSUME P # Nat PROVE FALSE
  OBVIOUS
<1> DEFINE T == Nat \ P
           R == OpToRel(<, Nat)
<1>1. IsWellFoundedOn(R, Nat)
  BY NatLessThanWellFounded
<1>2. T \subseteq Nat /\ T # {}
  OBVIOUS
<1>3. PICK x \in T : \A y \in T : <<y, x>> \notin R
  <2> HIDE DEF T, R
  <2> QED BY <1>1, <1>2, WFMin
<1>4. x # 0 /\ x - 1 \in Nat /\ x \in Nat
  OBVIOUS
<1>5. <<x - 1, x>> \in R
  BY <1>4 DEF OpToRel
<1>6. x - 1 \in P
  BY <1>3, <1>4, <1>5
<1>7. x - 1 + 1 \in P
  BY <1>6
<1> QED
  BY <1>4, <1>7

(* A function defined by recursion over 0 .. n exists. *)
Iterates(g, n, first, step) ==
  \A i \in 0 .. n : g[i] = IF i = 0 THEN first ELSE step[i][g[i - 1]]

LEMMA Recursion ==
  ASSUME NEW T, NEW first \in T, NEW n \in Nat, NEW step \in [Nat -> [T -> T]]
  PROVE  \E g \in [0 .. n -> T] : Iterates(g, n, first, step)
<1> DEFINE Built(m, g) == Iterates(g, m, first, step)
           P == {m \in Nat : \E g \in [0 .. m -> T] : Built(m, g)}
<1>1. 0 \in P
  <2>1. [i \in 0 .. 0 |-> first] \in [0 .. 0 -> T] /\ Built(0, [i \in 0 .. 0 |-> first])
    BY DEF Iterates
  <2> QED
    BY <2>1
<1>2. ASSUME NEW m \in P PROVE m + 1 \in P
  <2>1. PICK g \in [0 .. m -> T] : Built(m, g)
    OBVIOUS
  <2> DEFINE h == [i \in 0 .. m + 1 |-> IF i = m + 1 THEN step[i][g[m]] ELSE g[i]]
  <2>2. m \in Nat /\ m + 1 - 1 = m
    OBVIOUS
  <2>3. step[m + 1][g[m]] \in T
    BY <2>2
  <2>4. h \in [0 .. m + 1 -> T]
    BY <2>2, <2>3
  <2>5. ASSUME NEW i \in 0 .. m + 1
        PROVE  h[i] = IF i = 0 THEN first ELSE step[i][h[i - 1]]
    <3>1. CASE i = m + 1
      BY <2>2, <3>1
    <3>2. CASE i \in 0 .. m
      <4>1. h[i] = g[i] /\ (i # 0 => i - 1 \in 0 .. m /\ h[i - 1] = g[i - 1])
        BY <2>2, <3>2
      <4> QED
        BY <2>1, <3>2, <4>1 DEF Iterates
    <3> QED
      BY <2>2, <3>1, <3>2
  <2>6. Built(m + 1, h)
    BY <2>5 DEF Iterates
  <2>7. m + 1 \in Nat
    BY <2>2
  <2> HIDE DEF Built, h
  <2> QED
    BY <2>4, <2>6, <2>7
<1>3. P = Nat
  <2> HIDE DEF Built
  <2>1. P \in SUBSET Nat
    OBVIOUS
  <2> HIDE DEF P
  <2> QED
    BY <1>1, <1>2, <2>1, SetInduction
<1> QED
  BY <1>3

----------------------------------------------------------------------------
(* What Kept gives. *)

(* It takes the elements one by one. *)
LEMMA KeptSteps ==
  ASSUME NEW X, NEW s \in Seq(X), NEW S
  PROVE  \E kept \in [0 .. Len(s) -> Seq(X)] :
           /\ Kept(s, S) = kept[Len(s)]
           /\ kept[0] = << >>
           /\ \A i \in 1 .. Len(s) :
                kept[i] = IF s[i] \in S THEN Append(kept[i - 1], s[i]) ELSE kept[i - 1]
<1> DEFINE n == Len(s)
           step == [i \in Nat |-> [t \in Seq(X) |->
                      IF i \in 1 .. n /\ s[i] \in S THEN Append(t, s[i]) ELSE t]]
           Is(g) == g = [i \in 0 .. n |->
                           IF i = 0 THEN << >>
                           ELSE IF s[i] \in S THEN Append(g[i - 1], s[i]) ELSE g[i - 1]]
           kept == CHOOSE g : Is(g)
<1>1. n \in Nat /\ << >> \in Seq(X) /\ \A i \in 1 .. n : s[i] \in X
  BY LenProperties, EmptySeq
<1>2. step \in [Nat -> [Seq(X) -> Seq(X)]]
  BY <1>1, AppendProperties
<1>3. PICK g \in [0 .. n -> Seq(X)] :
        \A i \in 0 .. n : g[i] = IF i = 0 THEN << >> ELSE step[i][g[i - 1]]
  <2> DEFINE T == Seq(X)
             first == << >>
  <2>1. n \in Nat /\ first \in T /\ step \in [Nat -> [T -> T]]
    BY <1>1, <1>2
  <2> HIDE DEF step, n, T, first
  <2>2. \E g \in [0 .. n -> T] : Iterates(g, n, first, step)
    BY <2>1, Recursion
  <2> QED BY <2>2 DEF T, first, Iterates
<1>4. Is(g)
  <2> SUFFICES ASSUME NEW i \in 0 .. n
               PROVE  g[i] = IF i = 0 THEN << >>
                             ELSE IF s[i] \in S THEN Append(g[i - 1], s[i]) ELSE g[i - 1]
    BY <1>3
  <2>1. CASE i = 0
    BY <1>3, <2>1
  <2>2. CASE i # 0
    <3>1. i \in 1 .. n /\ i - 1 \in 0 .. n /\ i \in Nat
      BY <1>1, <2>2
    <3>2. g[i - 1] \in Seq(X)
      BY <1>3, <3>1
    <3>3. step[i][g[i - 1]] = IF s[i] \in S THEN Append(g[i - 1], s[i]) ELSE g[i - 1]
      BY <3>1, <3>2
    <3> QED
      BY <1>3, <2>2, <3>3
  <2> QED
    BY <2>1, <2>2
<1>5. Is(kept)
  <2> HIDE DEF Is
  <2> QED BY <1>4
<1>6. Kept(s, S) = kept[n]
  BY DEF Kept
<1>7. /\ DOMAIN kept = 0 .. n
      /\ kept[0] = << >>
      /\ \A i \in 1 .. n :
            kept[i] = IF s[i] \in S THEN Append(kept[i - 1], s[i]) ELSE kept[i - 1]
  <2> HIDE DEF kept
  <2>1. DOMAIN kept = 0 .. n
    BY <1>5
  <2>2. \A i \in 0 .. n : kept[i] = IF i = 0 THEN << >>
                                    ELSE IF s[i] \in S THEN Append(kept[i - 1], s[i])
                                    ELSE kept[i - 1]
    <3> HIDE DEF n
    <3> QED BY <1>5
  <2>3. kept[0] = << >>
    BY <1>1, <2>2
  <2>4. \A i \in 1 .. n : i \in 0 .. n /\ i # 0
    BY <1>1
  <2> HIDE DEF Is, n
  <2> QED BY <2>1, <2>2, <2>3, <2>4
<1>8. \A i \in 0 .. n : kept[i] \in Seq(X)
  <2> HIDE DEF kept, n, Is
  <2> DEFINE P == {m \in Nat : m <= n => kept[m] \in Seq(X)}
  <2>1. 0 \in P
    BY <1>1, <1>7
  <2>2. ASSUME NEW m \in P PROVE m + 1 \in P
    <3> SUFFICES ASSUME m + 1 <= n PROVE kept[m + 1] \in Seq(X)
      OBVIOUS
    <3>1. m + 1 \in 1 .. n /\ m + 1 - 1 = m /\ m <= n
      BY <1>1
    <3>2. kept[m] \in Seq(X) /\ s[m + 1] \in X
      BY <1>1, <3>1
    <3>3. kept[m + 1] = IF s[m + 1] \in S THEN Append(kept[m], s[m + 1]) ELSE kept[m]
      BY <1>7, <3>1
    <3>4. Append(kept[m], s[m + 1]) \in Seq(X)
      BY <3>2, AppendProperties
    <3> QED BY <3>2, <3>3, <3>4
  <2>3. P \in SUBSET Nat
    OBVIOUS
  <2>4. P = Nat
    <3> HIDE DEF P
    <3> QED BY <2>1, <2>2, <2>3, SetInduction
  <2>5. \A i \in Nat : i <= n => kept[i] \in Seq(X)
    BY <2>4
  <2> HIDE DEF P
  <2>6. \A i \in 0 .. n : i \in Nat /\ i <= n
    BY <1>1
  <2> QED BY <2>5, <2>6
<1>9. kept \in [0 .. n -> Seq(X)]
  <2> HIDE DEF kept
  <2>1. kept = [i \in 0 .. n |-> kept[i]]
    BY <1>5
  <2> QED BY <1>8, <2>1
<1> HIDE DEF kept
<1> QED BY <1>6, <1>7, <1>9

(* Induction over sequences, an element at a time. *)
LEMMA AppendInduction ==
  ASSUME NEW X, NEW P \in SUBSET Seq(X), << >> \in P,
         \A s \in P, x \in X : Append(s, x) \in P
  PROVE  P = Seq(X)
<1> DEFINE N == {n \in Nat : \A s \in Seq(X) : Len(s) = n => s \in P}
<1>1. 0 \in N
  BY EmptySeq
<1>2. ASSUME NEW n \in N PROVE n + 1 \in N
  <2> SUFFICES ASSUME NEW s \in Seq(X), Len(s) = n + 1 PROVE s \in P
    OBVIOUS
  <2> DEFINE t == SubSeq(s, 1, n)
  <2>1. n \in Nat /\ \A i \in 1 .. n + 1 : s[i] \in X
    BY LenProperties
  <2>2. t \in Seq(X) /\ Len(t) = n /\ \A i \in 1 .. n : t[i] = s[i]
    <3>1. \A i \in 1 .. n : s[i] \in X /\ n \in Int /\ 1 \in Int
      BY <2>1
    <3>2. t \in Seq(X) /\ Len(t) = (IF 1 <= n THEN n - 1 + 1 ELSE 0)
          /\ \A i \in 1 .. n - 1 + 1 : t[i] = s[1 + i - 1]
      BY <2>1, <3>1, SubSeqProperties
    <3> HIDE DEF t
    <3> QED BY <2>1, <3>2
  <2> HIDE DEF t
  <2> DEFINE e == s[n + 1]
             a == Append(t, e)
  <2>3. e \in X
    BY <2>1
  <2>4. a \in Seq(X) /\ Len(a) = n + 1 /\ a[n + 1] = e /\ \A i \in 1 .. n : a[i] = t[i]
    <3> HIDE DEF e
    <3>1. a \in Seq(X) /\ Len(a) = Len(t) + 1
      BY <2>2, <2>3, AppendProperties
    <3>2. \A i \in 1 .. Len(t) : a[i] = t[i]
      BY <2>2, <2>3, AppendProperties
    <3>3. a[Len(t) + 1] = e
      BY <2>2, <2>3, AppendProperties
    <3> HIDE DEF a
    <3> QED BY <2>1, <2>2, <3>1, <3>2, <3>3
  <2>5. s = a
    <3> HIDE DEF a
    <3>1. ASSUME NEW i \in 1 .. n + 1 PROVE s[i] = a[i]
      <4>1. i = n + 1 \/ i \in 1 .. n
        BY <2>1
      <4> QED BY <2>2, <2>4, <4>1
    <3> QED BY <2>4, <3>1, SeqEqual
  <2>6. t \in P
    BY <2>2
  <2> QED BY <2>3, <2>5, <2>6
<1>3. N = Nat
  <2>1. N \in SUBSET Nat
    OBVIOUS
  <2> HIDE DEF N
  <2> QED BY <1>1, <1>2, <2>1, SetInduction
<1> QED BY <1>3, LenProperties

LEMMA KeptEmpty == \A S : Kept(<< >>, S) = << >>
<1> SUFFICES ASSUME NEW S PROVE Kept(<< >>, S) = << >>
  OBVIOUS
<1>1. << >> \in Seq({}) /\ Len(<< >>) = 0
  BY EmptySeq
<1>2. ASSUME NEW e \in Seq({}), Len(e) = 0 PROVE Kept(e, S) = << >>
  <2>1. PICK f : Kept(e, S) = f[Len(e)] /\ f[0] = << >>
    BY KeptSteps
  <2> QED BY <1>2, <2>1
<1> QED BY <1>1, <1>2

LEMMA KeptAppend ==
  ASSUME NEW X, NEW s \in Seq(X), NEW x \in X, NEW S
  PROVE  Kept(Append(s, x), S) = IF x \in S THEN Append(Kept(s, S), x) ELSE Kept(s, S)
<1> DEFINE t == Append(s, x)
           n == Len(s)
<1>1. /\ t \in Seq(X) /\ n \in Nat /\ Len(t) = n + 1 /\ t[n + 1] = x
      /\ \A i \in 1 .. n : t[i] = s[i]
  BY AppendProperties, LenProperties
<1>2. PICK f : /\ Kept(s, S) = f[n] /\ f[0] = << >>
               /\ \A i \in 1 .. n : f[i] = IF s[i] \in S THEN Append(f[i - 1], s[i]) ELSE f[i - 1]
  BY KeptSteps
<1>a. \A u \in Seq(X) : \E g : /\ Kept(u, S) = g[Len(u)] /\ g[0] = << >>
                              /\ \A i \in 1 .. Len(u) :
                                   g[i] = IF u[i] \in S THEN Append(g[i - 1], u[i]) ELSE g[i - 1]
  <2> SUFFICES ASSUME NEW u \in Seq(X)
               PROVE  \E g : /\ Kept(u, S) = g[Len(u)] /\ g[0] = << >>
                             /\ \A i \in 1 .. Len(u) :
                                  g[i] = IF u[i] \in S THEN Append(g[i - 1], u[i]) ELSE g[i - 1]
    OBVIOUS
  <2> HIDE DEF t, n
  <2> QED BY KeptSteps
<1> HIDE DEF t, n
<1>3. PICK g : /\ Kept(t, S) = g[Len(t)] /\ g[0] = << >>
               /\ \A i \in 1 .. Len(t) :
                    g[i] = IF t[i] \in S THEN Append(g[i - 1], t[i]) ELSE g[i - 1]
  BY <1>1, <1>a
<1> DEFINE P == {m \in Nat : m <= n => g[m] = f[m]}
<1>4. 0 \in P
  BY <1>1, <1>2, <1>3
<1>5. ASSUME NEW m \in P PROVE m + 1 \in P
  <2> SUFFICES ASSUME m + 1 <= n PROVE g[m + 1] = f[m + 1]
    OBVIOUS
  <2>1. m + 1 \in 1 .. n /\ m + 1 \in 1 .. Len(t) /\ m + 1 - 1 = m /\ m <= n
    BY <1>1
  <2>2. g[m] = f[m] /\ t[m + 1] = s[m + 1]
    BY <1>1, <2>1
  <2>3. f[m + 1] = IF s[m + 1] \in S THEN Append(f[m], s[m + 1]) ELSE f[m]
    BY <1>2, <2>1
  <2>4. g[m + 1] = IF t[m + 1] \in S THEN Append(g[m], t[m + 1]) ELSE g[m]
    BY <1>3, <2>1
  <2> QED BY <2>2, <2>3, <2>4
<1>6. P = Nat
  <2>1. P \in SUBSET Nat
    OBVIOUS
  <2> HIDE DEF P
  <2> QED BY <1>4, <1>5, <2>1, SetInduction
<1>7. g[n] = f[n]
  BY <1>1, <1>6
<1>8. n + 1 \in 1 .. Len(t) /\ n + 1 - 1 = n
  BY <1>1
<1>9. g[n + 1] = IF t[n + 1] \in S THEN Append(g[n], t[n + 1]) ELSE g[n]
  BY <1>1, <1>3, <1>8
<1>10. Kept(t, S) = IF x \in S THEN Append(Kept(s, S), x) ELSE Kept(s, S)
  BY <1>1, <1>2, <1>3, <1>7, <1>9
<1> QED BY <1>10 DEF t

Occurs(x, s) == \E i \in DOMAIN s : s[i] = x

LEMMA OccursAppend ==
  ASSUME NEW X, NEW s \in Seq(X), NEW x \in X
  PROVE  \A y : Occurs(y, Append(s, x)) <=> y = x \/ Occurs(y, s)
<1> DEFINE t == Append(s, x)
           n == Len(s)
<1>1. n \in Nat /\ DOMAIN s = 1 .. n
  BY LenProperties
<1>2. t \in Seq(X) /\ Len(t) = n + 1
  BY AppendProperties
<1>3. \A i \in 1 .. n : t[i] = s[i]
  BY AppendProperties
<1>4. t[n + 1] = x
  BY AppendProperties
<1>5. DOMAIN t = 1 .. n + 1
  <2> HIDE DEF t
  <2> QED BY <1>2, LenProperties
<1>6. 1 .. n + 1 = (1 .. n) \union {n + 1}
  BY <1>1
<1> HIDE DEF t, n
<1>7. \A y : Occurs(y, t) <=> y = x \/ Occurs(y, s)
  BY <1>1, <1>3, <1>4, <1>5, <1>6 DEF Occurs
<1> QED BY <1>7 DEF t

(* Kept keeps exactly the elements of the sequence that are in the set. *)
LEMMA KeptElements ==
  ASSUME NEW X, NEW S
  PROVE  \A s \in Seq(X) : /\ Kept(s, S) \in Seq(X)
                           /\ \A y : Occurs(y, Kept(s, S)) <=> y \in S /\ Occurs(y, s)
<1> DEFINE P == {s \in Seq(X) : /\ Kept(s, S) \in Seq(X)
                               /\ \A y : Occurs(y, Kept(s, S)) <=> y \in S /\ Occurs(y, s)}
<1>1. << >> \in P
  <2>1. << >> \in Seq(X) /\ DOMAIN << >> = {}
    BY EmptySeq
  <2> QED BY <2>1, KeptEmpty DEF Occurs
<1>2. ASSUME NEW s \in P, NEW x \in X PROVE Append(s, x) \in P
  <2>1. s \in Seq(X) /\ Append(s, x) \in Seq(X)
    BY AppendProperties
  <2> DEFINE k == Kept(s, S)
             t == Append(s, x)
             u == Kept(t, S)
  <2>2. k \in Seq(X) /\ \A y : Occurs(y, k) <=> y \in S /\ Occurs(y, s)
    OBVIOUS
  <2>3. u = IF x \in S THEN Append(k, x) ELSE k
    BY <2>1, KeptAppend
  <2>4. \A y : Occurs(y, t) <=> y = x \/ Occurs(y, s)
    BY <2>1, OccursAppend
  <2> HIDE DEF k, t, u
  <2>5. u \in Seq(X) /\ \A y : Occurs(y, u) <=> y \in S /\ Occurs(y, t)
    <3>1. CASE x \in S
      <4>1. u = Append(k, x)
        BY <2>3, <3>1
      <4>2. \A y : Occurs(y, u) <=> y = x \/ Occurs(y, k)
        BY <2>2, <4>1, OccursAppend
      <4>3. u \in Seq(X)
        BY <2>2, <4>1, AppendProperties
      <4> QED BY <2>2, <2>4, <3>1, <4>2, <4>3
    <3>2. CASE x \notin S
      BY <2>2, <2>3, <2>4, <3>2
    <3> QED BY <3>1, <3>2
  <2> QED BY <2>1, <2>5 DEF t, u
<1>3. P = Seq(X)
  <2>1. P \in SUBSET Seq(X)
    OBVIOUS
  <2> HIDE DEF P
  <2> QED BY <1>1, <1>2, <2>1, AppendInduction
<1> QED BY <1>3

LEMMA KeptTwice ==
  ASSUME NEW X, NEW A, NEW B
  PROVE  \A s \in Seq(X) : Kept(Kept(s, A), B) = Kept(s, A \intersect B)
<1> DEFINE P == {s \in Seq(X) : Kept(Kept(s, A), B) = Kept(s, A \intersect B)}
<1>1. << >> \in P
  BY EmptySeq, KeptEmpty
<1>2. ASSUME NEW s \in P, NEW x \in X PROVE Append(s, x) \in P
  <2>1. s \in Seq(X) /\ Append(s, x) \in Seq(X)
    BY AppendProperties
  <2> DEFINE k == Kept(s, A)
             t == Append(s, x)
             C == A \intersect B
  <2>2. k \in Seq(X) /\ Kept(k, B) = Kept(s, C)
    BY KeptElements
  <2>3. Kept(t, A) = IF x \in A THEN Append(k, x) ELSE k
    BY <2>1, KeptAppend
  <2>4. Kept(t, C) = IF x \in C THEN Append(Kept(s, C), x) ELSE Kept(s, C)
    BY <2>1, KeptAppend
  <2>a. \A u \in Seq(X) :
          Kept(Append(u, x), B) = IF x \in B THEN Append(Kept(u, B), x) ELSE Kept(u, B)
    <3> SUFFICES ASSUME NEW u \in Seq(X)
                 PROVE  Kept(Append(u, x), B) = IF x \in B THEN Append(Kept(u, B), x) ELSE Kept(u, B)
      OBVIOUS
    <3> HIDE DEF k, t, C
    <3> QED BY KeptAppend
  <2>5. Kept(Append(k, x), B) = IF x \in B THEN Append(Kept(k, B), x) ELSE Kept(k, B)
    <3> HIDE DEF k
    <3> QED BY <2>2, <2>a, Zenon
  <2>6. x \in C <=> x \in A /\ x \in B
    OBVIOUS
  <2> HIDE DEF k, t, C
  <2>7. Kept(Kept(t, A), B) = Kept(t, C)
    <3>1. CASE x \in A
      BY <2>2, <2>3, <2>4, <2>5, <2>6, <3>1
    <3>2. CASE x \notin A
      BY <2>2, <2>3, <2>4, <2>6, <3>2
    <3> QED BY <3>1, <3>2
  <2> QED BY <2>1, <2>7 DEF t, C
<1>3. P = Seq(X)
  <2>1. P \in SUBSET Seq(X)
    OBVIOUS
  <2> HIDE DEF P
  <2> QED BY <1>1, <1>2, <2>1, AppendInduction
<1> QED BY <1>3

(* Only the elements of the sequence matter. *)
LEMMA KeptSame ==
  ASSUME NEW X, NEW A, NEW B, \A x \in X : x \in A <=> x \in B
  PROVE  \A s \in Seq(X) : Kept(s, A) = Kept(s, B)
<1> DEFINE P == {s \in Seq(X) : Kept(s, A) = Kept(s, B)}
<1>1. << >> \in P
  BY EmptySeq, KeptEmpty
<1>2. ASSUME NEW s \in P, NEW x \in X PROVE Append(s, x) \in P
  <2>1. s \in Seq(X) /\ Append(s, x) \in Seq(X) /\ Kept(s, A) = Kept(s, B)
    BY AppendProperties
  <2>2. Kept(Append(s, x), A) = IF x \in A THEN Append(Kept(s, A), x) ELSE Kept(s, A)
    BY <2>1, KeptAppend
  <2>3. Kept(Append(s, x), B) = IF x \in B THEN Append(Kept(s, B), x) ELSE Kept(s, B)
    BY <2>1, KeptAppend
  <2>4. Kept(Append(s, x), A) = Kept(Append(s, x), B)
    <3> HIDE DEF P
    <3>1. CASE x \in A
      <4>1. x \in B
        BY <3>1
      <4> QED BY <2>1, <2>2, <2>3, <3>1, <4>1, Zenon
    <3>2. CASE x \notin A
      <4>1. x \notin B
        BY <3>2
      <4> QED BY <2>1, <2>2, <2>3, <3>2, <4>1, Zenon
    <3> QED BY <3>1, <3>2
  <2> QED BY <2>1, <2>4
<1>3. P = Seq(X)
  <2>1. P \in SUBSET Seq(X)
    OBVIOUS
  <2> HIDE DEF P
  <2> QED BY <1>1, <1>2, <2>1, AppendInduction
<1> QED BY <1>3

(* What a function makes of each element. *)
Sends(f, X, Y) == \A x \in X : f[x] \in Y

Each(s, f) == [i \in DOMAIN s |-> f[s[i]]]

LEMMA EachProperties ==
  ASSUME NEW X, NEW Y, NEW f, Sends(f, X, Y)
  PROVE  \A s \in Seq(X) : /\ Each(s, f) \in Seq(Y) /\ Len(Each(s, f)) = Len(s)
                           /\ DOMAIN Each(s, f) = DOMAIN s
<1> SUFFICES ASSUME NEW s \in Seq(X)
             PROVE  /\ Each(s, f) \in Seq(Y) /\ Len(Each(s, f)) = Len(s)
                    /\ DOMAIN Each(s, f) = DOMAIN s
  OBVIOUS
<1> DEFINE n == Len(s)
           e(i) == f[s[i]]
           t == [i \in 1 .. n |-> f[s[i]]]
<1>1. n \in Nat /\ DOMAIN s = 1 .. n /\ \A i \in 1 .. n : s[i] \in X
  BY LenProperties
<1>2. Each(s, f) = t
  BY <1>1 DEF Each
<1>3. t \in [1 .. n -> Y]
  BY <1>1 DEF Sends
<1>4. t \in Seq(Y) /\ DOMAIN t = 1 .. n
  BY <1>1, <1>3
<1>5. Len(t) = n
  BY <1>1, <1>4
<1> QED BY <1>1, <1>2, <1>4, <1>5

LEMMA EachAppend ==
  ASSUME NEW X, NEW Y, NEW f, Sends(f, X, Y), NEW s \in Seq(X), NEW x \in X
  PROVE  Each(Append(s, x), f) = Append(Each(s, f), f[x])
<1> DEFINE n == Len(s)
           t == Append(s, x)
           y == f[x]
           e == Each(s, f)
           u == Each(t, f)
           v == Append(e, y)
<1>1. n \in Nat /\ DOMAIN s = 1 .. n /\ y \in Y
  BY LenProperties DEF Sends
<1>2. /\ t \in Seq(X) /\ Len(t) = n + 1
      /\ t[n + 1] = x
      /\ \A i \in 1 .. n : t[i] = s[i]
  <2>1. t \in Seq(X) /\ Len(t) = n + 1
    BY AppendProperties
  <2>2. \A i \in 1 .. n : t[i] = s[i]
    BY AppendProperties
  <2>3. t[n + 1] = x
    BY AppendProperties
  <2> QED BY <2>1, <2>2, <2>3
<1>3. DOMAIN t = 1 .. n + 1
  <2> HIDE DEF t
  <2> QED BY <1>2, LenProperties
<1>e. \A r \in Seq(X) : Each(r, f) \in Seq(Y) /\ Len(Each(r, f)) = Len(r)
  BY EachProperties
<1>4. /\ e \in Seq(Y) /\ Len(e) = n
      /\ \A i \in 1 .. n : e[i] = f[s[i]]
  BY <1>1, <1>e DEF Each
<1>5. /\ u \in Seq(Y) /\ Len(u) = n + 1
      /\ \A i \in 1 .. n + 1 : u[i] = f[t[i]]
  <2> HIDE DEF t, n
  <2>1. u \in Seq(Y) /\ Len(u) = Len(t)
    BY <1>2, <1>e
  <2>2. \A i \in DOMAIN t : u[i] = f[t[i]]
    BY DEF Each
  <2> QED BY <1>2, <1>3, <2>1, <2>2
<1> HIDE DEF e, y
<1>6. v \in Seq(Y) /\ Len(v) = n + 1
  BY <1>1, <1>4, AppendProperties
<1>7. \A i \in 1 .. n : v[i] = e[i]
  BY <1>1, <1>4, AppendProperties
<1>8. v[n + 1] = y
  BY <1>1, <1>4, AppendProperties
<1> HIDE DEF v, t, u, n
<1>9. ASSUME NEW i \in 1 .. n + 1 PROVE u[i] = v[i]
  <2>1. CASE i = n + 1
    BY <1>2, <1>5, <1>8, <2>1 DEF y
  <2>2. CASE i \in 1 .. n
    BY <1>2, <1>4, <1>5, <1>7, <2>2
  <2> QED BY <1>1, <2>1, <2>2
<1>10. u = v
  BY <1>5, <1>6, <1>9, SeqEqual
<1> QED BY <1>10 DEF u, v, t, e, y

(* Removing results is removing what they are made from. *)
LEMMA KeptEach ==
  ASSUME NEW X, NEW Y, NEW f, Sends(f, X, Y), NEW S
  PROVE  \A s \in Seq(X) : Kept(Each(s, f), S) = Each(Kept(s, {x \in X : f[x] \in S}), f)
<1> DEFINE A == {x \in X : f[x] \in S}
           P == {s \in Seq(X) : Kept(Each(s, f), S) = Each(Kept(s, A), f)}
<1>1. << >> \in P
  <2>1. << >> \in Seq(X) /\ DOMAIN << >> = {}
    BY EmptySeq
  <2>e. \A r \in Seq(X) : Each(r, f) \in Seq(Y) /\ Len(Each(r, f)) = Len(r)
    BY EachProperties
  <2>2. Each(<< >>, f) = << >>
    <3>1. ASSUME NEW e \in Seq(X), Len(e) = 0 PROVE Each(e, f) = << >>
      <4>1. Each(e, f) \in Seq(Y) /\ Len(Each(e, f)) = 0
        BY <3>1, <2>e
      <4> QED BY <4>1, EmptySeq
    <3> QED BY <2>1, <3>1, EmptySeq
  <2> QED BY <2>1, <2>2, KeptEmpty
<1>2. ASSUME NEW s \in P, NEW x \in X PROVE Append(s, x) \in P
  <2> DEFINE t == Append(s, x)
             e == Each(s, f)
             k == Kept(s, A)
             y == f[x]
  <2>1. /\ s \in Seq(X) /\ t \in Seq(X) /\ y \in Y
        /\ Kept(e, S) = Each(k, f)
    BY AppendProperties DEF Sends
  <2>2. e \in Seq(Y)
    BY <2>1, EachProperties
  <2>3. Each(t, f) = Append(e, y)
    BY <2>1, EachAppend
  <2>4. k \in Seq(X)
    <3> HIDE DEF A
    <3> QED BY <2>1, KeptElements
  <2>5. Kept(t, A) = IF x \in A THEN Append(k, x) ELSE k
    <3> HIDE DEF A
    <3> QED BY <2>1, KeptAppend
  <2>6. Kept(Append(e, y), S) = IF y \in S THEN Append(Kept(e, S), y) ELSE Kept(e, S)
    <3> HIDE DEF e, y
    <3>1. \A r \in Seq(Y), z \in Y :
            Kept(Append(r, z), S) = IF z \in S THEN Append(Kept(r, S), z) ELSE Kept(r, S)
      BY KeptAppend
    <3>2. y \in Y
      BY <2>1
    <3> QED BY <2>2, <3>1, <3>2
  <2>7. Each(Append(k, x), f) = Append(Each(k, f), y)
    <3> HIDE DEF k
    <3> QED BY <2>4, EachAppend
  <2>8. x \in A <=> y \in S
    OBVIOUS
  <2> HIDE DEF t, e, k, A, y
  <2>9. Kept(Each(t, f), S) = Each(Kept(t, A), f)
    <3>1. CASE x \in A
      BY <2>1, <2>3, <2>5, <2>6, <2>7, <2>8, <3>1
    <3>2. CASE x \notin A
      BY <2>1, <2>3, <2>5, <2>6, <2>8, <3>2
    <3> QED BY <3>1, <3>2
  <2> QED BY <2>1, <2>9 DEF t
<1>3. P = Seq(X)
  <2>1. P \in SUBSET Seq(X)
    OBVIOUS
  <2> HIDE DEF P
  <2> QED BY <1>1, <1>2, <2>1, AppendInduction
<1> QED BY <1>3

(* Changing results is changing the function. *)
LEMMA EachSame ==
  ASSUME NEW X, NEW s \in Seq(X), NEW f, NEW g,
         \A x : Occurs(x, s) => f[x] = g[x]
  PROVE  Each(s, f) = Each(s, g)
BY DEF Each, Occurs

----------------------------------------------------------------------------
(* What a build makes of the contents cs and the links ls it reads. *)

Contents == Texts \union {Broken, Absent}
AnyFiles == [path : Paths, text : Contents]

Analysable(cs, ls) == {q \in Paths \ Excluded : cs[ls[q]] \in Texts}
Entry(cs, ls) == [q \in Paths |-> [path |-> ls[q], text |-> cs[ls[q]]]]
BuiltFrom(cs, ls) == Each(Kept(Walk, Analysable(cs, ls)), Entry(cs, ls))

LEMMA BuiltFacts ==
  ASSUME NEW cs \in [Paths -> Contents], NEW ls \in [Paths -> Paths]
  PROVE  LET walked == Kept(Walk, Analysable(cs, ls))
         IN  /\ walked \in Seq(Paths)
             /\ \A q : Occurs(q, walked) <=> q \in Inside /\ q \in Analysable(cs, ls)
             /\ BuiltFrom(cs, ls) \in Seq(Files)
             /\ DOMAIN BuiltFrom(cs, ls) = DOMAIN walked
             /\ \A i \in DOMAIN walked : walked[i] \in Paths
                  /\ BuiltFrom(cs, ls)[i] = [path |-> ls[walked[i]], text |-> cs[ls[walked[i]]]]
<1> DEFINE A == Analysable(cs, ls)
           walked == Kept(Walk, A)
           f == Entry(cs, ls)
<1>1. Walk \in Seq(Paths) /\ Inside \subseteq Paths
  <2>1. Inside \subseteq Paths
    BY DEF Paths
  <2> QED BY <2>1, WalkAssumption, SeqMonotonic
<1>2. \A q : Occurs(q, Walk) <=> q \in Inside
  BY DEF Occurs, Inside, ToSet
<1>3. /\ walked \in Seq(Paths)
      /\ \A q : Occurs(q, walked) <=> q \in Inside /\ q \in A
  <2> HIDE DEF A
  <2> QED BY <1>1, <1>2, KeptElements
<1>4. \A i \in DOMAIN walked : walked[i] \in A
  BY <1>3 DEF Occurs
<1>5. walked \in Seq(A)
  <2> HIDE DEF walked, A
  <2>1. Len(walked) \in Nat /\ DOMAIN walked = 1 .. Len(walked) /\ walked \in [DOMAIN walked -> Paths]
    BY <1>3, LenProperties
  <2>2. walked \in [1 .. Len(walked) -> A]
    BY <1>4, <2>1
  <2> QED BY <2>1, <2>2
<1>6. Sends(f, A, Files)
  BY DEF Sends, Entry, Analysable, Files
<1>7. BuiltFrom(cs, ls) = Each(walked, f)
  BY DEF BuiltFrom
<1>8. Each(walked, f) \in Seq(Files) /\ DOMAIN Each(walked, f) = DOMAIN walked
  <2> HIDE DEF walked, A, f
  <2>1. \A s \in Seq(A) : /\ Each(s, f) \in Seq(Files) /\ Len(Each(s, f)) = Len(s)
                          /\ DOMAIN Each(s, f) = DOMAIN s
    BY <1>6, EachProperties
  <2> QED BY <1>5, <2>1
<1>9. \A i \in DOMAIN walked : walked[i] \in Paths
                              /\ Each(walked, f)[i] = [path |-> ls[walked[i]], text |-> cs[ls[walked[i]]]]
  <2>1. \A i \in DOMAIN walked : walked[i] \in Paths
    BY <1>4 DEF Analysable
  <2> HIDE DEF walked
  <2> QED BY <2>1 DEF Each, Entry
<1> QED BY <1>3, <1>7, <1>8, <1>9

(* A full build is one of the disk as it is. *)
LEMMA RebuiltIsBuilt ==
  ASSUME disk \in [Paths -> Contents], link \in [Paths -> Paths]
  PROVE  Rebuilt = BuiltFrom(disk, link)
<1> DEFINE D == {p \in Paths \ Excluded : Content(p) # Absent}
           C == {p \in Paths : Content(p) \in Texts}
           A == Analysable(disk, link)
           k == Kept(Walk, A)
<1>1. D \intersect C = A
  BY ContentsAssumption DEF Content, Analysable
<1>2. Walk \in Seq(Inside)
  BY WalkAssumption
<1>3. Kept(Kept(Walk, D), C) = k
  <2> HIDE DEF D, C, A
  <2> QED BY <1>1, <1>2, KeptTwice
<1>4. Rebuilt = [i \in DOMAIN k |-> [path |-> link[k[i]], text |-> Content(k[i])]]
  <2>1. Rebuilt = LET analysable == Kept(Kept(Walk, D), C)
                  IN [i \in DOMAIN analysable |->
                        [path |-> link[analysable[i]], text |-> Content(analysable[i])]]
    BY DEF Rebuilt, Discovered
  <2> HIDE DEF D, C, k
  <2> QED BY <1>3, <2>1
<1>5. \A i \in DOMAIN k : k[i] \in Paths
  BY BuiltFacts
<1> HIDE DEF k
<1>6. Rebuilt = Each(k, Entry(disk, link))
  BY <1>4, <1>5 DEF Each, Entry, Content
<1> QED BY <1>6 DEF BuiltFrom, k

----------------------------------------------------------------------------
(* One changed path of a notification. *)

(* A path that is held is the place of a file some spelling led to. *)
LEMMA HeldIsBuilt ==
  ASSUME NEW cs \in [Paths -> Contents], NEW ls \in [Paths -> Paths],
         NEW c, Holds(BuiltFrom(cs, ls), c)
  PROVE  \E q \in Inside : q \in Analysable(cs, ls) /\ ls[q] = c
<1> DEFINE k == Kept(Walk, Analysable(cs, ls))
           b == BuiltFrom(cs, ls)
<1>1. /\ \A q : Occurs(q, k) <=> q \in Inside /\ q \in Analysable(cs, ls)
      /\ DOMAIN b = DOMAIN k
      /\ \A i \in DOMAIN k : b[i] = [path |-> ls[k[i]], text |-> cs[ls[k[i]]]]
  BY BuiltFacts
<1>2. PICK i \in DOMAIN b : b[i].path = c
  BY DEF Holds
<1> HIDE DEF k, b
<1>3. i \in DOMAIN k /\ ls[k[i]] = c
  BY <1>1, <1>2
<1>4. Occurs(k[i], k)
  BY <1>3 DEF Occurs
<1> QED BY <1>1, <1>3, <1>4

(* Replacing or removing in place what is held of a path gives what a build *)
(* would that reads this one file anew and the others as before.            *)
LEMMA InPlaceIsBuilt ==
  ASSUME NEW cs \in [Paths -> Contents], NEW ls \in [Paths -> Paths],
         disk \in [Paths -> Contents],
         NEW p, NEW files, files = BuiltFrom(cs, ls),
         Holds(files, Canonical(p)), ~ Undecided(files, p)
  PROVE  /\ Canonical(p) \in Paths
         /\ Reharvested(files, p) = BuiltFrom([cs EXCEPT ![Canonical(p)] = disk[Canonical(p)]], ls)
<1> DEFINE c == Canonical(p)
           ds == [cs EXCEPT ![c] = disk[c]]
           A == Analysable(cs, ls)
           k == Kept(Walk, A)
<1>1. PICK q0 \in Inside : q0 \in A /\ ls[q0] = c
  BY HeldIsBuilt
<1>2. c \in Paths /\ cs[c] \in Texts
  BY <1>1 DEF Analysable
<1>3. disk[c] \in Texts \union {Absent}
  BY <1>2 DEF Undecided, Contents
<1>4. /\ ds \in [Paths -> Contents] /\ ds[c] = disk[c]
      /\ \A d \in Paths : d # c => ds[d] = cs[d]
  BY <1>2
<1>5. /\ k \in Seq(Paths)
      /\ \A q : Occurs(q, k) <=> q \in Inside /\ q \in A
      /\ files \in Seq(Files) /\ DOMAIN files = DOMAIN k
      /\ \A i \in DOMAIN k : k[i] \in Paths
                           /\ files[i] = [path |-> ls[k[i]], text |-> cs[ls[k[i]]]]
  BY BuiltFacts
<1>6. CASE disk[c] = Absent
  <2> DEFINE S == {f \in Files : f.path # c}
             g == Entry(cs, ls)
             B == {q \in Paths : g[q] \in S}
  <2>1. Reharvested(files, p) = Kept(files, S)
    BY <1>6 DEF Reharvested
  <2>2. Sends(g, Paths, AnyFiles)
    BY DEF Sends, Entry, AnyFiles
  <2>3. Kept(Each(k, g), S) = Each(Kept(k, B), g)
    <3> HIDE DEF g, S, k, B
    <3>1. \A s \in Seq(Paths) : Kept(Each(s, g), S) = Each(Kept(s, {x \in Paths : g[x] \in S}), g)
      BY <2>2, KeptEach
    <3> QED BY <1>5, <3>1 DEF B
  <2>4. Kept(k, B) = Kept(Walk, A \intersect B)
    <3> HIDE DEF A, B
    <3> QED BY WalkAssumption, KeptTwice
  <2>5. A \intersect B = Analysable(ds, ls)
    <3>1. \A q \in Paths : q \in B <=> ls[q] # c /\ cs[ls[q]] \in Texts
      BY DEF Entry, Files
    <3> HIDE DEF B
    <3>2. disk[c] \notin Texts
      BY <1>6, ContentsAssumption
    <3>3. \A q \in Paths : ds[ls[q]] \in Texts <=> ls[q] # c /\ cs[ls[q]] \in Texts
      BY <1>2, <1>4, <3>2
    <3> HIDE DEF ds
    <3> QED BY <3>1, <3>3 DEF Analysable
  <2> DEFINE w == Kept(Walk, Analysable(ds, ls))
             h == Entry(ds, ls)
  <2>6. w \in Seq(Paths) /\ \A q : Occurs(q, w) => q \in Analysable(ds, ls)
    <3> HIDE DEF ds
    <3> QED BY <1>4, BuiltFacts
  <2>7. \A q : Occurs(q, w) => g[q] = h[q]
    <3>1. ASSUME NEW q \in Analysable(ds, ls) PROVE g[q] = h[q]
      <4>1. q \in Paths /\ ls[q] \in Paths
        BY DEF Analysable
      <4>2. ls[q] # c
        BY <1>4, <1>6, ContentsAssumption DEF Analysable
      <4>3. ds[ls[q]] = cs[ls[q]]
        BY <1>4, <4>1, <4>2
      <4> QED BY <4>1, <4>3 DEF Entry
    <3> HIDE DEF w, g, h, ds
    <3> QED BY <2>6, <3>1
  <2>8. Each(w, g) = Each(w, h)
    <3> HIDE DEF w, g, h
    <3> QED BY <2>6, <2>7, EachSame
  <2>9. files = Each(k, g)
    BY DEF BuiltFrom
  <2>10. Kept(files, S) = Each(w, g)
    <3> HIDE DEF k, g, S, B, A
    <3> QED BY <2>3, <2>4, <2>5, <2>9
  <2> QED BY <1>2, <2>1, <2>8, <2>10 DEF BuiltFrom
<1>7. CASE disk[c] \in Texts
  <2>1. disk[c] # Absent
    BY <1>7, ContentsAssumption
  <2>2. Reharvested(files, p) = [i \in DOMAIN files |->
            IF files[i].path = c THEN [files[i] EXCEPT !.text = disk[c]] ELSE files[i]]
    BY <2>1 DEF Reharvested
  <2>3. Analysable(ds, ls) = A
    <3>1. \A q \in Paths : ds[ls[q]] \in Texts <=> cs[ls[q]] \in Texts
      BY <1>2, <1>4, <1>7
    <3> HIDE DEF ds
    <3> QED BY <3>1 DEF Analysable
  <2>4. BuiltFrom(ds, ls) = [i \in DOMAIN k |-> [path |-> ls[k[i]], text |-> ds[ls[k[i]]]]]
    <3>1. BuiltFrom(ds, ls) = Each(k, Entry(ds, ls))
      BY <2>3 DEF BuiltFrom
    <3> HIDE DEF k, ds
    <3> QED BY <1>5, <3>1 DEF Each, Entry
  <2>5. ASSUME NEW i \in DOMAIN k
        PROVE  (IF files[i].path = c THEN [files[i] EXCEPT !.text = disk[c]] ELSE files[i])
                 = [path |-> ls[k[i]], text |-> ds[ls[k[i]]]]
    <3>1. files[i] = [path |-> ls[k[i]], text |-> cs[ls[k[i]]]] /\ ls[k[i]] \in Paths
      BY <1>5
    <3> HIDE DEF k, ds, c
    <3>2. CASE ls[k[i]] = c
      BY <1>4, <3>1, <3>2
    <3>3. CASE ls[k[i]] # c
      BY <1>4, <3>1, <3>3
    <3> QED BY <3>2, <3>3
  <2> HIDE DEF k, ds
  <2>6. Reharvested(files, p) = BuiltFrom(ds, ls)
    BY <1>5, <2>2, <2>4, <2>5
  <2> QED BY <1>2, <2>6 DEF ds
<1> QED BY <1>3, <1>6, <1>7

----------------------------------------------------------------------------
(* A whole notification. *)

(* The table is worked through path by path. *)
LEMMA AfterSteps ==
  ASSUME disk \in [Paths -> Contents], held \in Seq(AnyFiles), NEW batch, Len(batch) \in Nat
  PROVE  /\ After(batch, 0) = held
         /\ \A i \in 1 .. Len(batch) :
              After(batch, i) = Reharvested(After(batch, i - 1), batch[i])
<1> DEFINE n == Len(batch)
           T == Seq(AnyFiles)
           step == [i \in Nat |-> [t \in T |-> Reharvested(t, batch[i])]]
           Is(g) == g = [i \in 0 .. n |->
                           IF i = 0 THEN held ELSE Reharvested(g[i - 1], batch[i])]
           after == CHOOSE g : Is(g)
<1>1. ASSUME NEW t \in T, NEW p PROVE Reharvested(t, p) \in T
  <2> DEFINE c == Canonical(p)
             S == {f \in Files : f.path # c}
             r == [i \in DOMAIN t |-> IF t[i].path = c THEN [t[i] EXCEPT !.text = disk[c]] ELSE t[i]]
  <2>1. Kept(t, S) \in T
    <3> HIDE DEF S
    <3> QED BY KeptElements
  <2>2. Holds(t, c) => r \in T
    <3> SUFFICES ASSUME Holds(t, c) PROVE r \in T
      OBVIOUS
    <3>1. /\ Len(t) \in Nat /\ DOMAIN t = 1 .. Len(t)
          /\ \A i \in DOMAIN t : t[i] \in AnyFiles
      BY LenProperties
    <3>2. c \in Paths
      BY <3>1 DEF Holds, AnyFiles
    <3>3. \A i \in DOMAIN t : [t[i] EXCEPT !.text = disk[c]] \in AnyFiles
      BY <3>1, <3>2 DEF AnyFiles
    <3>4. r \in [1 .. Len(t) -> AnyFiles]
      BY <3>1, <3>3
    <3> QED BY <3>1, <3>4
  <2> QED BY <2>1, <2>2 DEF Reharvested
<1>2. n \in Nat /\ held \in T /\ step \in [Nat -> [T -> T]]
  BY <1>1
<1>3. PICK g \in [0 .. n -> T] : Iterates(g, n, held, step)
  <2> HIDE DEF step, n, T
  <2> QED BY <1>2, Recursion
<1>4. Is(g)
  <2>1. \A i \in 0 .. n : g[i] = IF i = 0 THEN held ELSE step[i][g[i - 1]]
    BY <1>3 DEF Iterates
  <2>2. ASSUME NEW i \in 0 .. n, i # 0 PROVE step[i][g[i - 1]] = Reharvested(g[i - 1], batch[i])
    <3>1. i \in Nat /\ i - 1 \in 0 .. n
      BY <1>2, <2>2
    <3>2. g[i - 1] \in T
      BY <3>1
    <3> HIDE DEF T
    <3> QED BY <3>1, <3>2
  <2> HIDE DEF step, T
  <2> QED BY <2>1, <2>2
<1>5. Is(after)
  <2> HIDE DEF Is
  <2> QED BY <1>4
<1>6. \A i : After(batch, i) = after[i]
  BY DEF After
<1>7. \A i \in 0 .. n : after[i] = IF i = 0 THEN held ELSE Reharvested(after[i - 1], batch[i])
  <2> HIDE DEF after, n
  <2> QED BY <1>5
<1>8. \A i \in 1 .. n : i \in 0 .. n /\ i # 0
  BY <1>2
<1>9. 0 \in 0 .. n
  BY <1>2
<1> HIDE DEF after, Is
<1>10. After(batch, 0) = held
  BY <1>6, <1>7, <1>9
<1>11. ASSUME NEW i \in 1 .. n
       PROVE  After(batch, i) = Reharvested(After(batch, i - 1), batch[i])
  BY <1>6, <1>7, <1>8
<1> QED BY <1>10, <1>11

(* The table files is what a build makes of contents and links that are    *)
(* those of the disk but for the paths whose events are pending.           *)
Tracks(files, pending, cs, ls) ==
  /\ files = BuiltFrom(cs, ls)
  /\ cs \in [Paths -> Contents] /\ ls \in [Paths -> Paths]
  /\ \A q \in Inside \ Excluded :
       /\ ls[q] \in Inside
       /\ ls[q] \notin Excluded => ls[ls[q]] = ls[q]
       /\ q \notin pending => ls[q] = link[q]
  /\ \A c \in Inside \ pending : link[c] = c => cs[c] = disk[c]

(* A pending path that check would analyse is no link. *)
PendingAreFiles(pending) == \A p \in pending \ Excluded : p \in Inside => link[p] = p

LEMMA OnePathTracks ==
  ASSUME TypeOK, NEW pending, PendingAreFiles(pending), NEW p \in Paths,
         NEW cs, NEW ls, NEW files, Tracks(files, pending, cs, ls), ~ Undecided(files, p)
  PROVE  \E ds : Tracks(Reharvested(files, p), pending \ {p}, ds, ls)
<1> DEFINE c == Canonical(p)
<1>1. /\ disk \in [Paths -> Contents] /\ link \in [Paths -> Paths]
      /\ \A q \in Paths : link[link[q]] = link[q]
      /\ cs \in [Paths -> Contents] /\ ls \in [Paths -> Paths]
  BY DEF TypeOK, Tracks, Contents
<1>2. Canonical(p) \in {link[p], p, Unresolved}
  BY DEF Canonical
<1>3. CASE Holds(files, c)
  <2> DEFINE ds == [cs EXCEPT ![c] = disk[c]]
  <2>1. PICK q \in Inside : q \in Analysable(cs, ls) /\ ls[q] = c
    BY <1>1, <1>3, HeldIsBuilt DEF Tracks
  <2>2. c \in Paths /\ Reharvested(files, p) = BuiltFrom(ds, ls)
    <3>1. files = BuiltFrom(cs, ls)
      BY DEF Tracks
    <3> QED BY <1>1, <1>3, <3>1, InPlaceIsBuilt
  <2>3. c = link[p] \/ c = p
    BY <1>2, <2>2, PathsAssumption
  <2>4. /\ ds \in [Paths -> Contents] /\ ds[c] = disk[c]
        /\ \A d \in Paths : d # c => ds[d] = cs[d]
    BY <1>1, <2>2
  <2>5. \A d \in Inside \ (pending \ {p}) : link[d] = d => ds[d] = disk[d]
    <3> SUFFICES ASSUME NEW d \in Inside \ (pending \ {p}), link[d] = d PROVE ds[d] = disk[d]
      OBVIOUS
    <3>1. d \in Paths
      BY DEF Paths
    <3>2. CASE d = p
      BY <2>3, <2>4, <3>2
    <3>3. CASE d # p
      BY <2>4, <3>1, <3>3 DEF Tracks
    <3> QED BY <3>2, <3>3
  <2>6. p \in Inside \ Excluded => ls[p] = link[p]
    <3> SUFFICES ASSUME p \in Inside \ Excluded, p \in pending PROVE ls[p] = link[p]
      BY DEF Tracks
    <3>1. link[p] = p /\ c = p
      BY <2>3 DEF PendingAreFiles
    <3>2. q \in Inside \ Excluded
      BY <2>1 DEF Analysable
    <3>3. ls[p] = p
      BY <2>1, <3>1, <3>2 DEF Tracks
    <3> QED BY <3>1, <3>3
  <2> HIDE DEF ds
  <2>7. Tracks(Reharvested(files, p), pending \ {p}, ds, ls)
    BY <2>2, <2>4, <2>5, <2>6 DEF Tracks
  <2> QED BY <2>7
<1>4. CASE ~ Holds(files, c)
  <2>1. Reharvested(files, p) = files
    BY <1>4 DEF Reharvested
  <2>2. p \notin Inside
    BY <1>4 DEF Undecided, Ignorable
  <2>3. Tracks(files, pending \ {p}, cs, ls)
    BY <2>2 DEF Tracks
  <2> QED BY <2>1, <2>3
<1> QED BY <1>3, <1>4

LEMMA BatchTracks ==
  ASSUME TypeOK, PendingAreFiles(events), NEW batch \in Seq(Paths),
         NEW cs, NEW ls, Tracks(held, events, cs, ls),
         \A i \in DOMAIN batch : ~ Undecided(After(batch, i - 1), batch[i])
  PROVE  \E ds : Tracks(After(batch, Len(batch)), events \ ToSet(batch), ds, ls)
<1> DEFINE n == Len(batch)
           done(i) == {batch[j] : j \in 1 .. i}
           Tracked(i) == \E ds : Tracks(After(batch, i), events \ done(i), ds, ls)
           P == {i \in Nat : i <= n => Tracked(i)}
<1>1. n \in Nat /\ DOMAIN batch = 1 .. n /\ \A i \in 1 .. n : batch[i] \in Paths
  BY LenProperties
<1>2. /\ After(batch, 0) = held
      /\ \A i \in 1 .. n : After(batch, i) = Reharvested(After(batch, i - 1), batch[i])
  <2>1. held \in Seq(AnyFiles) /\ disk \in [Paths -> Contents]
    <3>1. Files \subseteq AnyFiles
      BY DEF Files, AnyFiles, Contents
    <3> QED BY <3>1, SeqMonotonic DEF TypeOK, Contents
  <2> QED BY <1>1, <2>1, AfterSteps
<1>3. 0 \in P
  <2>1. done(0) = {}
    OBVIOUS
  <2>2. Tracks(After(batch, 0), events \ done(0), cs, ls)
    BY <1>2, <2>1
  <2>3. Tracked(0)
    <3> HIDE DEF done
    <3> QED BY <2>2
  <2> HIDE DEF Tracked
  <2> QED BY <2>3
<1>4. ASSUME NEW i \in Nat, i <= n => Tracked(i), i + 1 <= n PROVE Tracked(i + 1)
  <2>1. i \in Nat /\ i <= n /\ i + 1 \in 1 .. n /\ i + 1 - 1 = i
    BY <1>1, <1>4
  <2> DEFINE p == batch[i + 1]
             files == After(batch, i)
             pending == events \ done(i)
  <2>2. p \in Paths /\ ~ Undecided(files, p) /\ After(batch, i + 1) = Reharvested(files, p)
    BY <1>1, <1>2, <2>1
  <2>3. PICK bs : Tracks(files, pending, bs, ls)
    BY <1>4, <2>1
  <2>4. done(i + 1) = done(i) \union {p}
    <3>1. 1 .. i + 1 = (1 .. i) \union {i + 1}
      BY <2>1
    <3> QED BY <3>1
  <2>5. events \ done(i + 1) = pending \ {p}
    <3> HIDE DEF done
    <3> QED BY <2>4
  <2>6. PendingAreFiles(pending)
    BY DEF PendingAreFiles
  <2> HIDE DEF p, files, pending, done
  <2>7. \E ds : Tracks(Reharvested(files, p), pending \ {p}, ds, ls)
    BY <2>2, <2>3, <2>6, OnePathTracks
  <2> QED BY <2>2, <2>5, <2>7
<1>5. P = Nat
  <2>1. P \in SUBSET Nat
    OBVIOUS
  <2> HIDE DEF Tracked
  <2>2. \A i \in P : i + 1 \in P
    BY <1>1, <1>4
  <2> HIDE DEF P
  <2> QED BY <1>3, <2>1, <2>2, SetInduction
<1>6. done(n) = ToSet(batch)
  BY <1>1 DEF ToSet
<1> HIDE DEF done
<1> QED BY <1>1, <1>5, <1>6

----------------------------------------------------------------------------
(* Which projects this is about. *)

(* A file check would analyse is at most a link to a path under the roots. *)
LinksStayInside ==
  \A initial \in InitialLinks : \A p \in DOMAIN initial :
    p \in Inside \ Excluded => initial[p] \in Inside

(* Only an excluded file may be replaced by a link while the server runs. *)
OnlyExcludedRelinked == \A p, t \in Paths : <<p, t>> \in Relinks => p \in Excluded

LinksInv ==
  /\ \A q \in Inside \ Excluded : link[q] \in Inside
  /\ PendingAreFiles(events)

HeldInv ==
  /\ on => \E cs, ls : Tracks(held, events, cs, ls)
  /\ ~ on => held = << >>

IInv == TypeOK /\ LinksInv /\ HeldInv

(* The disk as it is tracks itself. *)
LEMMA RebuiltTracks ==
  ASSUME TypeOK, \A q \in Inside \ Excluded : link[q] \in Inside
  PROVE  /\ Rebuilt \in Seq(Files)
         /\ \A pending : Tracks(Rebuilt, pending, disk, link)
<1>1. disk \in [Paths -> Contents] /\ link \in [Paths -> Paths] /\ Inside \subseteq Paths
  BY DEF TypeOK, Contents, Paths
<1>2. Rebuilt = BuiltFrom(disk, link)
  BY <1>1, RebuiltIsBuilt
<1>3. BuiltFrom(disk, link) \in Seq(Files)
  BY <1>1, BuiltFacts
<1>4. \A q \in Inside : link[link[q]] = link[q]
  BY <1>1 DEF TypeOK
<1> QED BY <1>1, <1>2, <1>3, <1>4 DEF Tracks

(* A full build, with fewer events pending, holds what the disk has. *)
LEMMA FullBuildKeeps ==
  ASSUME IInv, NEW allowed \in BOOLEAN, FullBuild(allowed), UNCHANGED diskVars,
         events' \subseteq events
  PROVE  IInv'
<1>1. /\ Rebuilt \in Seq(Files) /\ << >> \in Seq(Files)
      /\ \A pending : Tracks(Rebuilt, pending, disk, link)
  BY RebuiltTracks, EmptySeq DEF IInv, LinksInv
<1>2. /\ on' \in BOOLEAN /\ enabled' \in BOOLEAN
      /\ held' = IF on' THEN Rebuilt ELSE << >>
  BY DEF FullBuild
<1>3. TypeOK'
  BY <1>1, <1>2 DEF IInv, TypeOK, diskVars
<1>4. LinksInv'
  BY DEF IInv, LinksInv, PendingAreFiles, diskVars
<1>5. on' => Tracks(Rebuilt, events, disk, link)'
  <2>1. Tracks(Rebuilt, events', disk, link)
    BY <1>1
  <2>2. disk' = disk /\ link' = link /\ Rebuilt' = Rebuilt
    BY DEF diskVars, Rebuilt, Discovered, Content
  <2> QED BY <2>1, <2>2 DEF Tracks
<1>6. HeldInv'
  <2>1. Rebuilt' = Rebuilt
    BY DEF diskVars, Rebuilt, Discovered, Content
  <2> QED BY <1>2, <1>5, <2>1 DEF HeldInv
<1> QED BY <1>3, <1>4, <1>6 DEF IInv

LEMMA InitHolds == ASSUME LinksStayInside, Init PROVE IInv
<1>1. PICK initial \in InitialLinks :
        link = [p \in Paths |-> IF p \in DOMAIN initial THEN initial[p] ELSE p]
  BY DEF Init
<1>2. \A p \in DOMAIN initial : initial[p] \in Paths \ DOMAIN initial
  BY LinksAssumption
<1>3. link \in [Paths -> Paths] /\ \A p \in Paths : link[link[p]] = link[p]
  BY <1>1, <1>2
<1>4. \A q \in Inside \ Excluded : link[q] \in Inside
  BY <1>1 DEF LinksStayInside, Paths
<1>5. disk \in [Paths -> Contents] /\ events = {} /\ nestedGone = FALSE /\ enabled \in BOOLEAN
  BY DEF Init, Contents
<1>6. on \in BOOLEAN /\ held = IF on THEN Rebuilt ELSE << >>
  BY DEF Init
<1>7. Rebuilt = BuiltFrom(disk, link) /\ BuiltFrom(disk, link) \in Seq(Files) /\ << >> \in Seq(Files)
  BY <1>3, <1>5, RebuiltIsBuilt, BuiltFacts, EmptySeq
<1>8. TypeOK
  BY <1>3, <1>5, <1>6, <1>7 DEF TypeOK, Contents
<1>9. \A pending : Tracks(Rebuilt, pending, disk, link)
  BY <1>4, <1>8, RebuiltTracks
<1> QED BY <1>4, <1>5, <1>6, <1>8, <1>9 DEF IInv, LinksInv, PendingAreFiles, HeldInv

(* What the editor does to a file is only ever to be seen in pending paths. *)
LEMMA EditorKeeps ==
  ASSUME IInv, UNCHANGED <<enabled, on, held>>, nestedGone' \in BOOLEAN,
         events \subseteq events', events' \subseteq Paths,
         disk' \in [Paths -> Contents], link' \in [Paths -> Paths],
         \A p \in Paths : link'[link'[p]] = link'[p],
         \A q \in Inside \ Excluded : link'[q] \in {link[q], q},
         \A p \in (events' \ Excluded) \intersect Inside : link'[p] = p,
         \A q \in Inside \ Excluded : q \notin events' => link'[q] = link[q],
         \A c \in Inside \ events' : link'[c] = c => link[c] = c /\ disk'[c] = disk[c]
  PROVE  IInv'
<1>1. TypeOK'
  BY DEF IInv, TypeOK, Contents
<1>2. LinksInv'
  BY DEF IInv, LinksInv, PendingAreFiles
<1>3. ASSUME NEW cs, NEW ls, Tracks(held, events, cs, ls)
      PROVE  Tracks(held, events, cs, ls)'
  BY <1>3 DEF Tracks
<1>4. HeldInv'
  BY <1>3 DEF IInv, HeldInv
<1> QED BY <1>1, <1>2, <1>4 DEF IInv

LEMMA SaveKeeps ==
  ASSUME IInv, NEW p \in Paths, NEW t \in Texts \union {Broken}, Save(p, t)
  PROVE  IInv'
BY EditorKeeps DEF Save, IsLink, IInv, TypeOK, LinksInv, PendingAreFiles, Contents

LEMMA DeleteKeeps ==
  ASSUME IInv, NEW p \in Paths, Delete(p)
  PROVE  IInv'
<1>1. /\ disk \in [Paths -> Contents] /\ link \in [Paths -> Paths]
      /\ disk' = [disk EXCEPT ![p] = Absent] /\ link' = [link EXCEPT ![p] = p]
      /\ events' = events \union {p} /\ events \subseteq Paths
      /\ UNCHANGED <<nestedGone, enabled, on, held>> /\ nestedGone \in BOOLEAN
  BY DEF Delete, IInv, TypeOK, Contents
<1>2. disk' \in [Paths -> Contents] /\ link' \in [Paths -> Paths]
  BY <1>1 DEF Contents
<1>3. \A q \in Paths : /\ link'[q] = IF q = p THEN p ELSE link[q]
                       /\ q # p => disk'[q] = disk[q]
  BY <1>1
<1>4. \A q \in Paths : link'[link'[q]] = link'[q]
  BY <1>1, <1>3 DEF IInv, TypeOK
<1>5. Inside \subseteq Paths
  BY DEF Paths
<1>6. \A q \in (events \ Excluded) \intersect Inside : link[q] = q
  BY DEF IInv, LinksInv, PendingAreFiles
<1> QED BY <1>1, <1>2, <1>3, <1>4, <1>5, <1>6, EditorKeeps

LEMMA DeleteDirectoryKeeps ==
  ASSUME IInv, DeleteDirectory
  PROVE  IInv'
<1>1. /\ disk \in [Paths -> Contents] /\ link \in [Paths -> Paths]
      /\ disk' = [p \in Paths |-> IF p \in Nested THEN Absent ELSE disk[p]]
      /\ link' = [p \in Paths |-> IF p \in Nested THEN p ELSE link[p]]
      /\ events' = events \union {p \in Nested : link[p] # p \/ disk[p] # Absent}
      /\ events \subseteq Paths /\ nestedGone' \in BOOLEAN
      /\ UNCHANGED <<enabled, on, held>>
  BY DEF DeleteDirectory, IsLink, IInv, TypeOK, Contents
<1>2. disk' \in [Paths -> Contents] /\ link' \in [Paths -> Paths]
  BY <1>1 DEF Contents
<1>3. \A q \in Paths : /\ link'[q] = IF q \in Nested THEN q ELSE link[q]
                       /\ disk'[q] = IF q \in Nested THEN Absent ELSE disk[q]
  BY <1>1
<1>4. \A q \in Paths : link'[link'[q]] = link'[q]
  BY <1>1, <1>3 DEF IInv, TypeOK
<1>5. Inside \subseteq Paths /\ Nested \subseteq Paths
  BY PathsAssumption DEF Paths
<1>6. \A q \in (events \ Excluded) \intersect Inside : link[q] = q
  BY DEF IInv, LinksInv, PendingAreFiles
<1>7. events' \subseteq Paths
  BY <1>1, <1>5
<1>8. \A c \in Inside \ events' : link'[c] = c => link[c] = c /\ disk'[c] = disk[c]
  BY <1>1, <1>3, <1>5
<1>9. \A q \in Inside \ Excluded : q \notin events' => link'[q] = link[q]
  BY <1>1, <1>3, <1>5
<1>10. \A q \in (events' \ Excluded) \intersect Inside : link'[q] = q
  BY <1>1, <1>3, <1>5, <1>6
<1> QED BY <1>1, <1>2, <1>3, <1>4, <1>5, <1>7, <1>8, <1>9, <1>10, EditorKeeps

LEMMA RelinkKeeps ==
  ASSUME IInv, OnlyExcludedRelinked, NEW p \in Paths, NEW t \in Paths, Relink(p, t)
  PROVE  IInv'
<1>1. /\ disk \in [Paths -> Contents] /\ link \in [Paths -> Paths]
      /\ disk' = [disk EXCEPT ![p] = Absent] /\ link' = [link EXCEPT ![p] = t]
      /\ events' = events \union {p} /\ events \subseteq Paths
      /\ UNCHANGED <<enabled, on, held>>
      /\ link[t] = t /\ link[p] # t /\ \A q \in Paths \ {p} : link[q] # p
  BY DEF Relink, IsLink, IInv, TypeOK, Contents
<1>2. disk' \in [Paths -> Contents] /\ link' \in [Paths -> Paths] /\ nestedGone' \in BOOLEAN
  BY <1>1 DEF Contents, Relink
<1>3. \A q \in Paths : /\ link'[q] = IF q = p THEN t ELSE link[q]
                       /\ q # p => disk'[q] = disk[q]
  BY <1>1
<1>4. \A q \in Paths : link'[link'[q]] = link'[q]
  BY <1>1, <1>3 DEF IInv, TypeOK
<1>5. Inside \subseteq Paths /\ p \in Excluded
  BY DEF Paths, Relink, OnlyExcludedRelinked
<1>6. \A q \in (events \ Excluded) \intersect Inside : link[q] = q
  BY DEF IInv, LinksInv, PendingAreFiles
<1> QED BY <1>1, <1>2, <1>3, <1>4, <1>5, <1>6, EditorKeeps

LEMMA SourcesChangedKeeps ==
  ASSUME IInv, NEW allowed \in BOOLEAN, NEW batch \in Notifications,
         SourcesChanged(batch, allowed)
  PROVE  IInv'
<1> DEFINE gaveUp == on /\ \E i \in DOMAIN batch : Undecided(After(batch, i - 1), batch[i])
<1>1. batch \in Seq(Paths)
  <2>1. PICK n \in 1 .. MaxBatch : batch \in [1 .. n -> events]
    BY DEF Notifications
  <2>2. n \in Nat /\ events \subseteq Paths
    BY PathsAssumption DEF IInv, TypeOK
  <2>3. batch \in [1 .. n -> Paths]
    BY <2>1, <2>2
  <2> QED BY <2>2, <2>3
<1>2. UNCHANGED diskVars /\ events' = events \ ToSet(batch)
  BY DEF SourcesChanged
<1>3. CASE gaveUp
  BY <1>2, <1>3, FullBuildKeeps DEF SourcesChanged
<1>4. CASE ~ gaveUp
  <2>1. held' = (IF on THEN After(batch, Len(batch)) ELSE held) /\ UNCHANGED <<enabled, on>>
    BY <1>4 DEF SourcesChanged
  <2>2. LinksInv'
    BY <1>2 DEF IInv, LinksInv, PendingAreFiles, diskVars
  <2>3. on => \E cs, ls : Tracks(held, events, cs, ls)'
    <3> SUFFICES ASSUME on PROVE \E cs, ls : Tracks(held, events, cs, ls)'
      OBVIOUS
    <3>1. PICK bs, ls : Tracks(held, events, bs, ls)
      BY DEF IInv, HeldInv
    <3>2. PICK ds : Tracks(After(batch, Len(batch)), events \ ToSet(batch), ds, ls)
      BY <1>1, <1>4, <3>1, BatchTracks DEF IInv, LinksInv
    <3>3. Tracks(held', events', ds, ls)
      BY <1>2, <2>1, <3>2
    <3>4. Tracks(held, events, ds, ls)'
      BY <1>2, <3>3 DEF Tracks, diskVars
    <3> QED BY <3>4
  <2>4. held' \in Seq(Files)
    <3>1. CASE on
      <4>1. PICK cs, ls : Tracks(held, events, cs, ls)'
        BY <2>3, <3>1
      <4>2. held' = BuiltFrom(cs, ls) /\ cs \in [Paths -> Contents] /\ ls \in [Paths -> Paths]
        BY <4>1 DEF Tracks
      <4> QED BY <4>2, BuiltFacts
    <3>2. CASE ~ on
      BY <2>1, <3>2 DEF IInv, TypeOK
    <3> QED BY <3>1, <3>2
  <2>5. TypeOK'
    BY <1>2, <2>1, <2>4 DEF IInv, TypeOK, diskVars
  <2>6. HeldInv'
    BY <2>1, <2>3 DEF IInv, HeldInv
  <2> QED BY <2>2, <2>5, <2>6 DEF IInv
<1> QED BY <1>3, <1>4

LEMMA GuardTripsKeeps ==
  ASSUME IInv, GuardTrips
  PROVE  IInv'
<1>1. << >> \in Seq(Files)
  BY EmptySeq
<1>2. UNCHANGED <<disk, link, nestedGone, events>> /\ on' = FALSE /\ enabled' = FALSE /\ held' = << >>
  BY DEF GuardTrips, diskVars
<1> QED BY <1>1, <1>2 DEF IInv, TypeOK, LinksInv, PendingAreFiles, HeldInv

LEMMA NextKeeps == ASSUME OnlyExcludedRelinked, IInv, [Next]_vars PROVE IInv'
<1>1. ASSUME NEW p \in Paths, NEW t \in Texts \union {Broken}, Save(p, t) PROVE IInv'
  BY <1>1, SaveKeeps
<1>2. ASSUME NEW p \in Paths, Delete(p) PROVE IInv'
  BY <1>2, DeleteKeeps
<1>3. CASE DeleteDirectory
  BY <1>3, DeleteDirectoryKeeps
<1>4. ASSUME NEW p \in Paths, NEW t \in Paths, Relink(p, t) PROVE IInv'
  BY <1>4, RelinkKeeps
<1>5. ASSUME NEW allowed \in BOOLEAN, Invalidate(allowed) PROVE IInv'
  BY <1>5, FullBuildKeeps DEF Invalidate
<1>6. ASSUME NEW allowed \in BOOLEAN, NEW batch \in Notifications, SourcesChanged(batch, allowed)
      PROVE  IInv'
  BY <1>6, SourcesChangedKeeps
<1>7. CASE GuardTrips
  BY <1>7, GuardTripsKeeps
<1>8. CASE UNCHANGED vars
  <2>1. ASSUME NEW cs, NEW ls, Tracks(held, events, cs, ls) PROVE Tracks(held, events, cs, ls)'
    BY <1>8, <2>1 DEF Tracks, vars
  <2>2. HeldInv'
    BY <1>8, <2>1 DEF IInv, HeldInv, vars
  <2> QED BY <1>8, <2>2 DEF IInv, TypeOK, LinksInv, PendingAreFiles, vars
<1> QED BY <1>1, <1>2, <1>3, <1>4, <1>5, <1>6, <1>7, <1>8 DEF Next

LEMMA Inductive == ASSUME LinksStayInside, OnlyExcludedRelinked PROVE Spec => []IInv
<1>1. Init => IInv
  BY InitHolds
<1>2. IInv /\ [Next]_vars => IInv'
  BY NextKeeps
<1> QED BY <1>1, <1>2, PTL DEF Spec

(* With no event pending the disk tracked is the one there is. *)
LEMMA SettledIsRebuilt == ASSUME IInv PROVE HeldMatchesRebuild
<1> SUFFICES ASSUME on, events = {} PROVE held = Rebuilt
  BY DEF HeldMatchesRebuild
<1>1. /\ disk \in [Paths -> Contents] /\ link \in [Paths -> Paths]
      /\ \A p \in Paths : link[link[p]] = link[p]
  BY DEF IInv, TypeOK, Contents
<1>2. PICK cs, ls : Tracks(held, events, cs, ls)
  BY DEF IInv, HeldInv
<1>3. \A q \in Inside \ Excluded : ls[q] = link[q] /\ cs[ls[q]] = disk[link[q]]
  <2> SUFFICES ASSUME NEW q \in Inside \ Excluded
               PROVE  ls[q] = link[q] /\ cs[ls[q]] = disk[link[q]]
    OBVIOUS
  <2>1. ls[q] = link[q] /\ ls[q] \in Inside /\ q \in Paths
    BY <1>2 DEF Tracks, Paths
  <2>2. link[ls[q]] = ls[q]
    BY <1>1, <2>1
  <2> QED BY <1>2, <2>1, <2>2 DEF Tracks
<1> DEFINE A == Analysable(cs, ls)
           B == Analysable(disk, link)
           k == Kept(Walk, B)
<1>4. \A q \in Inside : q \in A <=> q \in B
  BY <1>3 DEF Analysable
<1>5. Kept(Walk, A) = k
  <2> HIDE DEF A, B
  <2> QED BY <1>4, WalkAssumption, KeptSame
<1>6. k \in Seq(Paths) /\ \A q : Occurs(q, k) => q \in Inside \ Excluded
  BY <1>1, BuiltFacts DEF Analysable
<1>7. \A q : Occurs(q, k) => Entry(cs, ls)[q] = Entry(disk, link)[q]
  <2>1. \A q \in Inside \ Excluded : Entry(cs, ls)[q] = Entry(disk, link)[q]
    BY <1>3 DEF Entry, Paths
  <2> HIDE DEF k
  <2> QED BY <1>6, <2>1
<1>8. Each(k, Entry(cs, ls)) = Each(k, Entry(disk, link))
  <2> HIDE DEF k
  <2> QED BY <1>6, <1>7, EachSame
<1>9. held = BuiltFrom(cs, ls)
  BY <1>2 DEF Tracks
<1>10. Rebuilt = BuiltFrom(disk, link)
  BY <1>1, RebuiltIsBuilt
<1> QED BY <1>5, <1>8, <1>9, <1>10 DEF BuiltFrom

----------------------------------------------------------------------------
(* Whatever is saved, deleted and linked, and in whatever order and batches *)
(* the events arrive, reharvest_sources leaves what build_overlay would:    *)
(* the same files in the same order with the same content, once no event is *)
(* pending.                                                                 *)
THEOREM IncrementalIsRebuilt ==
  ASSUME LinksStayInside, OnlyExcludedRelinked
  PROVE  Spec => []HeldMatchesRebuild
<1>1. IInv => HeldMatchesRebuild
  BY SettledIsRebuilt
<1> QED BY <1>1, Inductive, PTL

(* The variables keep their types. *)
THEOREM TypesHold ==
  ASSUME LinksStayInside, OnlyExcludedRelinked
  PROVE  Spec => []TypeOK
<1>1. IInv => TypeOK
  BY DEF IInv
<1> QED BY <1>1, Inductive, PTL

(* The files check would analyse are spellings that are not excluded. *)
LEMMA DiscoveredFacts ==
  \A q : q \in ToSet(Discovered) <=> q \in Inside \ Excluded /\ Content(q) # Absent
<1> DEFINE D == {p \in Paths \ Excluded : Content(p) # Absent}
<1>1. \A q : Occurs(q, Walk) <=> q \in Inside
  BY DEF Occurs, Inside, ToSet
<1>2. \A q : Occurs(q, Kept(Walk, D)) <=> q \in D /\ Occurs(q, Walk)
  <2> HIDE DEF D
  <2> QED BY WalkAssumption, KeptElements
<1>3. \A q : q \in ToSet(Discovered) <=> Occurs(q, Discovered)
  BY DEF Occurs, ToSet
<1>4. Discovered = Kept(Walk, D)
  BY DEF Discovered
<1> QED BY <1>1, <1>2, <1>3, <1>4 DEF Paths

(* A held file, once no event is pending, is one check would analyse. *)
LEMMA SettledHeldIsAnalysed ==
  ASSUME TypeOK, NEW c, Holds(Rebuilt, c)
  PROVE  \E q \in ToSet(Discovered) : link[q] = c
<1>1. disk \in [Paths -> Contents] /\ link \in [Paths -> Paths]
  BY DEF TypeOK, Contents
<1>2. Rebuilt = BuiltFrom(disk, link)
  BY <1>1, RebuiltIsBuilt
<1>3. PICK q \in Inside : q \in Analysable(disk, link) /\ link[q] = c
  BY <1>1, <1>2, HeldIsBuilt
<1> QED BY <1>3, ContentsAssumption, DiscoveredFacts DEF Analysable, Content

(* The exclude gate never silences a buffer check would analyse under some  *)
(* name, also while events are pending; and with none pending it lets       *)
(* through no excluded one (ExcludeMatcher::excludes).                      *)
THEOREM GateIsCheck ==
  ASSUME LinksStayInside, OnlyExcludedRelinked
  PROVE  Spec => []GateAgreesWithCheck
<1>1. ASSUME IInv PROVE GateAgreesWithCheck
  <2> SUFFICES ASSUME NEW p \in Paths, Content(p) # Absent
               PROVE  LET analysed == \E q \in ToSet(Discovered) : link[q] = link[p] IN
                        /\ Gate(p) => ~ analysed
                        /\ events = {} /\ Spellings(p) # {} /\ ~ analysed => Gate(p)
    BY DEF GateAgreesWithCheck
  <2>1. Canonical(p) = link[p]
    BY DEF Canonical
  <2>2. TypeOK /\ HeldMatchesRebuild
    BY <1>1, SettledIsRebuilt DEF IInv
  <2>3. /\ link \in [Paths -> Paths]
        /\ \A q \in Paths : link[link[q]] = link[q]
        /\ Inside \subseteq Paths
    BY <2>2 DEF TypeOK, Paths
  <2>4. ASSUME Gate(p), NEW q \in ToSet(Discovered), link[q] = link[p] PROVE FALSE
    <3>1. q \in Inside \ Excluded
      BY DiscoveredFacts
    <3>2. ~ IsLink(q)
      BY <2>1, <2>4 DEF Gate
    <3>3. q = link[p]
      BY <2>4, <3>2 DEF IsLink
    <3>4. q \in Spellings(p)
      BY <2>1, <3>1, <3>3 DEF Spellings
    <3> QED BY <2>4, <3>1, <3>4 DEF Gate
  <2>5. ASSUME events = {}, Spellings(p) # {}, \A q \in ToSet(Discovered) : link[q] # link[p]
        PROVE  Gate(p)
    <3>1. ~ (on /\ Holds(held, link[p]))
      <4> SUFFICES ASSUME on, Holds(held, link[p]) PROVE FALSE
        OBVIOUS
      <4>1. held = Rebuilt
        BY <2>2, <2>5 DEF HeldMatchesRebuild
      <4> QED BY <2>2, <2>5, <4>1, SettledHeldIsAnalysed
    <3>2. ASSUME NEW r \in Spellings(p), r \notin Excluded PROVE FALSE
      <4>1. r \in Inside /\ (r = p \/ r = link[p])
        BY <2>1 DEF Spellings
      <4>2. link[r] = link[p]
        BY <2>3, <4>1
      <4>3. Content(r) # Absent
        BY <4>2 DEF Content
      <4> QED BY <2>5, <3>2, <4>1, <4>2, <4>3, DiscoveredFacts
    <3> QED BY <2>1, <2>5, <3>1, <3>2 DEF Gate
  <2> QED BY <2>4, <2>5
<1> QED BY <1>1, Inductive, PTL
=================================================================================
