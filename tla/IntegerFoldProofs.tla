--------------------------- MODULE IntegerFoldProofs ---------------------------
(***************************************************************************)
(* Constant folding of integers is what Ruby computes, for words of every  *)
(* width: the machine's truncated division and remainder, corrected, are   *)
(* Ruby's floored ones, and a shift that leaves the word exact loses       *)
(* nothing.                                                                *)
(***************************************************************************)
EXTENDS IntegerFold, WellFoundedInduction, TLAPS

Half == 2 ^ (Width - 1)

LEMMA WordFacts ==
  /\ Half \in Nat /\ Half >= 2 /\ 2 ^ Width = 2 * Half
  /\ MinWord = -Half
  /\ \A n : n \in Word <=> n \in Int /\ -Half <= n /\ n < Half
<1>1. Width \in Nat /\ Width >= 2
  BY WidthAssumption
<1>2. 2 ^ Width = 2 * Half
  BY <1>1, PowersAssumption DEF Half
<1>3. Half = 2 * 2 ^ (Width - 2) /\ Half \in Nat /\ 2 ^ (Width - 2) \in Nat \ {0}
  <2>1. Width - 1 \in 1 .. Width /\ Width - 2 \in 0 .. Width /\ (Width - 1) - 1 = Width - 2
    BY <1>1
  <2>2. 2 ^ (Width - 1) = 2 * 2 ^ ((Width - 1) - 1)
    BY <2>1, PowersAssumption
  <2>3. 2 ^ (Width - 1) \in Nat /\ 2 ^ (Width - 2) \in Nat \ {0}
    BY <1>1, <2>1, PowersAssumption
  <2> QED
    BY <2>1, <2>2, <2>3 DEF Half
<1>4. Half >= 2
  BY <1>3
<1>5. MinWord = -Half /\ Word = (-Half) .. (Half - 1)
  BY DEF MinWord, MaxWord, Word, Half
<1> QED
  BY <1>2, <1>3, <1>4, <1>5

LEMMA Division ==
  ASSUME NEW m \in Int, NEW n \in Nat, n > 0
  PROVE  /\ m \div n \in Int /\ m % n \in Int
         /\ m = n * (m \div n) + (m % n) /\ 0 <= m % n /\ m % n < n
OBVIOUS

(* The machine's quotient and remainder. *)
LEMMA QuotientFacts ==
  ASSUME NEW m \in Int, NEW n \in Int, n # 0
  PROVE  /\ Quotient(m, n) \in Int
         /\ Remainder(m, n) \in Int
         /\ m = n * Quotient(m, n) + Remainder(m, n)
         /\ Magnitude(Remainder(m, n)) < Magnitude(n)
         /\ m >= 0 => Remainder(m, n) >= 0
         /\ m < 0 => Remainder(m, n) <= 0
<1> DEFINE A == Magnitude(m)
           B == Magnitude(n)
           q == A \div B
           s == A % B
<1>1. /\ A \in Nat /\ A = IF m < 0 THEN -m ELSE m
      /\ B \in Nat /\ B > 0 /\ B = IF n < 0 THEN -n ELSE n
  BY DEF Magnitude
<1> HIDE DEF A, B
<1>2. q \in Int /\ s \in Int /\ A = B * q + s /\ 0 <= s /\ s < B
  <2>1. A \in Int /\ B \in Nat /\ B > 0
    BY <1>1
  <2>2. A = B * (A \div B) + (A % B) /\ A \div B \in Int /\ A % B \in Int
    BY <2>1, Division
  <2>3. 0 <= A % B /\ A % B < B
    BY <2>1, Division
  <2> QED
    BY <2>2, <2>3 DEF q, s
<1>3. Quotient(m, n) = IF (m < 0) = (n < 0) THEN q ELSE -q
  BY DEF Quotient, A, B
<1> HIDE DEF q, s
<1>4. n * q = IF n < 0 THEN -(B * q) ELSE B * q
  BY <1>1, <1>2
<1>5. n * (-q) = -(n * q) /\ n * q \in Int
  BY <1>2
<1>6. Remainder(m, n) = IF m < 0 THEN -s ELSE s
  BY <1>1, <1>2, <1>3, <1>4, <1>5 DEF Remainder
<1>7. Magnitude(Remainder(m, n)) = s
  BY <1>2, <1>6 DEF Magnitude
<1>8. n * Quotient(m, n) + Remainder(m, n) = m
  BY <1>1, <1>2, <1>3, <1>4, <1>5, <1>6
<1> QED
  BY <1>1, <1>2, <1>3, <1>6, <1>7, <1>8 DEF B

(* Ruby's quotient is the one whose remainder has the divisor's sign. *)
LEMMA FloorIs ==
  ASSUME NEW m \in Int, NEW n \in Int, n # 0, NEW f \in Int, NEW r \in Int,
         m = n * f + r,
         r = 0 \/ (n > 0 /\ 0 < r /\ r < n) \/ (n < 0 /\ n < r /\ r < 0)
  PROVE  Floor(m, n) = f
<1>1. CASE n > 0
  <2>1. m \div n = f
    BY <1>1
  <2> QED
    BY <1>1, <2>1 DEF Floor
<1>2. CASE n < 0
  <2> DEFINE d == -n
             g == -r
  <2>1. d \in Int /\ d > 0 /\ g \in Int /\ 0 <= g /\ g < d /\ n * f = -(d * f)
    BY <1>2
  <2>2. -m = d * f + g
    BY <2>1
  <2> HIDE DEF d, g
  <2>3. (-m) \div d = f
    BY <2>1, <2>2
  <2> QED
    BY <1>2, <2>3 DEF Floor, d
<1> QED
  BY <1>1, <1>2

(* ruby_mod answers what Ruby's % does, unless it traps. *)
LEMMA ModIsRubys ==
  ASSUME NEW m \in Int, NEW n \in Int, n # 0, ~(m = MinWord /\ n = -1)
  PROVE  ruby_mod(m, n) \in Int /\ ruby_mod(m, n) = m - n * Floor(m, n)
<1> DEFINE Q == Quotient(m, n)
           R == Remainder(m, n)
<1>1. /\ Q \in Int /\ R \in Int /\ m = n * Q + R
      /\ Magnitude(R) < Magnitude(n)
  BY QuotientFacts
<1>2. ruby_mod(m, n) = IF R # 0 /\ (R < 0) # (n < 0) THEN R + n ELSE R
  BY DEF ruby_mod
<1> HIDE DEF Q, R
<1>3. /\ n > 0 => -n < R /\ R < n
      /\ n < 0 => n < R /\ R < -n
  BY <1>1 DEF Magnitude
<1>4. CASE R # 0 /\ (R < 0) # (n < 0)
  <2>1. n * (Q - 1) = n * Q - n /\ n * Q \in Int
    BY <1>1
  <2>2. m = n * (Q - 1) + (R + n)
    BY <1>1, <2>1
  <2>3. (n > 0 /\ 0 < R + n /\ R + n < n) \/ (n < 0 /\ n < R + n /\ R + n < 0)
    BY <1>1, <1>3, <1>4
  <2>4. Floor(m, n) = Q - 1
    BY <1>1, <2>2, <2>3, FloorIs
  <2>5. ruby_mod(m, n) = R + n
    BY <1>2, <1>4
  <2>6. m - n * (Q - 1) = R + n
    BY <1>1, <2>1
  <2> QED
    BY <1>1, <2>4, <2>5, <2>6
<1>5. CASE ~(R # 0 /\ (R < 0) # (n < 0))
  <2>1. R = 0 \/ (n > 0 /\ 0 < R /\ R < n) \/ (n < 0 /\ n < R /\ R < 0)
    BY <1>1, <1>3, <1>5
  <2>2. Floor(m, n) = Q
    BY <1>1, <2>1, FloorIs
  <2>3. n * Q \in Int
    BY <1>1
  <2> QED
    BY <1>1, <1>2, <1>5, <2>2, <2>3
<1> QED
  BY <1>4, <1>5

(* checked_div_euclid is Ruby's / for a positive divisor; for a negative   *)
(* one it is not, but leaves the word only where Ruby's does.              *)
LEMMA DivEuclidIsRubys ==
  ASSUME NEW m \in Word, NEW n \in Word, n > 0
  PROVE  DivEuclid(m, n) = Checked(Floor(m, n)) /\ Floor(m, n) \in Int
<1> DEFINE Q == Quotient(m, n)
           R == Remainder(m, n)
<1>1. m \in Int /\ n \in Int
  BY WordFacts
<1>2. /\ Q \in Int /\ R \in Int /\ m = n * Q + R
      /\ Magnitude(R) < Magnitude(n)
  BY <1>1, QuotientFacts
<1>3. DivEuclid(m, n) = Checked(IF R >= 0 THEN Q ELSE Q - 1)
  BY DEF DivEuclid
<1> HIDE DEF Q, R
<1>4. -n < R /\ R < n
  BY <1>1, <1>2 DEF Magnitude
<1>5. CASE R >= 0
  <2>1. Floor(m, n) = Q
    BY <1>1, <1>2, <1>4, <1>5, FloorIs
  <2> QED
    BY <1>2, <1>3, <1>5, <2>1
<1>6. CASE R < 0
  <2>1. n * (Q - 1) = n * Q - n /\ n * Q \in Int
    BY <1>1, <1>2
  <2>2. m = n * (Q - 1) + (R + n) /\ 0 < R + n /\ R + n < n
    BY <1>1, <1>2, <1>4, <1>6, <2>1
  <2>3. Floor(m, n) = Q - 1
    BY <1>1, <1>2, <2>2, FloorIs
  <2> QED
    BY <1>2, <1>3, <1>6, <2>3
<1> QED
  BY <1>2, <1>5, <1>6

LEMMA DivEuclidLeavesTheWord ==
  ASSUME NEW m \in Word, NEW n \in Word, n < 0, DivEuclid(m, n) = Declined
  PROVE  Floor(m, n) \notin Word
<1> DEFINE Q == Quotient(m, n)
           R == Remainder(m, n)
<1>1. m \in Int /\ n \in Int /\ -Half <= m /\ m < Half /\ Half \in Nat /\ Half >= 2
  BY WordFacts
<1>2. /\ Q \in Int /\ R \in Int /\ m = n * Q + R
      /\ Magnitude(R) < Magnitude(n)
      /\ m >= 0 => R >= 0
      /\ m < 0 => R <= 0
  BY <1>1, QuotientFacts
<1>3. (IF R >= 0 THEN Q ELSE Q + 1) \notin Word
  BY <1>1, <1>2, AnswersAssumption, WordFacts DEF DivEuclid, Checked
<1> HIDE DEF Q, R
<1>4. n < R /\ R < -n
  BY <1>1, <1>2 DEF Magnitude
<1>5. Q >= 1 => n * Q <= n
  BY <1>1, <1>2
<1>6. Q <= 0 => n * Q >= -Q
  BY <1>1, <1>2
<1>7. CASE m >= 0
  <2>1. n * Q \in Int
    BY <1>1, <1>2
  <2>2. Q <= 0 /\ -Q <= m
    BY <1>1, <1>2, <1>4, <1>5, <1>6, <1>7, <2>1
  <2>3. Q \in Word
    BY <1>1, <1>2, <2>2, WordFacts
  <2> QED
    BY <1>2, <1>3, <1>7, <2>3
<1>8. CASE m < 0 /\ R = 0
  <2>1. Floor(m, n) = Q
    BY <1>1, <1>2, <1>8, FloorIs
  <2> QED
    BY <1>3, <1>8, <2>1
<1>9. CASE m < 0 /\ R < 0
  <2>1. n <= -2 /\ n * Q \in Int
    BY <1>1, <1>2, <1>4, <1>9
  <2>2. Q >= 0
    BY <1>1, <1>2, <1>4, <1>6, <1>9, <2>1
  <2>3. n * Q <= -2 * Q
    BY <1>1, <1>2, <2>1, <2>2
  <2>4. 2 * Q + 1 <= Half
    BY <1>1, <1>2, <1>9, <2>1, <2>3
  <2>5. Q + 1 \in Word
    BY <1>1, <1>2, <2>2, <2>4, WordFacts
  <2> QED
    BY <1>2, <1>3, <1>9, <2>5
<1> QED
  BY <1>2, <1>7, <1>8, <1>9

(* A shift to the left whose exact result is a word loses no bit. *)
LEMMA WrappedIsExact ==
  ASSUME NEW n \in Int
  PROVE  Wrapped(n) \in Int /\ (n \in Word => Wrapped(n) = n)
<1> DEFINE size == 2 ^ Width
           above == n - MinWord
<1>1. size \in Nat /\ size > 0 /\ size = 2 * Half /\ MinWord \in Int /\ MinWord = -Half /\ Half \in Nat
  BY WordFacts
<1>2. Wrapped(n) = (above % size) + MinWord
  BY DEF Wrapped
<1>3. n \in Word => 0 <= above /\ above < size
  BY <1>1, WordFacts
<1>4. above \in Int
  BY <1>1
<1>5. above = n - MinWord
  OBVIOUS
<1> HIDE DEF size, above
<1>6. above % size \in Int
  BY <1>1, <1>4, Division
<1>7. 0 <= above /\ above < size => above % size = above
  BY <1>1, <1>4
<1> QED
  BY <1>1, <1>2, <1>3, <1>4, <1>5, <1>6, <1>7

LEMMA ShiftFacts ==
  ASSUME NEW n \in Int, NEW count \in 0 .. Width - 1
  PROVE  n * 2 ^ count \in Int /\ n \div 2 ^ count \in Int
<1> DEFINE factor == 2 ^ count
<1>1. factor \in Nat /\ factor > 0
  BY WidthAssumption, PowersAssumption
<1> HIDE DEF factor
<1>2. n * factor \in Int /\ n \div factor \in Int
  BY <1>1, Division
<1> QED
  BY <1>2 DEF factor

(* Induction over the naturals, for a set of them. *)
LEMMA SetInduction ==
    ASSUME NEW P \in SUBSET Nat, 0 \in P, \A n \in P : n + 1 \in P
    PROVE  P = Nat
<1> SUFFICES ASSUME P # Nat PROVE FALSE
  OBVIOUS
<1> DEFINE T == Nat \ P
           R == OpToRel(<, Nat)
<1>1. IsWellFoundedOn(R, Nat)
  BY NatLessThanWellFounded
<1>2. T \subseteq Nat /\ T # {}
  OBVIOUS
<1>3. PICK x \in T : \A y \in T : <<y, x>> \notin R
  <2> HIDE DEF T, R
  <2> QED BY <1>1, <1>2, WFMin
<1>4. x # 0 /\ x - 1 \in Nat /\ x \in Nat
  OBVIOUS
<1>5. <<x - 1, x>> \in R
  BY <1>4 DEF OpToRel
<1>6. x - 1 \in P
  BY <1>3, <1>4, <1>5
<1>7. x - 1 + 1 \in P
  BY <1>6
<1> QED
  BY <1>4, <1>7

(* Multiplying by a base other than -1, 0 and 1 doubles, at least. *)
LEMMA TimesDoubles ==
  ASSUME NEW m \in Int, m \notin {-1, 0, 1}, NEW z \in Int
  PROVE  m * z \in Int /\ Magnitude(m * z) >= 2 * Magnitude(z)
<1>1. \A p, q \in Nat : p * q \in Nat
  OBVIOUS
<1>2. CASE m >= 2 /\ z >= 0
  <2>1. (m - 2) * z \in Nat /\ m * z = (m - 2) * z + 2 * z
    BY <1>1, <1>2
  <2> QED
    BY <1>2, <2>1 DEF Magnitude
<1>3. CASE m >= 2 /\ z < 0
  <2>1. (m - 2) * (-z) \in Nat /\ -(m * z) = (m - 2) * (-z) - 2 * z
    BY <1>1, <1>3
  <2> QED
    BY <1>3, <2>1 DEF Magnitude
<1>4. CASE m <= -2 /\ z >= 0
  <2>1. (-m - 2) * z \in Nat /\ -(m * z) = (-m - 2) * z + 2 * z
    BY <1>1, <1>4
  <2> QED
    BY <1>4, <2>1 DEF Magnitude
<1>5. CASE m <= -2 /\ z < 0
  <2>1. (-m - 2) * (-z) \in Nat /\ m * z = (-m - 2) * (-z) - 2 * z
    BY <1>1, <1>5
  <2> QED
    BY <1>5, <2>1 DEF Magnitude
<1> QED
  BY <1>2, <1>3, <1>4, <1>5

(* So its powers have left the word by the time the exponent is the width. *)
LEMMA PowersLeaveTheWord ==
  ASSUME NEW x \in Word, x \notin {-1, 0, 1}, NEW y \in Word, y >= Width
  PROVE  x ^ y \notin Word
<1> DEFINE Grown(n) == /\ x ^ n \in Int
                       /\ n <= Width => Magnitude(x ^ n) >= 2 ^ n
                       /\ n >= Width => Magnitude(x ^ n) >= 2 ^ Width
           P == {n \in Nat : n <= MaxWord => Grown(n)}
<1>1. /\ Width \in Nat /\ Width >= 2 /\ x \in Int /\ x \in Word \ {0}
      /\ y \in Nat /\ y <= MaxWord
      /\ Half \in Nat /\ Half >= 2 /\ 2 ^ Width = 2 * Half /\ MaxWord = Half - 1
  BY WidthAssumption, WordFacts DEF MaxWord, Half, Word
<1>2. 0 \in P
  <2>1. x ^ 0 = 1 /\ 2 ^ 0 = 1
    BY <1>1, PowersAssumption
  <2> QED
    BY <1>1, <2>1 DEF Magnitude
<1>3. ASSUME NEW n \in P PROVE n + 1 \in P
  <2> SUFFICES ASSUME n + 1 <= MaxWord PROVE Grown(n + 1)
    OBVIOUS
  <2>1. n \in Nat /\ n + 1 \in 1 .. MaxWord /\ n + 1 - 1 = n /\ Grown(n)
    BY <1>1
  <2>2. x ^ (n + 1) = x * x ^ n
    <3>1. x ^ (n + 1) = x * x ^ (n + 1 - 1)
      BY <1>1, <2>1, PowersAssumption
    <3> QED
      BY <2>1, <3>1
  <2> DEFINE z == x ^ n
             w == x ^ (n + 1)
  <2>3. w \in Int /\ Magnitude(w) >= 2 * Magnitude(z) /\ z \in Int
    BY <1>1, <2>1, <2>2, TimesDoubles
  <2>4. ASSUME n + 1 <= Width PROVE Magnitude(w) >= 2 ^ (n + 1)
    <3> DEFINE s == 2 ^ n
               t == 2 ^ (n + 1)
    <3>1. n + 1 \in 1 .. Width /\ n \in 0 .. Width
      BY <1>1, <2>1, <2>4
    <3>2. t = 2 * s /\ s \in Nat
      <4>1. 2 ^ (n + 1) = 2 * 2 ^ (n + 1 - 1) /\ 2 ^ n \in Nat
        BY <3>1, PowersAssumption
      <4> QED
        BY <2>1, <4>1
    <3>3. Magnitude(z) >= s /\ Magnitude(z) \in Int /\ Magnitude(w) \in Int
      BY <2>1, <2>3, <2>4, <1>1 DEF Magnitude
    <3> HIDE DEF s, t, z, w
    <3>4. Magnitude(w) >= t
      BY <2>3, <3>2, <3>3
    <3> QED
      BY <3>4 DEF t
  <2>5. ASSUME n + 1 >= Width PROVE Magnitude(w) >= 2 ^ Width
    <3>1. Magnitude(z) \in Nat /\ Magnitude(w) \in Nat
      BY <2>3 DEF Magnitude
    <3>2. CASE n >= Width
      <4>1. Magnitude(z) >= 2 * Half
        BY <1>1, <2>1, <3>2
      <4> HIDE DEF z, w
      <4> QED
        BY <1>1, <2>3, <3>1, <4>1
    <3>3. CASE n + 1 = Width
      BY <1>1, <2>4, <3>3
    <3> QED
      BY <1>1, <2>1, <2>5, <3>2, <3>3
  <2> QED
    BY <2>3, <2>4, <2>5
<1>4. P = Nat
  <2>1. P \in SUBSET Nat
    OBVIOUS
  <2> HIDE DEF P
  <2> QED
    BY <1>2, <1>3, <2>1, SetInduction
<1>5. x ^ y \in Int /\ Magnitude(x ^ y) >= 2 ^ Width
  BY <1>1, <1>4
<1> QED
  BY <1>1, <1>5, WordFacts DEF Magnitude

LEMMA CheckedFacts ==
  \A n : /\ Checked(n) # Panics
         /\ Checked(n) # Declined => Checked(n) = n
         /\ Checked(n) = Declined => n \notin Word
BY WordFacts, AnswersAssumption DEF Checked

(* A call the code folds, outside the three corners, has Ruby's answer. *)
LEMMA FoldIsRubys ==
  ASSUME NEW m \in Ops, NEW x \in Word, NEW y \in Word,
         ~(m = "/" /\ y < 0),
         ~(m = "<<" /\ y >= 0 /\ x * 2 ^ y \notin Word),
         ~(m = "%" /\ x = MinWord /\ y = -1)
  PROVE  /\ fold_int(m, x, y) # Panics
         /\ fold_int(m, x, y) # Declined => fold_int(m, x, y) = Ruby(m, x, y)
<1>1. x \in Int /\ y \in Int
  BY WordFacts
<1>2. CASE m \in {"abs", "succ", "pred", "+", "-", "*"}
  BY <1>2, CheckedFacts DEF fold_int, Ruby
<1>3. CASE m = "**"
  <2>1. fold_int(m, x, y) = IF y \in 0 .. MaxExponent THEN Checked(Power(x, y)) ELSE Declined
    BY <1>3 DEF fold_int, CheckedPow
  <2>2. y >= 0 => Ruby(m, x, y) = Power(x, y)
    BY <1>1, <1>3 DEF Ruby
  <2> QED
    BY <1>1, <2>1, <2>2, CheckedFacts, AnswersAssumption
<1>4. CASE m = "/"
  <2>1. fold_int(m, x, y) = IF y = 0 THEN Declined ELSE DivEuclid(x, y)
    BY <1>4 DEF fold_int
  <2>2. Ruby(m, x, y) = IF y = 0 THEN Undefined ELSE Floor(x, y)
    BY <1>4 DEF Ruby
  <2>3. y > 0 => DivEuclid(x, y) = Checked(Floor(x, y))
    BY DivEuclidIsRubys
  <2>4. y = 0 \/ y > 0
    BY <1>1, <1>4
  <2> QED
    BY <2>1, <2>2, <2>3, <2>4, <1>1, CheckedFacts, AnswersAssumption
<1>5. CASE m = "%"
  <2>1. fold_int(m, x, y) = IF y = 0 THEN Declined ELSE ruby_mod(x, y)
    BY <1>5 DEF fold_int
  <2>2. Ruby(m, x, y) = IF y = 0 THEN Undefined ELSE x - y * Floor(x, y)
    BY <1>5 DEF Ruby
  <2>3. y # 0 => ruby_mod(x, y) \in Int /\ ruby_mod(x, y) = x - y * Floor(x, y)
    BY <1>1, <1>5, ModIsRubys
  <2> QED
    BY <2>1, <2>2, <2>3, AnswersAssumption
<1>6. CASE m = "<<"
  <2>1. fold_int(m, x, y) = IF y \in 0 .. Width - 1 THEN Wrapped(x * 2 ^ y) ELSE Declined
    BY <1>6 DEF fold_int, ShiftLeft
  <2>2. y >= 0 => Ruby(m, x, y) = x * 2 ^ y
    BY <1>6 DEF Ruby
  <2>3. ASSUME y \in 0 .. Width - 1
        PROVE  Wrapped(x * 2 ^ y) = x * 2 ^ y /\ x * 2 ^ y \in Int /\ y >= 0
    <3>1. y >= 0 /\ x * 2 ^ y \in Int
      BY <1>1, <2>3, ShiftFacts
    <3>2. x * 2 ^ y \in Word
      BY <1>6, <3>1
    <3> QED
      BY <3>1, <3>2, WrappedIsExact
  <2> QED
    BY <2>1, <2>2, <2>3, AnswersAssumption
<1>7. CASE m = ">>"
  <2>1. fold_int(m, x, y) = IF y \in 0 .. Width - 1 THEN x \div 2 ^ y ELSE Declined
    BY <1>7 DEF fold_int, ShiftRight
  <2>2. y >= 0 => Ruby(m, x, y) = x \div 2 ^ y
    BY <1>7 DEF Ruby
  <2>3. y \in 0 .. Width - 1 => x \div 2 ^ y \in Int /\ y >= 0
    BY <1>1, ShiftFacts
  <2> QED
    BY <2>1, <2>2, <2>3, AnswersAssumption
<1> QED
  BY <1>2, <1>3, <1>4, <1>5, <1>6, <1>7, OpsAssumption

(* A call the code declines is one Ruby answers with no word, a shift by   *)
(* the width, more, or to the other side, or a power of -1, 0 or 1 whose   *)
(* exponent is too large.                                                  *)
LEMMA DeclinedIsOutside ==
  ASSUME NEW m \in Ops, NEW x \in Word, NEW y \in Word, fold_int(m, x, y) = Declined
  PROVE  \/ Ruby(m, x, y) \notin Word
         \/ m \in {"<<", ">>"} /\ y \notin 0 .. Width - 1
         \/ m = "**" /\ y > MaxExponent /\ x \in {-1, 0, 1}
<1>1. x \in Int /\ y \in Int
  BY WordFacts
<1>2. Undefined \notin Word /\ Declined \notin Int
  BY WordFacts, AnswersAssumption
<1>3. CASE m \in {"abs", "succ", "pred", "+", "-", "*"}
  BY <1>3, CheckedFacts DEF fold_int, Ruby
<1>4. CASE m = "**"
  <2>1. fold_int(m, x, y) = IF y \in 0 .. MaxExponent THEN Checked(Power(x, y)) ELSE Declined
    BY <1>4 DEF fold_int, CheckedPow
  <2>2. Ruby(m, x, y) = IF y < 0 THEN Undefined ELSE Power(x, y)
    BY <1>4 DEF Ruby
  <2>3. CASE y < 0
    BY <1>2, <2>2, <2>3
  <2>4. CASE y \in 0 .. MaxExponent
    BY <1>1, <1>2, <2>1, <2>2, <2>4, CheckedFacts
  <2>5. CASE y > MaxExponent
    <3>1. y >= Width /\ y # 0
      BY <1>1, <2>5, ExponentAssumption, WidthAssumption
    <3>2. x \notin {-1, 0, 1} => Power(x, y) \notin Word
      BY <3>1, PowersLeaveTheWord DEF Power
    <3>3. ~ (y < 0)
      BY <1>1, <2>5, ExponentAssumption
    <3> QED
      BY <1>4, <2>2, <2>5, <3>2, <3>3
  <2> QED
    BY <1>1, <2>3, <2>4, <2>5, ExponentAssumption
<1>5. CASE m = "/"
  <2>1. y = 0 \/ DivEuclid(x, y) = Declined
    BY <1>5 DEF fold_int
  <2>2. Ruby(m, x, y) = IF y = 0 THEN Undefined ELSE Floor(x, y)
    BY <1>5 DEF Ruby
  <2>3. ASSUME y # 0 PROVE Floor(x, y) \notin Word
    <3>1. CASE y > 0
      BY <2>1, <3>1, DivEuclidIsRubys, CheckedFacts
    <3>2. CASE y < 0
      BY <2>1, <3>2, DivEuclidLeavesTheWord
    <3> QED
      BY <1>1, <2>3, <3>1, <3>2
  <2> QED
    BY <1>2, <2>2, <2>3
<1>6. CASE m = "%"
  <2>1. y = 0 \/ ruby_mod(x, y) = Declined
    BY <1>6 DEF fold_int
  <2>2. y # 0 => ruby_mod(x, y) # Declined
    <3>1. CASE x = MinWord /\ y = -1
      BY <3>1, AnswersAssumption DEF ruby_mod
    <3>2. CASE ~(x = MinWord /\ y = -1)
      BY <1>1, <1>2, <3>2, ModIsRubys
    <3> QED
      BY <3>1, <3>2
  <2> QED
    BY <1>2, <1>6, <2>1, <2>2 DEF Ruby
<1>7. CASE m = "<<"
  <2>1. y \in 0 .. Width - 1 => Wrapped(x * 2 ^ y) \in Int
    BY <1>1, ShiftFacts, WrappedIsExact
  <2>2. fold_int(m, x, y) = IF y \in 0 .. Width - 1 THEN Wrapped(x * 2 ^ y) ELSE Declined
    BY <1>7 DEF fold_int, ShiftLeft
  <2> QED
    BY <1>2, <1>7, <2>1, <2>2
<1>8. CASE m = ">>"
  <2>1. y \in 0 .. Width - 1 => x \div 2 ^ y \in Int
    BY <1>1, ShiftFacts
  <2>2. fold_int(m, x, y) = IF y \in 0 .. Width - 1 THEN x \div 2 ^ y ELSE Declined
    BY <1>8 DEF fold_int, ShiftRight
  <2> QED
    BY <1>2, <1>8, <2>1, <2>2
<1> QED
  BY <1>3, <1>4, <1>5, <1>6, <1>7, <1>8, OpsAssumption
--------------------------------------------------------------------------------
(* A call is of two words, and is answered by fold_int or not yet. *)
IInv ==
  /\ method \in Ops
  /\ a \in Word /\ b \in Word
  /\ answer \in {Pending, fold_int(method, a, b)}

LEMMA Inductive == Spec => []IInv
<1>1. Init => IInv
  BY DEF Init, IInv
<1>2. IInv /\ [Fold]_vars => IInv'
  BY DEF IInv, Fold, vars
<1> QED
  BY <1>1, <1>2, PTL DEF Spec

(* Whatever the width, a fold outside the three corners of Departs neither *)
(* traps nor answers anything but what Ruby computes (fold_int).           *)
THEOREM FoldsExactly == Spec => []ExactElsewhere
<1>1. ASSUME IInv PROVE ExactElsewhere
  <2>1. SUFFICES ASSUME ~Departs PROVE NeverPanics /\ ByteExact
    BY DEF ExactElsewhere
  <2>2. CASE answer = Pending
    BY <2>2, AnswersAssumption DEF NeverPanics, ByteExact, Folded
  <2>3. CASE answer = fold_int(method, a, b)
    BY <1>1, <2>1, <2>3, FoldIsRubys DEF IInv, Departs, NeverPanics, ByteExact, Folded
  <2> QED
    BY <1>1, <2>2, <2>3 DEF IInv
<1> QED
  BY <1>1, Inductive, PTL

(* Whatever the width and the largest exponent above it, fold_int declines *)
(* no call that Ruby answers with a word, but for the shifts it leaves     *)
(* alone and the powers of -1, 0 and 1 beyond that exponent.               *)
THEOREM DeclinesNothingElse == Spec => []DeclinesOnlyBoundaries
<1>1. ASSUME IInv PROVE DeclinesOnlyBoundaries
  BY <1>1, DeclinedIsOutside, AnswersAssumption DEF IInv, DeclinesOnlyBoundaries
<1> QED
  BY <1>1, Inductive, PTL
================================================================================
