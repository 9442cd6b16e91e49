------------------------------ MODULE IntegerFold ------------------------------
(***************************************************************************)
(* Constant folding of Integer calls (crates/rigor-infer/src/folding.rs:     *)
(* fold_int): two's complement words of Width bits, where the code has 64,   *)
(* against Ruby's unbounded integers.  The contract of fold is that it       *)
(* answers only what Ruby would compute and declines everything else.        *)
(* The bitwise operators and comparisons are one machine instruction each    *)
(* and are left out.                                                         *)
(***************************************************************************)
EXTENDS Integers

CONSTANTS
  Width,         \* of a word
  MaxExponent,   \* u32::MAX
  Ops,           \* the methods called
  Declined,      \* fold's None
  Panics,        \* the arithmetic overflow trap
  Undefined,     \* Ruby raises, or answers something that is no Integer
  Pending

ASSUME WidthAssumption == Width \in Nat \ {0, 1}

\* An exponent the code takes can exceed the width of a word.
ASSUME ExponentAssumption == MaxExponent \in Nat /\ MaxExponent >= Width

ASSUME OpsAssumption ==
  Ops \subseteq {"abs", "succ", "pred", "+", "-", "*", "/", "%", "**", "<<", ">>"}

\* No refusal is an integer, nor one refusal another.
ASSUME AnswersAssumption ==
  /\ \A refusal \in {Declined, Panics, Undefined, Pending} : refusal \notin Int
  /\ Declined # Panics /\ Declined # Pending /\ Panics # Pending

MinWord == -(2 ^ (Width - 1))
MaxWord == 2 ^ (Width - 1) - 1
Word == MinWord .. MaxWord

\* Arithmetic, for the provers, who know nothing of powers.
ASSUME PowersAssumption ==
  /\ 2 ^ 0 = 1 /\ \A n \in 0 .. Width : 2 ^ n \in Nat \ {0}
  /\ \A n \in 1 .. Width : 2 ^ n = 2 * 2 ^ (n - 1)
  /\ \A m \in Word \ {0} : m ^ 0 = 1
  /\ \A m \in Word \ {0}, n \in 1 .. MaxWord : m ^ n = m * m ^ (n - 1)

VARIABLES method, a, b, answer

vars == <<method, a, b, answer>>

Magnitude(n) == IF n < 0 THEN -n ELSE n

\* checked_add and its like: the exact result, or None when it is no word.
Checked(n) == IF n \in Word THEN n ELSE Declined

\* The machine's shift to the left: the bits that leave the word are lost.
Wrapped(n) == ((n - MinWord) % 2 ^ Width) + MinWord

\* The machine's division: the quotient is truncated, the remainder follows it.
Quotient(m, n) ==
  LET q == Magnitude(m) \div Magnitude(n) IN IF (m < 0) = (n < 0) THEN q ELSE -q
Remainder(m, n) == m - n * Quotient(m, n)

\* checked_div_euclid, of a divisor other than 0
DivEuclid(m, n) ==
  LET q == Quotient(m, n) IN
    Checked(IF Remainder(m, n) >= 0 THEN q ELSE IF n > 0 THEN q - 1 ELSE q + 1)

\* Fault: the sign of the remainder is left as the machine has it.
ModTruncated(m, n) == IF m = MinWord /\ n = -1 THEN Panics ELSE Remainder(m, n)

\* ruby_mod; the remainder instruction traps on the one quotient that is no word.
ruby_mod(m, n) ==
  LET r == Remainder(m, n) IN
    IF m = MinWord /\ n = -1 THEN Panics
    ELSE IF r # 0 /\ (r < 0) # (n < 0) THEN r + n ELSE r

\* << and >>: by less than the width
ShiftLeft(n, count) ==
  IF count \in 0 .. Width - 1 THEN Wrapped(n * 2 ^ count) ELSE Declined

\* Fault: the last shift below the width is refused.
ShiftRightShort(n, count) ==
  IF count \in 0 .. Width - 2 THEN n \div 2 ^ count ELSE Declined

ShiftRight(n, count) ==
  IF count \in 0 .. Width - 1 THEN n \div 2 ^ count ELSE Declined

Power(m, n) == IF n = 0 THEN 1 ELSE m ^ n

\* checked_pow, of the exponents that fit its u32
CheckedPow(m, n) == IF n \in 0 .. MaxExponent THEN Checked(Power(m, n)) ELSE Declined

fold_int(m, x, y) ==
  CASE m = "abs"  -> Checked(Magnitude(x))
    [] m = "succ" -> Checked(x + 1)
    [] m = "pred" -> Checked(x - 1)
    [] m = "+"    -> Checked(x + y)
    [] m = "-"    -> Checked(x - y)
    [] m = "*"    -> Checked(x * y)
    [] m = "/"    -> IF y = 0 THEN Declined ELSE DivEuclid(x, y)
    [] m = "%"    -> IF y = 0 THEN Declined ELSE ruby_mod(x, y)
    [] m = "**"   -> CheckedPow(x, y)
    [] m = "<<"   -> ShiftLeft(x, y)
    [] m = ">>"   -> ShiftRight(x, y)
--------------------------------------------------------------------------------
(* Ruby *)

Floor(m, n) == IF n > 0 THEN m \div n ELSE (-m) \div (-n)

Ruby(m, x, y) ==
  CASE m = "abs"  -> Magnitude(x)
    [] m = "succ" -> x + 1
    [] m = "pred" -> x - 1
    [] m = "+"    -> x + y
    [] m = "-"    -> x - y
    [] m = "*"    -> x * y
    [] m = "/"    -> IF y = 0 THEN Undefined ELSE Floor(x, y)
    [] m = "%"    -> IF y = 0 THEN Undefined ELSE x - y * Floor(x, y)
    [] m = "**"   -> IF y < 0 THEN Undefined ELSE Power(x, y)
    [] m = "<<"   -> IF y >= 0 THEN x * 2 ^ y ELSE x \div 2 ^ (-y)
    [] m = ">>"   -> IF y >= 0 THEN x \div 2 ^ y ELSE x * 2 ^ (-y)
--------------------------------------------------------------------------------
Init ==
  /\ method \in Ops
  /\ a \in Word /\ b \in Word
  /\ answer = Pending

Fold ==
  /\ answer = Pending
  /\ answer' = fold_int(method, a, b)
  /\ UNCHANGED <<method, a, b>>

Spec == Init /\ [][Fold]_vars
--------------------------------------------------------------------------------
(* Properties *)

Folded == answer \notin {Pending, Declined, Panics}

(***************************************************************************)
(* The module's contract: "fold returns Some(result) only when the result   *)
(* is deterministic AND byte-exactly what Ruby would compute".              *)
(***************************************************************************)
ByteExact == Folded => answer = Ruby(method, a, b)

(***************************************************************************)
(* The other half of the contract: on any doubt it returns None, a call     *)
(* that answers.                                                            *)
(***************************************************************************)
NeverPanics == answer # Panics

\* The calls on which fold_int departs from its contract.
Departs ==
  \/ method = "/" /\ b < 0
  \/ method = "<<" /\ b >= 0 /\ a * 2 ^ b \notin Word
  \/ method = "%" /\ a = MinWord /\ b = -1

(***************************************************************************)
(* Everywhere else the contract holds, at the ends of the word range too.   *)
(***************************************************************************)
ExactElsewhere == ~Departs => NeverPanics /\ ByteExact

(***************************************************************************)
(* Nothing is declined without a reason: Ruby raises or leaves the integers *)
(* or the word, or the call shifts by the width, more, or to the other      *)
(* side, or it raises -1, 0 or 1, whose powers are all words, to more than  *)
(* MaxExponent.                                                             *)
(***************************************************************************)
DeclinesOnlyBoundaries ==
  answer = Declined =>
    \/ Ruby(method, a, b) \notin Word
    \/ method \in {"<<", ">>"} /\ b \notin 0 .. Width - 1
    \/ method = "**" /\ b > MaxExponent /\ a \in {-1, 0, 1}
================================================================================
