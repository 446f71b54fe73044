----------------------------- MODULE FixedPoint -----------------------------
(***************************************************************************)
(* Price (and Quantity, the same class) of src/core/price.hpp: a decimal   *)
(* number kept as an integer of so many units of the last of its Places    *)
(* decimal places.  A calculation starts from a text and goes on with the  *)
(* compound assignments.                                                   *)
(*                                                                         *)
(* No operation checks for overflow; the signed integers wrap around, as   *)
(* the header says they do in practice.  Places and Width are 9 and 64 in  *)
(* the code; what is checked of them depends on neither.                   *)
(***************************************************************************)
EXTENDS Integers, SequencesExt

CONSTANTS
    Places,         \* decimal places of a price
    Width,          \* bits of value_
    Minus, Dot,     \* the characters of a number that are no digits
    Texts,          \* the texts that may be parsed
    Operands        \* the raw values and the factors calculated with

ASSUME WidthAssumption ==
    /\ Places \in Nat \ {0} /\ Width \in Nat \ {0}
    /\ 2^(Width - 1) \in Nat \ {0} /\ 2^Width = 2 * 2^(Width - 1)
ASSUME OperandsAssumption == Operands \subseteq Int
ASSUME TextsAssumption ==
    /\ {Minus, Dot} \cap (0 .. 9) = {} /\ Minus # Dot
    /\ \A s \in Texts : s \in Seq({s[i] : i \in DOMAIN s})

VARIABLES
    text,   \* the text value_ was parsed from, until it is calculated with
    value   \* value_

priceVars == <<text, value>>

Ten[n \in Nat] == IF n = 0 THEN 1 ELSE 10 * Ten[n - 1]

\* A digit is more than three bits.
ASSUME DigitsAssumption == 2^(Width - 1) <= Ten[Width \div 3 + 1]

SCALE == Ten[Places]
max == 2^(Width - 1) - 1
min == -max - 1

\* Seeded bug: the register is taken for an unsigned one.
WrapUnsigned(n) == n % 2^Width

\* What a register keeps of the integer n.
Wrap(n) == ((n - min) % 2^Width) + min

Abs(n) == IF n < 0 THEN -n ELSE n

\* The / and % of C++ truncate toward zero.
Quotient(n, d) == IF (n < 0) = (d < 0) THEN Abs(n) \div Abs(d) ELSE -(Abs(n) \div Abs(d))

-----------------------------------------------------------------------------
(* from_string().                                                          *)

\* A digit is taken in, up to so many of them; any other character is passed over.
TakeIn(part, c, limit) ==
    IF c \in 0 .. 9 /\ part.digits < limit
    THEN [value |-> Wrap(part.value * 10 + c), digits |-> part.digits + 1]
    ELSE part
Scanned(s, limit) ==
    FoldLeft(LAMBDA part, c : TakeIn(part, c, limit), [value |-> 0, digits |-> 0], s)

\* Seeded bug: the fraction is not filled up to all places.
PaddedBare(fraction) == fraction.value

\* The fraction, filled up with zeros on the right.
Padded(fraction) == fraction.value * Ten[Places - fraction.digits]

\* Where the first point is, or would be.
Point(s) == Min({i \in DOMAIN s : s[i] = Dot} \cup {Len(s) + 1})

from_string(s) ==
    LET negative == s # <<>> /\ s[1] = Minus
        number == IF negative THEN Tail(s) ELSE s
        decimal_pos == Point(number)
        integer_part == Scanned(SubSeq(number, 1, decimal_pos - 1), Len(number)).value
        fraction == Scanned(SubSeq(number, decimal_pos + 1, Len(number)), Places)
        fractional_part == Padded(fraction)
        final_value == Wrap(Wrap(integer_part * SCALE) + fractional_part)
    IN  IF negative THEN Wrap(-final_value) ELSE final_value

-----------------------------------------------------------------------------
(* to_string().                                                            *)

\* n in so many decimal digits.
Decimal(n, places) == [i \in 1 .. places |-> (n \div Ten[places - i]) % 10]

\* The loop that takes digits off a value while it is positive, whose own sign is
\* lost when the value has no positive counterpart.
int64_to_string(n) ==
    LET abs == IF n < 0 THEN Wrap(-n) ELSE n
        digits == IF abs > 0
                  THEN Decimal(abs, Min({k \in 1 .. Width \div 3 + 1 : abs < Ten[k]})) ELSE <<>>
    IN  IF n = 0 THEN <<0>> ELSE (IF n < 0 THEN <<Minus>> ELSE <<>>) \o digits

\* Seeded bug: the zeros between the point and the first other digit are left out.
FractionBare(n) == int64_to_string(n)

\* Zeros on the left up to all places, none on the right.
Fraction(n) ==
    LET digits == Decimal(n, Places)
    IN  SubSeq(digits, 1, Max({i \in 1 .. Places : digits[i] # 0}))

to_string(v) ==
    LET abs == IF v < 0 THEN Wrap(-v) ELSE v
        integer_part == Quotient(abs, SCALE)
        fractional_part == abs - integer_part * SCALE
    IN  IF v = 0 THEN <<0>>
        ELSE (IF v < 0 THEN <<Minus>> ELSE <<>>)
             \o int64_to_string(integer_part)
             \o (IF fractional_part > 0 THEN <<Dot>> \o Fraction(fractional_part) ELSE <<>>)

-----------------------------------------------------------------------------
(* The calculation.                                                        *)

PriceInit ==
    /\ text \in Texts
    /\ value = from_string(text)

Plus(v, w) == Wrap(v + w)
Times(v, n) == Wrap(v * n)

Add(other) == value' = Plus(value, other) /\ text' = <<>>
Subtract(other) == value' = Wrap(value - other) /\ text' = <<>>
Multiply(n) == value' = Times(value, n) /\ text' = <<>>
\* A division by 0, or of min() by -1, is undefined.
Divide(n) ==
    /\ n # 0 /\ ~(value = min /\ n = -1)
    /\ value' = Quotient(value, n) /\ text' = <<>>

PriceNext == \E n \in Operands : Add(n) \/ Subtract(n) \/ Multiply(n) \/ Divide(n)

-----------------------------------------------------------------------------
(* Correctness.                                                            *)

\* A text that is a number: a sign or none, digits, a point or none.
IsNumber(s) ==
    /\ \E i \in DOMAIN s : s[i] \in 0 .. 9
    /\ \A i \in DOMAIN s : s[i] \in (0 .. 9) \cup {Dot} \cup (IF i = 1 THEN {Minus} ELSE {})
    /\ \A i, j \in DOMAIN s : s[i] = Dot /\ s[j] = Dot => i = j

\* The number, in units of the last place, what lies beyond it cut off.  Each digit
\* counts as much as its distance from the point says.
Weight(s, i) == IF i < Point(s) THEN Places + Point(s) - 1 - i ELSE Places + Point(s) - i
Share(s, i) == IF s[i] \in 0 .. 9 /\ Weight(s, i) >= 0 THEN s[i] * Ten[Weight(s, i)] ELSE 0
Magnitude(s) == FoldLeft(LAMBDA x, y : x + y, 0, [i \in DOMAIN s |-> Share(s, i)])
Number(s) == IF s[1] = Minus THEN -Magnitude(s) ELSE Magnitude(s)

\* Every number is parsed to the price it says, truncated toward zero, as long as
\* that is between min() and max(); a larger one to the price that is left of it
\* in Width bits, although its integer part, its scaling, its fraction and its sign
\* may each wrap around on the way.
ParsedExactly == IsNumber(text) => from_string(text) = Wrap(Number(text))

\* What to_string() prints is the shortest text of the price, and from_string()
\* makes the same price of it: but for min(), whose magnitude is no price.
PrintedReadsBack ==
    value # min =>
        LET s == to_string(value)
        IN  /\ from_string(s) = value
            /\ Dot \in {s[i] : i \in DOMAIN s} => s[Len(s)] \notin {0, Dot}

\* The checks the header tells callers to make, the headroom max() - price before
\* an addition (line 347) and price > INT64_MAX / n before a multiplication (line
\* 382), decide whether the result is exact, for prices that are not negative.
ChecksDecide ==
    \A n \in {m \in Operands : m > 0} :
        value >= 0 =>
            /\ n <= max - value <=> Plus(value, n) = value + n
            /\ ~(value > Quotient(max, n)) <=> Times(value, n) = value * n

=============================================================================
