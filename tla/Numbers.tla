------------------------------ MODULE Numbers ------------------------------
(***************************************************************************)
(* The numbers of cJSON (json/cJSON.c): read from a text, kept as a double *)
(* and an int, printed.  A double is a decimal m * 10^e.  What it is off   *)
(* that in binary shows where a whole number with more digits than a       *)
(* double keeps is printed in full, and where so many digits are read one  *)
(* by one: there any of the neighbouring numbers may come out.  The limits *)
(* of the C types and of print_number are parameters, so that small ones   *)
(* can be checked.                                                         *)
(***************************************************************************)
EXTENDS Integers, SequencesExt

CONSTANTS
    INT_MAX,         \* 2147483647
    DBL_MAX_10_EXP,  \* 308
    EPSILON,         \* DBL_EPSILON is about 10^EPSILON, -15
    SMALL, LARGE,    \* print_number prints "%e" below 10^SMALL, above 10^LARGE: -6, 9
    HUGE,            \* and no whole number in full from 10^HUGE on: 60
    EXACT,           \* digits of a whole number that a double holds: 15
    KEPT,            \* ... and that it keeps when up to HUGE are read one by one: 13
    PRECISION        \* decimals of "%e" and "%f": 6

INT_MIN == -INT_MAX - 1

ASSUME LimitsAssumption ==
    /\ INT_MAX \in Nat /\ DBL_MAX_10_EXP \in Nat /\ HUGE \in Nat /\ LARGE \in Nat
    /\ PRECISION \in Nat \ {0}
    /\ SMALL = -PRECISION
    /\ EPSILON \in Int /\ EPSILON < SMALL
    /\ 10 ^ LARGE < INT_MAX /\ INT_MAX < 10 ^ (LARGE + 1)
    /\ EXACT \in Nat /\ KEPT \in Nat
    /\ LARGE + 1 < EXACT /\ LARGE + PRECISION <= EXACT /\ EXACT < HUGE
    /\ PRECISION < KEPT /\ KEPT <= EXACT
    /\ HUGE < DBL_MAX_10_EXP

----------------------------------------------------------------------------
\* Decimals.

Digit == <<"0", "1", "2", "3", "4", "5", "6", "7", "8", "9">>
IsDigit(c) == \E i \in DOMAIN Digit : Digit[i] = c
ValueOf(digits) ==
    FoldLeft(LAMBDA n, c : 10 * n + (CHOOSE i \in DOMAIN Digit : Digit[i] = c) - 1, 0, digits)

\* How many digits n has.
Width(n) == CHOOSE w \in 1 .. 9 : n < 10 ^ w /\ (w = 1 \/ n >= 10 ^ (w - 1))
\* n with at least w digits: "%d", "%02d".
Padded(n, w) ==
    LET k == IF Width(n) < w THEN w ELSE Width(n)
    IN  [i \in 1 .. k |-> IF k - i >= 9 THEN "0" ELSE Digit[((n \div 10 ^ (k - i)) % 10) + 1]]

Double(kind, neg, m, e) == [kind |-> kind, neg |-> neg, m |-> m, e |-> e]
Zero   == Double("finite", FALSE, 0, 0)
NaN    == Double("nan", FALSE, 0, 0)
Inf(neg) == Double("inf", neg, 0, 0)

\* The same number with the shortest m: doubles are equal when their records are.
Normal(neg, m, e) ==
    IF m = 0 THEN Zero
    ELSE LET z == CHOOSE z \in 0 .. 8 : m % 10 ^ z = 0 /\ m % 10 ^ (z + 1) # 0
         IN  Double("finite", neg, m \div 10 ^ z, e + z)
FromInt(i) == IF i < 0 THEN Normal(TRUE, -i, 0) ELSE Normal(FALSE, i, 0)

\* |d| < 10^Magnitude(d)
Magnitude(d) == Width(d.m) + d.e

\* Beyond DBL_MAX, which is 1.8 * 10^DBL_MAX_10_EXP.
TooLarge(m, e) ==
    \/ Width(m) + e > DBL_MAX_10_EXP + 1
    \/ /\ Width(m) + e = DBL_MAX_10_EXP + 1
       /\ (IF m < 10 THEN 10 * m ELSE m \div 10 ^ (Width(m) - 2)) >= 18

\* sign * n * pow(10.0, k)
Product(neg, n, k) ==
    IF k > DBL_MAX_10_EXP THEN IF n = 0 THEN NaN ELSE Inf(neg)
    ELSE IF n = 0 \/ k < -DBL_MAX_10_EXP THEN Zero
    ELSE IF TooLarge(n, k) THEN Inf(neg) ELSE Normal(neg, n, k)

\* Towards zero; 0 stands for the many values beyond the int too.
Truncated(d) ==
    LET n == IF d.e >= 0 THEN d.m * 10 ^ d.e
             ELSE IF -d.e >= 9 THEN 0 ELSE d.m \div 10 ^ (-d.e)
    IN  IF d.neg THEN -n ELSE n

\* How far n may be off when it has more digits than are held, and its neighbours.
Unit10(n) == IF Width(n) <= EXACT THEN 0 ELSE 10 ^ (Width(n) - KEPT)
About(n) == {n - Unit10(n), n, n + Unit10(n)}

FitsInt(d) ==
    /\ d.kind = "finite"
    /\ d.m # 0 => Magnitude(d) <= LARGE + 1 /\ Truncated(d) \in INT_MIN .. INT_MAX

\* (int)n.  Out of range it is undefined: x86 gives INT_MIN, ARM the nearest int.
valueint(d) ==
    IF FitsInt(d) THEN {Truncated(d)}
    ELSE {INT_MIN} \cup (IF d.kind = "nan" THEN {0} ELSE IF d.neg THEN {} ELSE {INT_MAX})

----------------------------------------------------------------------------
\* parse_number.

At(text, i) == IF i <= Len(text) THEN text[i] ELSE "end"
\* The digits of text from i on.
Digits(text, i) ==
    SubSeq(text, i, (CHOOSE n \in i - 1 .. Len(text) :
                        /\ \A j \in i .. n : IsDigit(text[j])
                        /\ ~IsDigit(At(text, n + 1))))

\* Where each part begins: one zero, then digits that begin with another, then
\* "." with a digit, then "e" with or without.
Start(text)  == IF At(text, 1) = "-" THEN 2 ELSE 1
First(text)  == IF At(text, Start(text)) = "0" THEN Start(text) + 1 ELSE Start(text)
Whole(text)  == IF At(text, First(text)) = "0" THEN <<>> ELSE Digits(text, First(text))
Point(text)  == First(text) + Len(Whole(text))
Fraction(text) == IF At(text, Point(text)) = "." THEN Digits(text, Point(text) + 1) ELSE <<>>
Exp(text)    == Point(text) + (IF Fraction(text) = <<>> THEN 0 ELSE Len(Fraction(text)) + 1)
HasExp(text) == At(text, Exp(text)) \in {"e", "E"}
Signed(text) == HasExp(text) /\ At(text, Exp(text) + 1) \in {"+", "-"}
ExpDigits(text) ==
    IF HasExp(text) THEN Digits(text, Exp(text) + (IF Signed(text) THEN 2 ELSE 1)) ELSE <<>>

\* Mutant: the sign of the exponent is dropped.
UnsignedExponent(text) == ValueOf(ExpDigits(text))
subscale(text) ==
    IF At(text, Exp(text) + 1) = "-" THEN -ValueOf(ExpDigits(text)) ELSE ValueOf(ExpDigits(text))

\* Characters read.
Read(text) ==
    Exp(text) - 1 + (IF ~HasExp(text) THEN 0
                     ELSE Len(ExpDigits(text)) + (IF Signed(text) THEN 2 ELSE 1))
Number(text) == ValueOf(Whole(text) \o Fraction(text))
Value(text, n) == Product(At(text, 1) = "-", n, subscale(text) - Len(Fraction(text)))
\* n = n * 10 + digit rounds at every digit that is too many.
parse_number(text) == {Value(text, n) : n \in About(Number(text))}

\* What parse_value takes for a number and reads to its end.  More than JSON has:
\* 01, a lone minus, 1e.
IsItem(text) == (At(text, 1) = "-" \/ IsDigit(At(text, 1))) /\ Read(text) = Len(text)

----------------------------------------------------------------------------
\* print_number: the texts it may print, where rounding a tie may go either way.

Sign(neg) == IF neg THEN <<"-">> ELSE <<>>

\* m / 10^k, rounded to a whole number.
Rounded(m, k) ==
    IF k <= 0 THEN {m * 10 ^ (-k)}
    ELSE IF k >= 9 THEN {0}
    ELSE LET q == m \div 10 ^ k
             r == 2 * (m % 10 ^ k)
         IN  (IF r <= 10 ^ k THEN {q} ELSE {}) \cup (IF r >= 10 ^ k THEN {q + 1} ELSE {})

\* The part of |d| after the point, times 10^-d.e, and whether DBL_EPSILON hides it.
After(d) == IF d.e >= 0 THEN 0 ELSE IF -d.e >= 9 THEN d.m ELSE d.m % 10 ^ (-d.e)
Negligible(d) == After(d) = 0 \/ Width(After(d)) + d.e <= EPSILON

\* fabs(valueint - d) <= DBL_EPSILON && d <= INT_MAX && d >= INT_MIN
IsInt(d, i) ==
    /\ FitsInt(d) /\ Truncated(d) = i /\ Negligible(d)
    /\ After(d) # 0 => i \notin {INT_MIN, INT_MAX}
\* fabs(floor(d) - d) <= DBL_EPSILON, where floor goes down; in "%.0f".
IsWhole(d) == After(d) = 0 \/ (~d.neg /\ Negligible(d))

AsInt(i) == Sign(i < 0) \o Padded(IF i < 0 THEN -i ELSE i, 1)
InFull(d) ==                                               \* "%.0f"
    {Sign(d.neg) \o Padded(n, 1) : n \in About(Truncated([d EXCEPT !.neg = FALSE]))}
\* Mutant: the exponent is one too high.
ScientificTimesTen(d) ==
    {LET digits == Padded(n, PRECISION + 1)
         x == Magnitude(d)
     IN  Sign(d.neg) \o <<digits[1], ".">> \o Tail(digits)
         \o <<"e", IF x < 0 THEN "-" ELSE "+">> \o Padded(IF x < 0 THEN -x ELSE x, 2) :
     n \in Rounded(d.m, Width(d.m) - PRECISION - 1)}
Scientific(d) ==                                           \* "%e"
    {LET over == n = 10 ^ (PRECISION + 1)
         x == Magnitude(d) - 1 + (IF over THEN 1 ELSE 0)
         digits == Padded(IF over THEN n \div 10 ELSE n, PRECISION + 1)
     IN  Sign(d.neg) \o <<digits[1], ".">> \o Tail(digits)
         \o <<"e", IF x < 0 THEN "-" ELSE "+">> \o Padded(IF x < 0 THEN -x ELSE x, 2) :
     n \in Rounded(d.m, Width(d.m) - PRECISION - 1)}
Fixed(d) ==                                                \* "%f"
    {LET digits == Padded(n, PRECISION + 1)
         point == Len(digits) - PRECISION
     IN  Sign(d.neg) \o SubSeq(digits, 1, point) \o <<".">>
         \o SubSeq(digits, point + 1, Len(digits)) :
     n \in Rounded(d.m, -d.e - PRECISION)}

Null == <<"null">>

\* Mutant: an int is printed whatever the double holds.
PrintInt(d, i) ==
    IF d.kind # "finite" THEN {Null}
    ELSE IF d.m = 0 THEN {<<"0">>}
    ELSE IF FitsInt(d) THEN {AsInt(i)}
    ELSE IF IsWhole(d) /\ Magnitude(d) <= HUGE THEN InFull(d)
    ELSE IF Magnitude(d) <= SMALL \/ Magnitude(d) > LARGE THEN Scientific(d)
    ELSE Fixed(d)
print_number(d, i) ==
    IF d.kind # "finite" THEN {Null}
    ELSE IF d.m = 0 THEN {<<"0">>}
    ELSE IF IsInt(d, i) THEN {AsInt(i)}
    ELSE IF IsWhole(d) /\ Magnitude(d) <= HUGE THEN InFull(d)
    ELSE IF Magnitude(d) <= SMALL \/ Magnitude(d) > LARGE THEN Scientific(d)
    ELSE Fixed(d)

\* What an item prints as that cJSON_CreateNumber made of an int, and one that
\* cJSON_CreateUInt8 or cJSON_CreateUInt16 made, whose valueint is zero.
cJSON_CreateNumber(i) == print_number(FromInt(i), i)
cJSON_CreateUInt16(n) == print_number(FromInt(n), 0)
=============================================================================
