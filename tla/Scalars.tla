------------------------------ MODULE Scalars ------------------------------
(***************************************************************************)
(* Strings and numbers of the configuration, character by character: read  *)
(* when a daemon starts and printed when it ends (json/cJSON.c), round     *)
(* after round.  CJson has them as tokens; here is what is below.  A       *)
(* string is parsed in two passes: one counts what to allocate, the other  *)
(* decodes into it.                                                        *)
(***************************************************************************)
EXTENDS Numbers

CONSTANTS
    Input,        \* strings: their text, and the UTF-16 units JSON says it stands for
    NumberText,   \* numbers
    MaxRounds     \* bound: how often the configuration is read

Quote     == 34
Backslash == 92
NUL       == 0
Bad       == -1       \* the unit of an escape that stands for no character

Byte == 1 .. 255
Unit == {Bad} \cup (0 .. 65535)

ASSUME ScalarsAssumption ==
    /\ \A i \in Input : i.text \in Seq(Byte) /\ i.units \in Seq(Unit)
    /\ \A t \in NumberText : IsItem(t) /\ Width(Number(t)) <= EXACT
    /\ MaxRounds \in Nat

VARIABLES
    text,           \* what is parsed, or printed
    units,          \* what the text that was read first stands for
    pc,
    at, end_ptr,    \* a pass that counts: where each unit it counts begins, and where it is
    size,           \* bytes allocated
    ptr,            \* where the pass that writes is
    out,            \* the string
    prev,           \* the string of the round before
    number, origin, \* the number as the file has it, and as it had it first
    round

passes  == <<at, end_ptr, size, ptr>>
string  == <<text, units, passes, out, prev>>
numbers == <<number, origin>>
vars    == <<string, numbers, pc, round>>

len == Len(at)

NoString == [text |-> <<Quote, Quote>>, units |-> <<>>]
NoNumber == <<>>

Init ==
    /\ \/ /\ \E i \in Input : text = i.text /\ units = i.units
          /\ number = NoNumber
          /\ pc = "scan"
       \/ /\ text = NoString.text /\ units = NoString.units
          /\ number \in NumberText
          /\ pc = "number"
    /\ origin = number
    /\ at = <<>> /\ end_ptr = 2
    /\ size = 0 /\ ptr = 2 /\ out = <<>> /\ prev = <<>>
    /\ round = 1

----------------------------------------------------------------------------
\* parse_string, first pass.

Char(i) == IF i <= Len(text) THEN text[i] ELSE NUL

Scan ==
    /\ pc = "scan" /\ Char(end_ptr) \notin {Quote, NUL}
    /\ at' = Append(at, end_ptr)
    /\ end_ptr' = end_ptr + (IF Char(end_ptr) = Backslash THEN 2 ELSE 1)
    /\ UNCHANGED <<text, units, pc, size, ptr, out, prev, numbers, round>>

\* A backslash before the end of an unfinished text: the pass goes on behind it.
PastEnd ==
    /\ pc = "scan" /\ end_ptr > Len(text) + 1
    /\ pc' = "past end"
    /\ UNCHANGED <<string, numbers, round>>

\* Mutant: no room for the end of the string.
AllocateLen ==
    /\ pc = "scan" /\ end_ptr <= Len(text) + 1 /\ Char(end_ptr) \in {Quote, NUL}
    /\ size' = len
    /\ ptr' = 2 /\ out' = <<>>
    /\ pc' = "copy"
    /\ UNCHANGED <<text, units, at, end_ptr, prev, numbers, round>>
Allocate ==
    /\ pc = "scan" /\ end_ptr <= Len(text) + 1 /\ Char(end_ptr) \in {Quote, NUL}
    /\ size' = len + 1
    /\ ptr' = 2 /\ out' = <<>>
    /\ pc' = "copy"
    /\ UNCHANGED <<text, units, at, end_ptr, prev, numbers, round>>

----------------------------------------------------------------------------
\* parse_string, second pass.

HexDigit(c) ==
    IF c \in 48 .. 57 THEN c - 48
    ELSE IF c \in 65 .. 70 THEN c - 55
    ELSE IF c \in 97 .. 102 THEN c - 87
    ELSE 16
\* Zero where one of the four is no digit.
parse_hex4(i) ==
    IF \E j \in i .. i + 3 : HexDigit(Char(j)) = 16 THEN 0
    ELSE 4096 * HexDigit(Char(i)) + 256 * HexDigit(Char(i + 1))
         + 16 * HexDigit(Char(i + 2)) + HexDigit(Char(i + 3))

\* \b \f \n \r \t; any other letter stands for itself.
Control == {<<98, 8>>, <<102, 12>>, <<110, 10>>, <<114, 13>>, <<116, 9>>}
Unescaped(c) ==
    IF \E e \in Control : e[1] = c THEN (CHOOSE e \in Control : e[1] = c)[2] ELSE c

High(uc) == uc \in 55296 .. 56319
Low(uc)  == uc \in 56320 .. 57343
Pair(uc, uc2) == 65536 + 1024 * (uc % 1024) + (uc2 % 1024)

Utf8(uc) ==
    IF uc < 128 THEN <<uc>>
    ELSE IF uc < 2048 THEN <<192 + uc \div 64, 128 + (uc % 64)>>
    ELSE IF uc < 65536 THEN <<224 + uc \div 4096, 128 + ((uc \div 64) % 64), 128 + (uc % 64)>>
    ELSE <<240 + uc \div 262144, 128 + ((uc \div 4096) % 64),
           128 + ((uc \div 64) % 64), 128 + (uc % 64)>>

Copying == pc = "copy" /\ ptr < end_ptr
Escape(letter) == Char(ptr) = Backslash /\ (Char(ptr + 1) = 117) = letter

Write(bytes, read) ==
    /\ out' = out \o bytes
    /\ ptr' = ptr + read
    /\ UNCHANGED <<text, units, pc, at, end_ptr, size, prev, numbers, round>>

CopyByte == Copying /\ Char(ptr) # Backslash /\ Write(<<Char(ptr)>>, 1)

CopyEscape == Copying /\ Escape(FALSE) /\ Write(<<Unescaped(Char(ptr + 1))>>, 2)

\* \uXXXX and, after the first half of a surrogate pair, \uXXXX again.
uc  == parse_hex4(ptr + 2)
uc2 == parse_hex4(ptr + 8)
OneUnit == ptr + 5 < end_ptr /\ uc # 0 /\ ~High(uc) /\ ~Low(uc)
\* Mutant: the second half is not looked at.
AnySecond ==
    /\ ptr + 5 < end_ptr /\ High(uc)
    /\ ptr + 11 <= end_ptr
    /\ Char(ptr + 6) = Backslash /\ Char(ptr + 7) = 117
TwoUnits ==
    /\ ptr + 5 < end_ptr /\ High(uc)
    /\ ptr + 11 <= end_ptr
    /\ Char(ptr + 6) = Backslash /\ Char(ptr + 7) = 117 /\ Low(uc2)

CopyUnit == Copying /\ Escape(TRUE) /\ OneUnit /\ Write(Utf8(uc), 6)
CopyPair == Copying /\ Escape(TRUE) /\ TwoUnits /\ Write(Utf8(Pair(uc, uc2)), 12)

Invalid ==
    /\ Copying /\ Escape(TRUE) /\ ~OneUnit /\ ~TwoUnits
    /\ pc' = "invalid"
    /\ UNCHANGED <<string, numbers, round>>

\* *ptr2 = 0
Terminate ==
    /\ pc = "copy" /\ ptr >= end_ptr
    /\ pc' = "parsed"
    /\ UNCHANGED <<string, numbers, round>>

----------------------------------------------------------------------------
\* print_string_ptr, two passes again.  Where nothing is special the code counts and
\* copies by strlen and strcpy, to the same effect.

Hex(n) == IF n < 10 THEN 48 + n ELSE 87 + n
Letter(c) == {e[1] : e \in {f \in Control : f[2] = c}}
\* Mutant: a backslash is taken for a plain character.
QuoteOnly(c) == c = Quote
Itself(c) == c \in {Quote, Backslash}
Escaped(c) ==
    IF Itself(c) THEN <<Backslash, c>>
    ELSE IF Letter(c) # {} THEN <<Backslash, CHOOSE l \in Letter(c) : TRUE>>
    ELSE IF c < 32 THEN <<Backslash, 117, 48, 48, Hex(c \div 16), Hex(c % 16)>>
    ELSE <<c>>

\* Mutant: the backslash before "u" is not counted.
FiveForControl(c) ==
    IF Itself(c) \/ Letter(c) # {} THEN 2 ELSE IF c < 32 THEN 5 ELSE 1
Counted(c) ==
    IF Itself(c) \/ Letter(c) # {} THEN 2 ELSE IF c < 32 THEN 6 ELSE 1

StartPrint ==
    /\ pc = "parsed"
    /\ at' = <<>> /\ end_ptr' = 1
    /\ pc' = "count"
    /\ UNCHANGED <<text, units, size, ptr, out, prev, numbers, round>>

Count ==
    /\ pc = "count" /\ len < Len(out)
    /\ at' = Append(at, end_ptr)
    /\ end_ptr' = end_ptr + Counted(out[len + 1])
    /\ UNCHANGED <<text, units, pc, size, ptr, out, prev, numbers, round>>

\* malloc(len + 3)
AllocateText ==
    /\ pc = "count" /\ len = Len(out)
    /\ size' = end_ptr + 2
    /\ text' = <<Quote>>
    /\ ptr' = 1
    /\ pc' = "write"
    /\ UNCHANGED <<units, at, end_ptr, out, prev, numbers, round>>

WriteChar ==
    /\ pc = "write" /\ ptr <= Len(out)
    /\ text' = text \o Escaped(out[ptr])
    /\ ptr' = ptr + 1
    /\ UNCHANGED <<units, pc, at, end_ptr, size, out, prev, numbers, round>>

WriteQuote ==
    /\ pc = "write" /\ ptr > Len(out)
    /\ text' = Append(text, Quote)
    /\ pc' = "printed"
    /\ UNCHANGED <<units, passes, out, prev, numbers, round>>

\* The next daemon reads what was printed.
Reload ==
    /\ pc = "printed" /\ round < MaxRounds
    /\ pc' = "scan"
    /\ at' = <<>> /\ end_ptr' = 2
    /\ prev' = out
    /\ round' = round + 1
    /\ UNCHANGED <<text, units, size, ptr, out, numbers>>

----------------------------------------------------------------------------
\* A number: parse_number and print_number at once.  "null" is no number to read.

ReloadNumber ==
    /\ pc = "number" /\ round < MaxRounds /\ number # Null
    /\ \E d \in parse_number(number) : \E i \in valueint(d) :
         number' \in print_number(d, i)
    /\ round' = round + 1
    /\ UNCHANGED <<string, origin, pc>>

Next ==
    \/ Scan \/ PastEnd \/ Allocate
    \/ CopyByte \/ CopyEscape \/ CopyUnit \/ CopyPair \/ Invalid \/ Terminate
    \/ StartPrint \/ Count \/ AllocateText \/ WriteChar \/ WriteQuote \/ Reload
    \/ ReloadNumber

Spec == Init /\ [][Next]_vars

----------------------------------------------------------------------------
\* Properties.

\* What the second pass writes, with its end, fits what the first has counted: an
\* escape of six bytes counts five times and becomes three, a pair of them four.
DecodeFits == pc \in {"copy", "parsed"} => Len(out) + 1 <= size

\* ... and what is printed fits what was counted for it.
PrintFits == pc \in {"write", "printed"} => Len(text) + 1 <= size

\* The characters JSON says the text stands for, in UTF-8.
Paired(i) ==
    \/ High(units[i]) /\ i < Len(units) /\ Low(units[i + 1])
    \/ Low(units[i]) /\ i > 1 /\ High(units[i - 1])
HasMeaning ==
    \A i \in DOMAIN units :
        units[i] \notin {Bad, 0} /\ (High(units[i]) \/ Low(units[i]) => Paired(i))
Meaning ==
    FlattenSeq([i \in DOMAIN units |->
        IF Low(units[i]) THEN <<>>
        ELSE IF High(units[i]) THEN Utf8(Pair(units[i], units[i + 1]))
        ELSE Utf8(units[i])])

\* A string is read as the characters JSON says it has, and refused when it has a
\* half of a pair alone, an escape without four digits, or the character 0, which
\* no C string can hold.
DecodesJson ==
    round = 1 =>
        /\ pc = "parsed"  => HasMeaning /\ out = Meaning
        /\ pc = "invalid" => ~HasMeaning

\* A string printed is read again as it was, whatever bytes it has.
PrintsBack ==
    round > 1 => pc \notin {"invalid", "past end"} /\ (pc = "parsed" => out = prev)

\* The number a text stands for.
ValueIn(n) == IF n = Null THEN NaN ELSE Value(n, Number(n))

\* |d - d2| <= 10^-PRECISION * max(1, |d|)
Close(d, d2) ==
    LET c == IF d.e < d2.e THEN d.e ELSE d2.e
        m == d.m * 10 ^ (d.e - c)
        m2 == d2.m * 10 ^ (d2.e - c)
        diff == IF m > m2 THEN m - m2 ELSE m2 - m
    IN  /\ d2.m = 0 \/ d.neg = d2.neg
        /\ diff = 0 \/ Width(diff) + c <= -PRECISION \/ diff * 10 ^ PRECISION <= m

\* A number an int can hold never changes; of others no more is lost, in the rounds
\* there are, than what is behind the sixth place; and "null" replaces only what no
\* double can hold.
NumbersKept ==
    pc = "number" =>
        LET d == ValueIn(origin)
            d2 == ValueIn(number)
        IN  IF d.kind # "finite" THEN TRUE
            ELSE /\ d2.kind = "finite" /\ Close(d, d2)
                 /\ FitsInt(d) /\ After(d) = 0 => d2 = d

\* A whole number that is printed in full with more digits than a double holds.
Drifts(d) == d.kind = "finite" /\ After(d) = 0 /\ Magnitude(d) \in EXACT + 1 .. HUGE

\* However often the file is rewritten, a number changes the first time only; except
\* a whole one from 10^15 to 10^60, which may go on drifting each time.
NumbersSettle ==
    [][pc = "number" /\ round > 1 =>
          ValueIn(number') = ValueIn(number) \/ Drifts(ValueIn(number))]_vars
=============================================================================
