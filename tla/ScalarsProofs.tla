--------------------------- MODULE ScalarsProofs ---------------------------
(***************************************************************************)
(* Whatever a string holds, what parse_string and print_string_ptr write   *)
(* fits what their first passes have counted, and what is printed is read  *)
(* again as it was.                                                        *)
(***************************************************************************)
EXTENDS Scalars, SequenceTheorems, TLAPS

\* Where unit k of a pass that counts begins; the one after the last at end_ptr.
Pos(k) == IF k <= len THEN at[k] ELSE end_ptr

Place == Nat \ {0}
PassesOK ==
    /\ at \in Seq(Place) /\ end_ptr \in Place
    /\ size \in Nat /\ ptr \in Place
    /\ out \in Seq(Nat) /\ text \in Seq(Nat)

\* The pass of parse_string that counts: a unit is a byte, or a backslash and a byte.
Scanned ==
    /\ Pos(1) = 2
    /\ \A k \in 1 .. len :
         Pos(k + 1) = Pos(k) + (IF Char(Pos(k)) = Backslash THEN 2 ELSE 1)

\* The one that decodes is at a unit, and has written no more bytes than it has
\* passed units.
Decoding ==
    /\ Scanned
    /\ size = len + 1
    /\ Char(end_ptr) \in {Quote, NUL}
    /\ \E k \in 1 .. len + 1 : ptr = Pos(k) /\ Len(out) <= k - 1

\* The passes of print_string_ptr: the count says where each byte is to be written.
Counting ==
    /\ Pos(1) = 1
    /\ len <= Len(out)
    /\ \A k \in 1 .. len : Pos(k + 1) = Pos(k) + Counted(out[k]) /\ Pos(k) <= end_ptr
Writing ==
    /\ Counting
    /\ len = Len(out)
    /\ size = end_ptr + 2
    /\ ptr \in 1 .. len + 1
    /\ Len(text) = Pos(ptr)

Inv ==
    /\ PassesOK
    /\ pc = "scan" => Scanned
    /\ pc = "copy" => Decoding
    /\ pc = "parsed" => Len(out) + 1 <= size
    /\ pc = "count" => Counting
    /\ pc = "write" => Writing
    /\ pc = "printed" => Len(text) + 1 <= size

----------------------------------------------------------------------------
\* A hexadecimal digit ends no string and escapes nothing.
LEMMA HexDigitType ==
    ASSUME NEW c \in Nat
    PROVE  /\ HexDigit(c) \in Nat
           /\ HexDigit(c) # 16 => c # Backslash /\ c # Quote /\ c # NUL
BY SMT DEF HexDigit, Backslash, Quote, NUL

\* What is read at a place is a byte, the end included.
LEMMA CharType ==
    ASSUME text \in Seq(Nat), NEW i \in Nat, i > 0
    PROVE  Char(i) \in Nat
BY SMT DEF Char, NUL

\* parse_hex4 gives a number, and none but 0 without four digits.
LEMMA Hex4Type ==
    ASSUME text \in Seq(Nat), NEW i \in Nat, i > 0
    PROVE  /\ parse_hex4(i) \in Nat
           /\ parse_hex4(i) # 0 => \A j \in i .. i + 3 :
                  Char(j) # Backslash /\ Char(j) # Quote /\ Char(j) # NUL
<1>1. \A j \in i .. i + 3 : Char(j) \in Nat
  BY CharType, SMT
<1>2. \A j \in i .. i + 3 : HexDigit(Char(j)) \in Nat
  BY <1>1, HexDigitType
<1>3. /\ HexDigit(Char(i)) \in Nat /\ HexDigit(Char(i + 1)) \in Nat
      /\ HexDigit(Char(i + 2)) \in Nat /\ HexDigit(Char(i + 3)) \in Nat
  BY <1>2, SMT
<1>4. parse_hex4(i) \in Nat
  <2> DEFINE a == 4096 * HexDigit(Char(i))
             b == 256 * HexDigit(Char(i + 1))
             c == 16 * HexDigit(Char(i + 2))
             d == HexDigit(Char(i + 3))
  <2>1. a \in Nat /\ b \in Nat /\ c \in Nat /\ d \in Nat
    BY <1>3, SMTT(30)
  <2>2. parse_hex4(i) = 0 \/ parse_hex4(i) = a + b + c + d
    BY DEF parse_hex4
  <2> HIDE DEF a, b, c, d
  <2> QED BY <2>1, <2>2
<1>5. parse_hex4(i) # 0 => \A j \in i .. i + 3 : HexDigit(Char(j)) # 16
  <2> SUFFICES ASSUME NEW j \in i .. i + 3, HexDigit(Char(j)) = 16
               PROVE  parse_hex4(i) = 0
    OBVIOUS
  <2> QED BY DEF parse_hex4
<1> QED BY <1>1, <1>4, <1>5, HexDigitType

\* A character is at most four bytes.
LEMMA Utf8Fits ==
    ASSUME NEW u \in Nat
    PROVE  Utf8(u) \in Seq(Nat) /\ Len(Utf8(u)) <= 4
BY SMT DEF Utf8

\* What is written for a character is as long as what was counted for it.
LEMMA EscapedFits ==
    ASSUME NEW c \in Nat
    PROVE  Escaped(c) \in Seq(Nat) /\ Len(Escaped(c)) = Counted(c) /\ Counted(c) \in Nat
<1>1. \A l \in Letter(c) : l \in Nat
  BY SMT DEF Letter, Control
<1>2. Letter(c) # {} => (CHOOSE l \in Letter(c) : TRUE) \in Nat
  BY <1>1
<1>3. c < 32 => Hex(c \div 16) \in Nat /\ Hex(c % 16) \in Nat
  BY SMT DEF Hex
<1> QED BY <1>2, <1>3, SMT DEF Escaped, Counted, Itself, Quote, Backslash

\* An escaped letter stands for a byte.
LEMMA UnescapedType ==
    ASSUME NEW c \in Nat
    PROVE  Unescaped(c) \in Nat
<1>1. \A e \in Control : e[2] \in Nat
  BY SMT DEF Control
<1> QED BY <1>1 DEF Unescaped

----------------------------------------------------------------------------
\* A unit that begins before the end has been counted, and the next begins after it.
LEMMA NextUnit ==
    ASSUME PassesOK, Scanned, NEW k \in 1 .. len + 1, Pos(k) < end_ptr
    PROVE  /\ k + 1 \in 1 .. len + 1
           /\ Pos(k + 1) = Pos(k) + (IF Char(Pos(k)) = Backslash THEN 2 ELSE 1)
<1>1. len \in Nat
  BY SMT DEF PassesOK, len
<1>2. k # len + 1
  BY <1>1, SMT DEF Pos, PassesOK, Place
<1> QED BY <1>1, <1>2, SMT DEF Scanned

\* Six bytes of an escape with four digits are five units.
LEMMA FiveUnits ==
    ASSUME PassesOK, Scanned, NEW k \in 1 .. len + 1, NEW p \in Place,
           Pos(k) = p, Char(p) = Backslash, parse_hex4(p + 2) # 0, p + 5 < end_ptr
    PROVE  k + 5 \in 1 .. len + 1 /\ Pos(k + 5) = p + 6
<1> USE DEF Place
<1>0. len \in Nat /\ end_ptr \in Nat /\ text \in Seq(Nat)
  BY SMT DEF PassesOK, len
<1>1. \A j \in p + 2 .. p + 5 : Char(j) # Backslash
  BY <1>0, Hex4Type, SMT
<1>2. k + 1 \in 1 .. len + 1 /\ Pos(k + 1) = p + 2
  BY <1>0, NextUnit, SMT
<1>3. k + 2 \in 1 .. len + 1 /\ Pos(k + 2) = p + 3
  <2>1. Pos(k + 1) < end_ptr /\ Char(Pos(k + 1)) # Backslash
    BY <1>0, <1>1, <1>2, SMT
  <2> QED BY <1>0, <1>2, <2>1, NextUnit, SMT
<1>4. k + 3 \in 1 .. len + 1 /\ Pos(k + 3) = p + 4
  <2>1. Pos(k + 2) < end_ptr /\ Char(Pos(k + 2)) # Backslash
    BY <1>0, <1>1, <1>3, SMT
  <2> QED BY <1>0, <1>3, <2>1, NextUnit, SMT
<1>5. k + 4 \in 1 .. len + 1 /\ Pos(k + 4) = p + 5
  <2>1. Pos(k + 3) < end_ptr /\ Char(Pos(k + 3)) # Backslash
    BY <1>0, <1>1, <1>4, SMT
  <2> QED BY <1>0, <1>4, <2>1, NextUnit, SMT
<1>6. Pos(k + 4) < end_ptr /\ Char(Pos(k + 4)) # Backslash
  BY <1>0, <1>1, <1>5, SMT
<1> QED BY <1>0, <1>5, <1>6, NextUnit, SMT

\* A step of the decoding pass that writes no more bytes than it passes units.
LEMMA WritesUnits ==
    ASSUME Inv, pc = "copy", NEW k \in 1 .. len + 1, NEW n \in Nat,
           ptr = Pos(k), Len(out) <= k - 1, k + n \in 1 .. len + 1,
           NEW bytes \in Seq(Nat), Len(bytes) <= n,
           NEW read \in Nat, Write(bytes, read), Pos(k + n) = ptr + read
    PROVE  Inv'
<1>1. /\ out' = out \o bytes /\ ptr' = ptr + read
      /\ text' = text /\ pc' = pc /\ at' = at /\ end_ptr' = end_ptr /\ size' = size
  BY DEF Write
<1>2. len \in Nat /\ len' = len /\ \A j \in Nat : Pos(j)' = Pos(j) /\ Char(j)' = Char(j)
  BY <1>1, SMT DEF Inv, PassesOK, len, Pos, Char
<1>3. PassesOK'
  BY <1>1, SMT DEF Inv, PassesOK, Place
<1>4. Scanned'
  BY <1>1 DEF Inv, Decoding, Scanned, Pos, len, Char
<1>5. /\ size' = len' + 1 /\ Char(end_ptr)' \in {Quote, NUL}
  BY <1>1 DEF Inv, Decoding, len, Char
<1>6. ptr' = Pos(k + n)' /\ Len(out') <= (k + n) - 1
  <2>1. Len(out') = Len(out) + Len(bytes)
    BY <1>1, SMT DEF Inv, PassesOK
  <2>2. Len(out) \in Nat /\ Len(bytes) \in Nat
    BY SMT DEF Inv, PassesOK
  <2> QED BY <1>1, <1>2, <2>1, <2>2, SMT
<1>7. Decoding'
  BY <1>2, <1>4, <1>5, <1>6 DEF Decoding
<1> QED BY <1>1, <1>3, <1>7 DEF Inv

----------------------------------------------------------------------------
\* The invariant holds at the beginning,
LEMMA InitInv == Init => Inv
<1> SUFFICES ASSUME Init PROVE Inv
  OBVIOUS
<1>1. text \in Seq(Nat)
  <2>1. CASE \E i \in Input : text = i.text
    <3>1. text \in Seq(Byte)
      BY <2>1, ScalarsAssumption
    <3>2. Byte \subseteq Nat
      BY SMT DEF Byte
    <3> QED BY <3>1, <3>2, SeqMonotonic
  <2>2. CASE text = NoString.text
    BY <2>2, SMT DEF NoString, Quote
  <2> QED BY <2>1, <2>2 DEF Init
<1>2. /\ at = <<>> /\ end_ptr = 2 /\ size = 0 /\ ptr = 2 /\ out = <<>>
      /\ pc \in {"scan", "number"}
  BY DEF Init
<1>3. PassesOK
  BY <1>1, <1>2, SMT DEF PassesOK, Place
<1>4. Scanned
  BY <1>2, SMT DEF Scanned, Pos, len
<1> QED BY <1>2, <1>3, <1>4 DEF Inv

\* ... and is kept by the pass that counts the units,
LEMMA ScanInv == ASSUME Inv, Scan PROVE Inv'
<1>1. /\ at' = Append(at, end_ptr)
      /\ end_ptr' = end_ptr + (IF Char(end_ptr) = Backslash THEN 2 ELSE 1)
      /\ text' = text /\ pc = "scan" /\ pc' = pc /\ size' = size /\ ptr' = ptr /\ out' = out
  BY DEF Scan
<1>2. len \in Nat /\ len' = len + 1 /\ end_ptr \in Place /\ at \in Seq(Place)
  BY <1>1, SMT DEF Inv, PassesOK, len
<1>3. PassesOK'
  BY <1>1, <1>2, SMT DEF Inv, PassesOK, Place
<1>4. \A k \in 1 .. len + 1 : Pos(k)' = Pos(k)
  BY <1>1, <1>2, SMT DEF Pos, len
<1>5. Scanned'
  <2>1. Pos(1)' = 2
    BY <1>2, <1>4, <1>1, SMT DEF Inv, Scanned
  <2>2. ASSUME NEW k \in 1 .. len + 1
        PROVE  Pos(k + 1)' = Pos(k)' + (IF Char(Pos(k)') = Backslash THEN 2 ELSE 1)
    <3>1. CASE k = len + 1
      <4>1. k \in Nat /\ ~(k <= len) /\ k <= len' /\ ~(k + 1 <= len')
        BY <3>1, <1>2, SMT
      <4>2. Pos(k + 1)' = end_ptr'
        BY <4>1 DEF Pos
      <4>3. Pos(k) = end_ptr /\ Pos(k)' = Pos(k)
        BY <4>1, <1>4 DEF Pos
      <4> QED BY <4>2, <4>3, <1>1
    <3>2. CASE k \in 1 .. len
      <4>1. Pos(k + 1)' = Pos(k + 1) /\ Pos(k)' = Pos(k)
        BY <3>2, <1>2, <1>4, SMT
      <4>2. Pos(k + 1) = Pos(k) + (IF Char(Pos(k)) = Backslash THEN 2 ELSE 1)
        BY <3>2, <1>1 DEF Inv, Scanned
      <4> QED BY <4>1, <4>2
    <3> QED BY <3>1, <3>2, <1>2, SMT
  <2>3. \A k \in 1 .. len' :
           Pos(k + 1)' = Pos(k)' + (IF Char(Pos(k))' = Backslash THEN 2 ELSE 1)
    BY <2>2, <1>1, <1>2 DEF Char
  <2> QED BY <2>1, <2>3 DEF Scanned
<1> QED BY <1>1, <1>3, <1>5 DEF Inv

\* ... the allocation,
LEMMA AllocateInv == ASSUME Inv, Allocate PROVE Inv'
<1>1. /\ pc = "scan" /\ pc' = "copy" /\ Char(end_ptr) \in {Quote, NUL}
      /\ size' = len + 1 /\ ptr' = 2 /\ out' = <<>>
      /\ text' = text /\ at' = at /\ end_ptr' = end_ptr
  BY DEF Allocate
<1>2. len \in Nat /\ len' = len
  BY <1>1, SMT DEF Inv, PassesOK, len
<1>3. PassesOK'
  BY <1>1, <1>2, SMT DEF Inv, PassesOK, Place
<1>4. Scanned' /\ Scanned
  BY <1>1 DEF Inv, Scanned, Pos, len, Char
<1>5. size' = len' + 1 /\ Char(end_ptr)' \in {Quote, NUL}
  BY <1>1, <1>2 DEF Char
<1>6. 1 \in 1 .. len' + 1 /\ ptr' = Pos(1)' /\ Len(out') <= 1 - 1
  BY <1>1, <1>2, <1>4, SMT DEF Scanned
<1>7. Decoding'
  BY <1>4, <1>5, <1>6 DEF Decoding
<1> QED BY <1>1, <1>3, <1>7 DEF Inv

\* What the steps of the decoding pass have in common.
LEMMA AtUnit ==
    ASSUME Inv, Copying
    PROVE  /\ PassesOK /\ Scanned /\ ptr \in Place /\ end_ptr \in Nat /\ len \in Nat
           /\ ptr < end_ptr
           /\ Char(end_ptr) \in {Quote, NUL}
           /\ \A i \in Place : Char(i) \in Nat
           /\ \E k \in 1 .. len + 1 : ptr = Pos(k) /\ Len(out) <= k - 1
<1>1. Decoding /\ PassesOK /\ ptr < end_ptr
  BY DEF Inv, Copying
<1>2. \A i \in Place : Char(i) \in Nat
  BY <1>1, CharType, SMT DEF PassesOK, Place
<1>3. ptr \in Place /\ end_ptr \in Nat /\ len \in Nat
  BY <1>1, SMT DEF PassesOK, Place, len
<1> QED BY <1>1, <1>2, <1>3 DEF Decoding

\* ... a byte copied as one unit,
LEMMA CopyByteInv == ASSUME Inv, CopyByte PROVE Inv'
<1>1. Copying /\ pc = "copy" /\ Char(ptr) # Backslash /\ Write(<<Char(ptr)>>, 1)
  BY DEF CopyByte, Copying
<1>2. PICK k \in 1 .. len + 1 : ptr = Pos(k) /\ Len(out) <= k - 1
  BY <1>1, AtUnit
<1>3. k + 1 \in 1 .. len + 1 /\ Pos(k + 1) = ptr + 1
  BY <1>1, <1>2, AtUnit, NextUnit
<1>4. <<Char(ptr)>> \in Seq(Nat) /\ Len(<<Char(ptr)>>) <= 1
  BY <1>1, AtUnit, SMT
<1>5. 1 \in Nat
  OBVIOUS
<1> QED BY <1>1, <1>2, <1>3, <1>4, <1>5, WritesUnits

\* ... an escape of one letter, one unit for one byte,
LEMMA CopyEscapeInv == ASSUME Inv, CopyEscape PROVE Inv'
<1> DEFINE c == Unescaped(Char(ptr + 1))
<1>1. Copying /\ pc = "copy" /\ Char(ptr) = Backslash /\ Write(<<c>>, 2)
  BY DEF CopyEscape, Copying, Escape
<1>2. PICK k \in 1 .. len + 1 : ptr = Pos(k) /\ Len(out) <= k - 1
  BY <1>1, AtUnit
<1>3. k + 1 \in 1 .. len + 1 /\ Pos(k + 1) = ptr + 2
  BY <1>1, <1>2, AtUnit, NextUnit
<1>4. c \in Nat
  <2>1. ptr + 1 \in Place
    BY <1>1, AtUnit, SMTT(30) DEF Place
  <2> QED BY <2>1, <1>1, AtUnit, UnescapedType
<1>5. <<c>> \in Seq(Nat) /\ Len(<<c>>) <= 1
  BY <1>4, SMT
<1>6. 1 \in Nat /\ 2 \in Nat
  OBVIOUS
<1> HIDE DEF c
<1> QED BY <1>1, <1>2, <1>3, <1>5, <1>6, WritesUnits

\* ... an escape of four digits, five units for at most three bytes,
LEMMA CopyUnitInv == ASSUME Inv, CopyUnit PROVE Inv'
<1> DEFINE bytes == Utf8(uc)
<1>1. /\ Copying /\ pc = "copy" /\ Char(ptr) = Backslash /\ Write(bytes, 6)
      /\ ptr + 5 < end_ptr /\ parse_hex4(ptr + 2) # 0
  BY DEF CopyUnit, Copying, Escape, OneUnit, uc
<1>2. PICK k \in 1 .. len + 1 : ptr = Pos(k) /\ Len(out) <= k - 1
  BY <1>1, AtUnit
<1>3. k + 5 \in 1 .. len + 1 /\ Pos(k + 5) = ptr + 6
  BY <1>1, <1>2, AtUnit, FiveUnits
<1>4. bytes \in Seq(Nat) /\ Len(bytes) <= 5
  <2>0. PassesOK
    BY <1>1, AtUnit
  <2>1. text \in Seq(Nat) /\ ptr + 2 \in Nat /\ ptr + 2 > 0
    BY <2>0, SMT DEF PassesOK, Place
  <2>2. uc \in Nat
    BY <2>1, Hex4Type DEF uc
  <2>3. bytes \in Seq(Nat) /\ Len(bytes) <= 4
    BY <2>2, Utf8Fits
  <2> HIDE DEF bytes
  <2> QED BY <2>3, SMT
<1>5. 5 \in Nat /\ 6 \in Nat
  OBVIOUS
<1> HIDE DEF bytes
<1> QED BY <1>1, <1>2, <1>3, <1>4, <1>5, WritesUnits

\* ... a pair of them, ten units for four bytes,
LEMMA CopyPairInv == ASSUME Inv, CopyPair PROVE Inv'
<1> DEFINE bytes == Utf8(Pair(uc, uc2))
<1>1. /\ Copying /\ pc = "copy" /\ Char(ptr) = Backslash /\ Write(bytes, 12)
      /\ ptr + 5 < end_ptr /\ High(uc)
      /\ ptr + 11 <= end_ptr /\ Char(ptr + 6) = Backslash /\ Low(uc2)
  BY DEF CopyPair, Copying, Escape, TwoUnits
<1>2. PICK k \in 1 .. len + 1 : ptr = Pos(k) /\ Len(out) <= k - 1
  BY <1>1, AtUnit
<1>3. /\ text \in Seq(Nat) /\ ptr \in Nat /\ end_ptr \in Nat /\ len \in Nat
      /\ ptr \in Place /\ ptr + 6 \in Place
      /\ ptr + 2 \in Nat /\ ptr + 2 > 0 /\ ptr + 8 \in Nat /\ ptr + 8 > 0
  <2>1. PassesOK
    BY <1>1, AtUnit
  <2> QED BY <2>1, SMT DEF PassesOK, Place, len
<1>4. uc \in Nat /\ uc2 \in Nat
  BY <1>3, Hex4Type DEF uc, uc2
<1>5. parse_hex4(ptr + 2) # 0 /\ parse_hex4(ptr + 8) # 0
  <2>1. uc # 0 /\ uc2 # 0
    BY <1>1, SMTT(30) DEF High, Low
  <2> QED BY <2>1 DEF uc, uc2
\* The last digit is no quote and no end, so the pass that counted did not end there.
<1>6. ptr + 11 < end_ptr
  <2>1. ptr + 11 \in ptr + 8 .. (ptr + 8) + 3
    BY <1>3, SMT
  <2>2. Char(ptr + 11) \notin {Quote, NUL}
    BY <1>3, <1>5, <2>1, Hex4Type
  <2>3. ptr + 11 # end_ptr
    BY <2>2, <1>1, AtUnit
  <2> QED BY <1>1, <1>3, <2>3, SMT
<1>7. k + 5 \in 1 .. len + 1 /\ Pos(k + 5) = ptr + 6
  BY <1>1, <1>2, <1>3, <1>5, AtUnit, FiveUnits
<1>8. (k + 5) + 5 \in 1 .. len + 1 /\ Pos((k + 5) + 5) = (ptr + 6) + 6
  <2>1. (ptr + 6) + 2 = ptr + 8 /\ (ptr + 6) + 5 = ptr + 11
    BY <1>3, SMT
  <2> QED BY <1>1, <1>3, <1>5, <1>6, <1>7, <2>1, AtUnit, FiveUnits
<1>9. /\ k + 10 = (k + 5) + 5 /\ ptr + 12 = (ptr + 6) + 6
      /\ 10 \in Nat /\ 12 \in Nat
  BY <1>3, SMT
<1>10. bytes \in Seq(Nat) /\ Len(bytes) <= 10
  <2>1. Pair(uc, uc2) \in Nat
    BY <1>4, SMT DEF Pair
  <2>2. bytes \in Seq(Nat) /\ Len(bytes) <= 4
    BY <2>1, Utf8Fits
  <2> HIDE DEF bytes
  <2> QED BY <2>2, SMT
<1> HIDE DEF bytes
<1> QED BY <1>1, <1>2, <1>8, <1>9, <1>10, WritesUnits

\* ... the end of the string,
LEMMA TerminateInv == ASSUME Inv, Terminate PROVE Inv'
<1>1. /\ pc = "copy" /\ pc' = "parsed"
      /\ UNCHANGED <<text, at, end_ptr, size, ptr, out>>
  BY DEF Terminate, string, passes
<1>2. PassesOK /\ PassesOK'
  BY <1>1 DEF Inv, PassesOK
<1>3. PICK k \in 1 .. len + 1 : Len(out) <= k - 1
  BY <1>1 DEF Inv, Decoding
<1>4. size = len + 1
  BY <1>1 DEF Inv, Decoding
<1>5. Len(out) + 1 <= size
  BY <1>2, <1>3, <1>4, SMT DEF PassesOK, len
<1> QED BY <1>1, <1>2, <1>5 DEF Inv

\* ... and the ends where nothing is allocated.
LEMMA StopInv == ASSUME Inv, PastEnd \/ Invalid PROVE Inv'
<1>1. pc' \in {"past end", "invalid"} /\ UNCHANGED <<text, at, end_ptr, size, ptr, out>>
  BY DEF PastEnd, Invalid, string, passes
<1>2. PassesOK'
  BY <1>1 DEF Inv, PassesOK
<1> QED BY <1>1, <1>2 DEF Inv

----------------------------------------------------------------------------
\* So it is when the printing pass begins,
LEMMA StartPrintInv == ASSUME Inv, StartPrint PROVE Inv'
<1>1. /\ at' = <<>> /\ end_ptr' = 1 /\ pc' = "count"
      /\ UNCHANGED <<text, size, ptr, out>>
  BY DEF StartPrint
<1>2. PassesOK'
  BY <1>1, SMT DEF Inv, PassesOK, Place
<1>3. len' = 0 /\ Len(out') \in Nat
  BY <1>1, <1>2, SMT DEF len, PassesOK
<1>4. Counting'
  BY <1>1, <1>3, SMT DEF Counting, Pos
<1> QED BY <1>1, <1>2, <1>4 DEF Inv

\* ... by the counting of a character,
LEMMA CountInv == ASSUME Inv, Count PROVE Inv'
<1>1. /\ at' = Append(at, end_ptr)
      /\ end_ptr' = end_ptr + Counted(out[len + 1])
      /\ len < Len(out) /\ pc = "count" /\ pc' = pc
      /\ text' = text /\ size' = size /\ ptr' = ptr /\ out' = out
  BY DEF Count
<1>2. len \in Nat /\ len' = len + 1 /\ end_ptr \in Place /\ at \in Seq(Place)
  BY <1>1, SMT DEF Inv, PassesOK, len
<1>3. Counted(out[len + 1]) \in Nat
  <2>1. out[len + 1] \in Nat
    BY <1>1, <1>2, SMT DEF Inv, PassesOK
  <2> QED BY <2>1, EscapedFits
<1>4. PassesOK'
  BY <1>1, <1>2, <1>3, SMT DEF Inv, PassesOK, Place
<1>5. \A k \in 1 .. len + 1 : Pos(k)' = Pos(k)
  BY <1>1, <1>2, SMT DEF Pos, len
<1>6. \A k \in 1 .. len + 1 : Pos(k + 1)' = Pos(k)' + Counted(out[k])
  <2> SUFFICES ASSUME NEW k \in 1 .. len + 1
               PROVE  Pos(k + 1)' = Pos(k)' + Counted(out[k])
    OBVIOUS
  <2>1. CASE k = len + 1
    <3>1. ~(k <= len) /\ k <= len' /\ ~(k + 1 <= len')
      BY <2>1, <1>2, SMT
    <3>2. Pos(k + 1)' = end_ptr'
      BY <3>1 DEF Pos
    <3>3. Pos(k) = end_ptr /\ Pos(k)' = Pos(k)
      BY <3>1, <1>5 DEF Pos
    <3> QED BY <2>1, <3>2, <3>3, <1>1
  <2>2. CASE k \in 1 .. len
    <3>1. Pos(k + 1)' = Pos(k + 1) /\ Pos(k)' = Pos(k)
      BY <2>2, <1>2, <1>5, SMT
    <3>2. Pos(k + 1) = Pos(k) + Counted(out[k])
      BY <2>2, <1>1 DEF Inv, Counting
    <3> QED BY <3>1, <3>2
  <2> QED BY <2>1, <2>2, <1>2, SMT
<1>7. Pos(1)' = 1
  BY <1>1, <1>2, <1>5, SMT DEF Inv, Counting
<1>8. len' <= Len(out')
  BY <1>1, <1>2, <1>4, SMT DEF PassesOK
<1>9. \A k \in 1 .. len + 1 : Pos(k)' <= end_ptr'
  <2>1. end_ptr <= end_ptr' /\ end_ptr \in Nat /\ end_ptr' \in Nat
    BY <1>1, <1>2, <1>3, SMT DEF Place
  <2>2. \A k \in 1 .. len : Pos(k) <= end_ptr /\ Pos(k) \in Nat
    <3>1. \A k \in 1 .. len : Pos(k) <= end_ptr
      BY <1>1 DEF Inv, Counting
    <3>2. \A k \in 1 .. len : Pos(k) \in Nat
      BY <1>2, SMT DEF Pos, Place, len
    <3> QED BY <3>1, <3>2
  <2>3. \A k \in 1 .. len + 1 : Pos(k) <= end_ptr /\ Pos(k) \in Nat
    BY <2>1, <2>2, <1>2, SMT DEF Pos
  <2>4. \A k \in 1 .. len + 1 : Pos(k) <= end_ptr'
    BY <2>1, <2>3, SMT
  <2> QED BY <2>4, <1>5
<1>10. Counting'
  BY <1>1, <1>2, <1>6, <1>7, <1>8, <1>9 DEF Counting
<1> QED BY <1>1, <1>4, <1>10 DEF Inv

\* ... the allocation,
LEMMA AllocateTextInv == ASSUME Inv, AllocateText PROVE Inv'
<1>1. /\ len = Len(out) /\ pc = "count" /\ pc' = "write"
      /\ size' = end_ptr + 2 /\ text' = <<Quote>> /\ ptr' = 1
      /\ at' = at /\ end_ptr' = end_ptr /\ out' = out
  BY DEF AllocateText
<1>2. len \in Nat /\ len' = len
  BY <1>1, SMT DEF Inv, PassesOK, len
<1>3. PassesOK'
  BY <1>1, SMT DEF Inv, PassesOK, Place, Quote
<1>4. Counting' /\ Counting
  BY <1>1 DEF Inv, Counting, Pos, len
<1>5. Len(text') = 1 /\ ptr' \in 1 .. len' + 1
  BY <1>1, <1>2, SMT
<1>6. Writing'
  BY <1>1, <1>2, <1>4, <1>5 DEF Writing, Counting
<1> QED BY <1>1, <1>3, <1>6 DEF Inv

\* ... the writing of a character,
LEMMA WriteCharInv == ASSUME Inv, WriteChar PROVE Inv'
<1>1. /\ ptr <= Len(out) /\ text' = text \o Escaped(out[ptr]) /\ ptr' = ptr + 1
      /\ pc = "write" /\ pc' = pc
      /\ at' = at /\ end_ptr' = end_ptr /\ size' = size /\ out' = out
  BY DEF WriteChar
<1>2. /\ PassesOK /\ Writing /\ Counting
      /\ len \in Nat /\ len' = len /\ len = Len(out)
      /\ ptr \in 1 .. len
  BY <1>1, SMT DEF Inv, PassesOK, Writing, len
<1>3. out[ptr] \in Nat
  BY <1>2, SMT DEF PassesOK
<1>4. /\ Escaped(out[ptr]) \in Seq(Nat)
      /\ Len(Escaped(out[ptr])) = Counted(out[ptr])
  BY <1>3, EscapedFits
<1>5. PassesOK'
  BY <1>1, <1>2, <1>4, SMT DEF PassesOK, Place
<1>6. Len(text') = Len(text) + Counted(out[ptr])
  <2> DEFINE e == Escaped(out[ptr])
  <2>1. text \in Seq(Nat) /\ e \in Seq(Nat) /\ text' = text \o e
    BY <1>1, <1>2, <1>4 DEF PassesOK
  <2> HIDE DEF e
  <2>2. Len(text') = Len(text) + Len(e)
    BY <2>1, SMT
  <2> QED BY <2>2, <1>4 DEF e
<1>7. Pos(ptr + 1) = Pos(ptr) + Counted(out[ptr]) /\ Len(text) = Pos(ptr)
  BY <1>2 DEF Counting, Writing
<1>8. Pos(ptr)' = Pos(ptr + 1)
  BY <1>1, <1>2 DEF Pos
<1>9. Counting'
  BY <1>1, <1>2 DEF Counting, Pos, len
<1>10. ptr' \in 1 .. len' + 1
  BY <1>1, <1>2, SMT
<1>11. size' = end_ptr' + 2 /\ len' = Len(out')
  BY <1>1, <1>2 DEF Writing
<1>12. Writing'
  BY <1>6, <1>7, <1>8, <1>9, <1>10, <1>11 DEF Writing
<1> QED BY <1>1, <1>5, <1>12 DEF Inv

\* ... the closing quote,
LEMMA WriteQuoteInv == ASSUME Inv, WriteQuote PROVE Inv'
<1>1. /\ ptr > Len(out) /\ text' = Append(text, Quote)
      /\ pc = "write" /\ pc' = "printed"
      /\ UNCHANGED <<at, end_ptr, size, ptr, out>>
  BY DEF WriteQuote, passes
<1>2. PassesOK'
  BY <1>1, SMT DEF Inv, PassesOK, Place, Quote
<1>3. /\ PassesOK /\ len \in Nat /\ end_ptr \in Nat /\ ptr = len + 1
      /\ size = end_ptr + 2 /\ Len(text) = Pos(ptr)
  BY <1>1, SMT DEF Inv, PassesOK, Place, Writing, len
<1>4. Pos(ptr) = end_ptr
  BY <1>3, SMT DEF Pos
<1>5. Len(text') = end_ptr + 1
  BY <1>1, <1>3, <1>4, SMT DEF PassesOK
<1>6. Len(text') + 1 <= size'
  BY <1>1, <1>3, <1>5, SMT
<1> QED BY <1>1, <1>2, <1>6 DEF Inv

\* ... and when the text is read again.
LEMMA ReloadInv == ASSUME Inv, Reload PROVE Inv'
<1>1. /\ pc' = "scan" /\ at' = <<>> /\ end_ptr' = 2
      /\ UNCHANGED <<text, size, ptr, out>>
  BY DEF Reload
<1>2. PassesOK'
  BY <1>1, SMT DEF Inv, PassesOK, Place
<1>3. len' = 0
  BY <1>1, SMT DEF len
<1>4. Scanned'
  BY <1>1, <1>3, SMT DEF Scanned, Pos
<1> QED BY <1>1, <1>2, <1>4 DEF Inv

\* What is about numbers does not touch it.
LEMMA KeepsInv ==
    ASSUME Inv, UNCHANGED <<text, pc, at, end_ptr, size, ptr, out>>
    PROVE  Inv'
BY DEF Inv, PassesOK, Scanned, Decoding, Counting, Writing, Pos, len, Char

\* Together these are all the steps.
LEMMA NextInv == Inv /\ [Next]_vars => Inv'
<1> SUFFICES ASSUME Inv, [Next]_vars PROVE Inv'
  OBVIOUS
<1>1. CASE Scan \/ Allocate \/ PastEnd \/ Invalid \/ Terminate
  BY <1>1, ScanInv, AllocateInv, StopInv, TerminateInv
<1>2. CASE CopyByte \/ CopyEscape \/ CopyUnit \/ CopyPair
  BY <1>2, CopyByteInv, CopyEscapeInv, CopyUnitInv, CopyPairInv
<1>3. CASE StartPrint \/ Count \/ AllocateText \/ WriteChar \/ WriteQuote \/ Reload
  BY <1>3, StartPrintInv, CountInv, AllocateTextInv, WriteCharInv, WriteQuoteInv, ReloadInv
<1>4. CASE ReloadNumber
  BY <1>4, KeepsInv DEF ReloadNumber, string, passes
<1>5. CASE UNCHANGED vars
  BY <1>5, KeepsInv DEF vars, string, passes
<1> QED BY <1>1, <1>2, <1>3, <1>4, <1>5 DEF Next

\* The invariant holds throughout.
LEMMA Invariance == Spec => []Inv
<1> QED BY InitInv, NextInv, PTL DEF Spec

\* parse_string never writes behind what it has allocated, whatever the text holds
\* (json/cJSON.c 193-258).
THEOREM DecodeNeverOverruns == Spec => []DecodeFits
<1>1. Inv => DecodeFits
  <2> SUFFICES ASSUME Inv, pc = "copy" PROVE Len(out) + 1 <= size
    BY DEF Inv, DecodeFits
  <2>1. PICK k \in 1 .. len + 1 : Len(out) <= k - 1
    BY DEF Inv, Decoding
  <2>2. size = len + 1
    BY DEF Inv, Decoding
  <2> QED BY <2>1, <2>2, SMT DEF Inv, PassesOK, len
<1> QED BY <1>1, Invariance, PTL

\* Nor does print_string_ptr, whatever bytes the string has (json/cJSON.c 261-311).
THEOREM PrintNeverOverruns == Spec => []PrintFits
<1>1. Inv => PrintFits
  <2> SUFFICES ASSUME Inv, pc = "write" PROVE Len(text) + 1 <= size
    BY DEF Inv, PrintFits
  <2>1. Writing /\ PassesOK
    BY DEF Inv
  <2>2. Pos(ptr) <= end_ptr
    BY <2>1, SMT DEF Writing, Counting, PassesOK, Place, Pos, len
  <2> QED BY <2>1, <2>2, SMT DEF Writing, PassesOK, Place
<1> QED BY <1>1, Invariance, PTL

----------------------------------------------------------------------------
\* What is printed is read again as it was.

\* The text t has at p what is printed for c.
Spells(t, p, c) == \A j \in 1 .. Counted(c) : t[p + j - 1] = Escaped(c)[j]

\* t is what is printed for s: character k from q[k] on, then a quote.
Layout(q, t, s) ==
    /\ q[1] = 2 /\ q[Len(s) + 1] = Len(t) /\ t[Len(t)] = Quote
    /\ \A k \in 1 .. Len(s) :
         /\ q[k] \in Place /\ q[k + 1] = q[k] + Counted(s[k])
         /\ q[k + 1] <= Len(t) /\ Spells(t, q[k], s[k])

\* As far as print_string_ptr has come, every character is where it was counted to be.
Written ==
    \A k \in 1 .. ptr - 1 :
        Pos(k) + Counted(out[k]) <= Len(text) /\ Spells(text, Pos(k) + 1, out[k])

\* The pass that counts is at a character of the string printed, or at one of the digits
\* of an escape of six bytes, each of which it takes for a unit.
Rescanning ==
    \E q : /\ Layout(q, text, prev)
           /\ \E k \in 1 .. Len(prev) + 1 :
                \/ end_ptr = q[k]
                \/ k <= Len(prev) /\ Counted(prev[k]) = 6 /\ end_ptr \in q[k] + 2 .. q[k] + 5

\* The pass that decodes is at a character, and has decoded those before it.
Recopying ==
    \E q : /\ Layout(q, text, prev) /\ end_ptr = Len(text)
           /\ \E k \in 1 .. Len(prev) + 1 : ptr = q[k] /\ out = SubSeq(prev, 1, k - 1)

\* No string has a byte 0 before its end, and no pass reads beyond the text.
BytesOK ==
    /\ text \in Seq(Place) /\ out \in Seq(Place) /\ prev \in Seq(Place)
    /\ pc \in {"scan", "copy"} => \A k \in 1 .. len + 1 : Pos(k) <= end_ptr
    /\ pc = "copy" => end_ptr <= Len(text) + 1

BackInv ==
    /\ BytesOK
    /\ pc = "write" => Written
    /\ pc = "printed" => \E q : Layout(q, text, out)
    /\ round > 1 =>
         /\ pc \notin {"invalid", "past end"}
         /\ pc = "scan" => Rescanning
         /\ pc = "copy" => Recopying
         /\ pc = "parsed" => out = prev

----------------------------------------------------------------------------
\* What is printed for one character.

\* It is the character, a backslash and a letter that stands for it, or a backslash, "u"
\* and its four digits.
AsItself(c) == Escaped(c) = <<c>> /\ Counted(c) = 1 /\ c \notin {Quote, Backslash}
AsLetter(c, l) ==
    /\ Escaped(c) = <<Backslash, l>> /\ Counted(c) = 2
    /\ l \in Place /\ l # 117 /\ Unescaped(l) = c
AsDigits(c, n, m) ==
    /\ Escaped(c) = <<Backslash, 117, 48, 48, Hex(n), Hex(m)>> /\ Counted(c) = 6
    /\ n \in 0 .. 15 /\ m \in 0 .. 15 /\ c = 16 * n + m /\ c < 32

\* Hexadecimal digits are read as they were written, and end no string.
LEMMA HexBack ==
    ASSUME NEW n \in 0 .. 15
    PROVE  /\ Hex(n) \in Place \ {Quote, NUL, Backslash} /\ HexDigit(Hex(n)) = n
           /\ HexDigit(48) = 0
  BY DEF HexDigit, Hex, Quote, NUL, Backslash, Place

\* A letter that stands for c is read as c.
LEMMA LetterBack ==
    ASSUME NEW c \in Place, NEW l \in Letter(c)
    PROVE  l \in Place /\ l # 117 /\ Unescaped(l) = c
<1>1. <<l, c>> \in Control
  <2>1. PICK e \in Control : e[2] = c /\ l = e[1]
    BY DEF Letter
  <2>2. e = <<e[1], e[2]>>
    BY DEF Control
  <2> QED BY <2>1, <2>2
<1>2. /\ l \in {98, 102, 110, 114, 116}
      /\ (l = 98 => c = 8) /\ (l = 102 => c = 12) /\ (l = 110 => c = 10)
      /\ (l = 114 => c = 13) /\ (l = 116 => c = 9)
  <2>1. PICK e \in Control : e[1] = l /\ e[2] = c
    BY <1>1
  <2>2. /\ e[1] \in {98, 102, 110, 114, 116}
        /\ (e[1] = 98 => e[2] = 8) /\ (e[1] = 102 => e[2] = 12) /\ (e[1] = 110 => e[2] = 10)
        /\ (e[1] = 114 => e[2] = 13) /\ (e[1] = 116 => e[2] = 9)
    BY SMT DEF Control
  <2> QED BY <2>1, <2>2
<1>3. \A e \in Control : e[1] = l => e[2] = c
  BY <1>2 DEF Control
<1>4. \E e \in Control : e[1] = l
  BY <1>1
<1>5. (CHOOSE e \in Control : e[1] = l)[2] = c
  BY <1>3, <1>4
<1> QED BY <1>2, <1>4, <1>5 DEF Unescaped, Place

\* These are all the ways.
LEMMA EscapedAs ==
    ASSUME NEW c \in Place
    PROVE  AsItself(c) \/ (\E l : AsLetter(c, l)) \/ \E n, m : AsDigits(c, n, m)
<1>1. CASE Itself(c)
  <2>1. c \in {34, 92}
    BY <1>1 DEF Itself, Quote, Backslash
  <2>2. \A e \in Control : e[1] # c
    BY <2>1 DEF Control
  <2>3. Unescaped(c) = c
    BY <2>2 DEF Unescaped
  <2>4. AsLetter(c, c)
    BY <1>1, <2>1, <2>3 DEF AsLetter, Escaped, Counted
  <2> QED BY <2>4
<1>2. CASE ~Itself(c) /\ Letter(c) # {}
  <2>1. PICK l : l = CHOOSE x \in Letter(c) : TRUE
    OBVIOUS
  <2>2. l \in Letter(c)
    BY <1>2, <2>1
  <2>3. Escaped(c) = <<Backslash, l>> /\ Counted(c) = 2
    BY <1>2, <2>1 DEF Escaped, Counted
  <2>4. AsLetter(c, l)
    BY <2>2, <2>3, LetterBack DEF AsLetter
  <2> QED BY <2>4
<1>3. CASE ~Itself(c) /\ Letter(c) = {} /\ c < 32
  <2>1. PICK n, m : n = c \div 16 /\ m = c % 16
    OBVIOUS
  <2>2. n \in Int /\ m \in 0 .. 15 /\ c = 16 * n + m
    BY <2>1, SMT DEF Place
  <2>3. n \in 0 .. 15
    BY <2>2, <1>3, SMT DEF Place
  <2>4. Escaped(c) = <<Backslash, 117, 48, 48, Hex(n), Hex(m)>> /\ Counted(c) = 6
    <3>1. Escaped(c) = <<Backslash, 117, 48, 48, Hex(c \div 16), Hex(c % 16)>>
      BY <1>3 DEF Escaped
    <3>2. Counted(c) = 6
      BY <1>3 DEF Counted
    <3> QED BY <2>1, <3>1, <3>2, Zenon
  <2>5. AsDigits(c, n, m)
    BY <1>3, <2>2, <2>3, <2>4 DEF AsDigits
  <2> QED BY <2>5
<1>4. CASE ~Itself(c) /\ Letter(c) = {} /\ ~(c < 32)
  <2>1. c \notin {Quote, Backslash}
    BY <1>4 DEF Itself
  <2> QED BY <1>4, <2>1 DEF AsItself, Escaped, Counted
<1> QED BY <1>1, <1>2, <1>3, <1>4

\* It has no byte 0, and is as long as it was counted.
LEMMA EscapedBytes ==
    ASSUME NEW c \in Place
    PROVE  /\ Escaped(c) \in Seq(Place) /\ Len(Escaped(c)) = Counted(c)
           /\ Counted(c) \in {1, 2, 6}
<1>1. CASE AsItself(c)
  BY <1>1 DEF AsItself
<1>2. CASE \E l : AsLetter(c, l)
  BY <1>2 DEF AsLetter, Place, Backslash
<1>3. CASE \E n, m : AsDigits(c, n, m)
  <2>1. PICK n, m : AsDigits(c, n, m)
    BY <1>3
  <2>2. Hex(n) \in Place /\ Hex(m) \in Place
    BY <2>1, HexBack DEF AsDigits
  <2>3. 117 \in Place /\ 48 \in Place /\ Backslash \in Place
    BY DEF Place, Backslash
  <2> QED BY <2>1, <2>2, <2>3 DEF AsDigits
<1> QED BY <1>1, <1>2, <1>3, EscapedAs

----------------------------------------------------------------------------
\* What the passes find where a character is printed.

\* At p is what is printed for c.
Found(p, c) ==
    \/ AsItself(c) /\ Char(p) = c
    \/ \E l : AsLetter(c, l) /\ Char(p) = Backslash /\ Char(p + 1) = l
    \/ \E n, m : /\ AsDigits(c, n, m) /\ Char(p) = Backslash /\ Char(p + 1) = 117
                 /\ Char(p + 2) = 48 /\ Char(p + 3) = 48
                 /\ Char(p + 4) = Hex(n) /\ Char(p + 5) = Hex(m)

\* So it is wherever one is spelled.
LEMMA SpelledIsFound ==
    ASSUME NEW p, NEW c, text \in Seq(Place), p \in Place, c \in Place,
           Spells(text, p, c), p + Counted(c) <= Len(text)
    PROVE  Found(p, c)
<1>1. Counted(c) \in {1, 2, 6} /\ Len(text) \in Nat
  BY EscapedBytes
<1>2. ASSUME NEW j \in 1 .. Counted(c) PROVE Char(p + (j - 1)) = Escaped(c)[j]
  <2>1. text[p + j - 1] = Escaped(c)[j] /\ p + j - 1 = p + (j - 1)
    BY DEF Spells, Place
  <2>2. p + (j - 1) <= Len(text)
    BY <1>1 DEF Place
  <2> QED BY <2>1, <2>2 DEF Char
<1>3. p + 0 = p
  BY DEF Place
<1>4. CASE AsItself(c)
  <2>1. Char(p + (1 - 1)) = Escaped(c)[1]
    BY <1>2, <1>4 DEF AsItself
  <2>2. Escaped(c)[1] = c
    BY <1>4 DEF AsItself
  <2> QED BY <1>3, <1>4, <2>1, <2>2 DEF Found
<1>5. CASE \E l : AsLetter(c, l)
  <2>1. PICK l : AsLetter(c, l)
    BY <1>5
  <2>2. Char(p + (1 - 1)) = Escaped(c)[1] /\ Char(p + (2 - 1)) = Escaped(c)[2]
    BY <1>2, <2>1 DEF AsLetter
  <2>3. Escaped(c)[1] = Backslash /\ Escaped(c)[2] = l
    BY <2>1 DEF AsLetter
  <2> QED BY <1>3, <2>1, <2>2, <2>3 DEF Found
<1>6. CASE \E n, m : AsDigits(c, n, m)
  <2>1. PICK n, m : AsDigits(c, n, m)
    BY <1>6
  <2>2. /\ Char(p + (1 - 1)) = Escaped(c)[1] /\ Char(p + (2 - 1)) = Escaped(c)[2]
        /\ Char(p + (3 - 1)) = Escaped(c)[3] /\ Char(p + (4 - 1)) = Escaped(c)[4]
        /\ Char(p + (5 - 1)) = Escaped(c)[5] /\ Char(p + (6 - 1)) = Escaped(c)[6]
    BY <1>2, <2>1 DEF AsDigits
  <2>3. /\ Escaped(c)[1] = Backslash /\ Escaped(c)[2] = 117 /\ Escaped(c)[3] = 48
        /\ Escaped(c)[4] = 48 /\ Escaped(c)[5] = Hex(n) /\ Escaped(c)[6] = Hex(m)
    BY <2>1 DEF AsDigits
  <2> QED BY <1>3, <2>1, <2>2, <2>3 DEF Found
<1> QED BY <1>4, <1>5, <1>6, EscapedAs

\* ... and so with every character of a string that is laid out.
LEMMA LaidOut ==
    ASSUME NEW q, NEW s, NEW k, text \in Seq(Place), s \in Seq(Place), Layout(q, text, s),
           k \in 1 .. Len(s)
    PROVE  /\ s[k] \in Place /\ q[k] \in Place /\ q[k + 1] \in Place
           /\ q[k + 1] = q[k] + Counted(s[k]) /\ Counted(s[k]) \in {1, 2, 6}
           /\ q[k + 1] <= Len(text) /\ Found(q[k], s[k])
<1>1. s[k] \in Place
  OBVIOUS
<1>2. /\ q[k] \in Place /\ q[k + 1] = q[k] + Counted(s[k])
      /\ q[k + 1] <= Len(text) /\ Spells(text, q[k], s[k])
  BY DEF Layout
<1>3. Counted(s[k]) \in {1, 2, 6}
  BY <1>1, EscapedBytes
<1>4. q[k + 1] \in Place
  BY <1>2, <1>3 DEF Place
<1> QED BY <1>1, <1>2, <1>3, <1>4, SpelledIsFound

\* Behind the last is the quote, and the text ends.
LEMMA LaidOutEnd ==
    ASSUME NEW q, NEW s, text \in Seq(Place), s \in Seq(Place), Layout(q, text, s)
    PROVE  /\ q[Len(s) + 1] = Len(text) /\ Len(text) \in Place /\ Char(Len(text)) = Quote
           /\ Len(s) \in Nat /\ \A k \in 1 .. Len(s) + 1 : q[k] \in Place /\ q[k] <= Len(text)
<1>1. Len(s) \in Nat /\ Len(text) \in Nat /\ q[Len(s) + 1] = Len(text) /\ text[Len(text)] = Quote
  BY DEF Layout
<1>2. Char(Len(text)) = Quote
  BY <1>1 DEF Char
<1>3. ASSUME NEW k \in 1 .. Len(s) + 1 PROVE q[k] \in Place /\ q[k] <= Len(text)
  <2>1. CASE k = 1
    <3>1. q[1] = 2
      BY DEF Layout
    <3>2. CASE Len(s) = 0
      BY <3>1, <3>2, <2>1, <1>1 DEF Place
    <3>3. CASE Len(s) # 0
      <4>1. 1 \in 1 .. Len(s)
        BY <3>3, <1>1
      <4>2. q[1] + Counted(s[1]) <= Len(text) /\ Counted(s[1]) \in {1, 2, 6}
        BY <4>1, LaidOut
      <4> QED BY <3>1, <4>2, <2>1, <1>1 DEF Place
    <3> QED BY <3>2, <3>3
  <2>2. CASE k # 1
    <3>1. k - 1 \in 1 .. Len(s) /\ (k - 1) + 1 = k
      BY <2>2, <1>1
    <3>2. q[(k - 1) + 1] \in Place /\ q[(k - 1) + 1] <= Len(text)
      BY <3>1, LaidOut
    <3> QED BY <3>1, <3>2
  <2> QED BY <2>1, <2>2
<1>4. Len(text) \in Place
  BY <1>1, <1>3
<1> QED BY <1>1, <1>2, <1>3, <1>4

----------------------------------------------------------------------------
\* The strings begin without a byte 0,
LEMMA InitBack == Init => BackInv
<1> SUFFICES ASSUME Init PROVE BackInv
  OBVIOUS
<1>1. text \in Seq(Place)
  <2>1. CASE \E i \in Input : text = i.text
    <3>1. text \in Seq(Byte)
      BY <2>1, ScalarsAssumption
    <3>2. Byte \subseteq Place
      BY SMT DEF Byte, Place
    <3> QED BY <3>1, <3>2, SeqMonotonic
  <2>2. CASE text = NoString.text
    BY <2>2, SMT DEF NoString, Quote, Place
  <2> QED BY <2>1, <2>2 DEF Init
<1>2. /\ at = <<>> /\ end_ptr = 2 /\ out = <<>> /\ prev = <<>> /\ round = 1
      /\ pc \in {"scan", "number"}
  BY DEF Init
<1>3. \A k \in 1 .. len + 1 : Pos(k) <= end_ptr
  BY <1>2 DEF Pos, len
<1>4. BytesOK
  BY <1>1, <1>2, <1>3 DEF BytesOK
<1> QED BY <1>2, <1>4 DEF BackInv

\* ... the pass that counts stays where the characters are,
LEMMA ScanOn ==
    ASSUME NEW q, NEW k, BytesOK, Layout(q, text, prev), k \in 1 .. Len(prev) + 1,
           Char(end_ptr) \notin {Quote, NUL},
           \/ end_ptr = q[k]
           \/ k <= Len(prev) /\ Counted(prev[k]) = 6 /\ end_ptr \in q[k] + 2 .. q[k] + 5
    PROVE  /\ k \in 1 .. Len(prev) /\ end_ptr \in Place
           /\ LET e == end_ptr + (IF Char(end_ptr) = Backslash THEN 2 ELSE 1)
              IN  e = q[k + 1] \/ (Counted(prev[k]) = 6 /\ e \in q[k] + 2 .. q[k] + 5)
<1> DEFINE e == end_ptr + (IF Char(end_ptr) = Backslash THEN 2 ELSE 1)
<1>1. text \in Seq(Place) /\ prev \in Seq(Place)
  BY DEF BytesOK
<1>2. /\ q[Len(prev) + 1] = Len(text) /\ Char(Len(text)) = Quote /\ Len(prev) \in Nat
      /\ q[k] \in Place
  BY <1>1, LaidOutEnd
<1>3. k \in 1 .. Len(prev)
  BY <1>2
<1>4. /\ prev[k] \in Place /\ q[k + 1] = q[k] + Counted(prev[k])
      /\ Counted(prev[k]) \in {1, 2, 6} /\ Found(q[k], prev[k])
  BY <1>1, <1>3, LaidOut
<1>5. CASE end_ptr = q[k]
  <2>1. CASE AsItself(prev[k]) /\ Char(q[k]) = prev[k]
    <3>1. e = q[k] + 1 /\ Counted(prev[k]) = 1
      BY <1>5, <2>1 DEF AsItself
    <3> QED BY <1>2, <1>3, <1>4, <1>5, <3>1
  <2>2. CASE Char(q[k]) = Backslash /\ Counted(prev[k]) \in {2, 6}
    <3>1. e = q[k] + 2
      BY <1>5, <2>2
    <3>2. e = q[k + 1] \/ (Counted(prev[k]) = 6 /\ e \in q[k] + 2 .. q[k] + 5)
      <4>1. CASE Counted(prev[k]) = 2
        BY <3>1, <4>1, <1>4
      <4>2. CASE Counted(prev[k]) = 6
        <5>1. \A p \in Nat : p + 2 \in p + 2 .. p + 5
          OBVIOUS
        <5>2. q[k] \in Nat
          BY <1>2 DEF Place
        <5> QED BY <3>1, <4>2, <5>1, <5>2
      <4> QED BY <4>1, <4>2, <2>2
    <3> QED BY <1>2, <1>3, <1>5, <3>2
  <2> QED BY <2>1, <2>2, <1>4 DEF Found, AsLetter, AsDigits
<1>6. CASE Counted(prev[k]) = 6 /\ end_ptr \in q[k] + 2 .. q[k] + 5
  <2>1. PICK n, m : /\ AsDigits(prev[k], n, m)
                    /\ Char(q[k] + 2) = 48 /\ Char(q[k] + 3) = 48
                    /\ Char(q[k] + 4) = Hex(n) /\ Char(q[k] + 5) = Hex(m)
    BY <1>4, <1>6 DEF Found, AsItself, AsLetter
  <2>2. Hex(n) # Backslash /\ Hex(m) # Backslash /\ 48 # Backslash
    <3>1. n \in 0 .. 15 /\ m \in 0 .. 15
      BY <2>1 DEF AsDigits
    <3>2. 48 # Backslash
      BY DEF Backslash
    <3> QED BY <3>1, <3>2, HexBack
  <2>3. end_ptr \in {q[k] + 2, q[k] + 3, q[k] + 4, q[k] + 5}
    <3>1. \A p \in Nat : \A i \in p + 2 .. p + 5 : i \in {p + 2, p + 3, p + 4, p + 5}
      OBVIOUS
    <3>2. q[k] \in Nat
      BY <1>2 DEF Place
    <3> QED BY <3>1, <3>2, <1>6
  <2>4. Char(end_ptr) # Backslash
    BY <2>1, <2>2, <2>3
  <2>5. e = end_ptr + 1
    BY <2>4
  <2>6. e = q[k + 1] \/ (Counted(prev[k]) = 6 /\ e \in q[k] + 2 .. q[k] + 5)
    <3>1. \A p \in Nat : \A i \in {p + 2, p + 3, p + 4, p + 5} :
             i + 1 = p + 6 \/ i + 1 \in p + 2 .. p + 5
      OBVIOUS
    <3>2. q[k] \in Nat /\ q[k + 1] = q[k] + 6 /\ Counted(prev[k]) = 6
      BY <1>2, <1>4, <1>6 DEF Place
    <3>3. end_ptr + 1 = q[k] + 6 \/ end_ptr + 1 \in q[k] + 2 .. q[k] + 5
      BY <2>3, <3>1, <3>2
    <3> QED BY <2>5, <3>2, <3>3
  <2>7. end_ptr \in Place
    BY <2>3, <1>2 DEF Place
  <2> QED BY <1>3, <2>6, <2>7
<1> QED BY <1>5, <1>6

\* (The types of the strings.)
LEMMA StringTypes ==
    ASSUME BackInv
    PROVE  /\ text \in Seq(Place) /\ out \in Seq(Place) /\ prev \in Seq(Place)
           /\ Len(text) \in Nat /\ Len(out) \in Nat /\ Len(prev) \in Nat
<1>1. text \in Seq(Place) /\ out \in Seq(Place) /\ prev \in Seq(Place)
  BY DEF BackInv, BytesOK
<1> QED BY <1>1

\* ... so it does,
LEMMA ScanBack == ASSUME Inv, BackInv, Scan PROVE BackInv'
<1> DEFINE e == end_ptr + (IF Char(end_ptr) = Backslash THEN 2 ELSE 1)
<1>1. /\ at' = Append(at, end_ptr) /\ end_ptr' = e
      /\ Char(end_ptr) \notin {Quote, NUL} /\ pc = "scan" /\ pc' = pc
      /\ UNCHANGED <<text, out, prev, round>>
  BY DEF Scan
<1>2. /\ len \in Nat /\ len' = len + 1 /\ end_ptr \in Place /\ at \in Seq(Place)
      /\ e \in Place /\ end_ptr <= e
  BY <1>1, SMT DEF Inv, PassesOK, len, Place
<1> HIDE DEF e
<1>3. \A k \in 1 .. len' + 1 : Pos(k)' <= end_ptr'
  <2>1. ASSUME NEW k \in 1 .. len + 1 PROVE Pos(k)' = Pos(k) /\ Pos(k) \in Nat
    BY <1>1, <1>2 DEF Pos, len, Place
  <2>2. ASSUME NEW k \in 1 .. len + 1 PROVE Pos(k)' <= end_ptr'
    <3>1. Pos(k) <= end_ptr
      BY <1>1 DEF BackInv, BytesOK
    <3> QED BY <2>1, <3>1, <1>1, <1>2 DEF Place
  <2>3. ASSUME NEW k \in Nat, k = len + 2 PROVE Pos(k)' = end_ptr'
    <3>1. ~(k <= len')
      BY <1>2, <2>3
    <3> QED BY <3>1 DEF Pos
  <2>4. \A k \in 1 .. len' + 1 : k \in 1 .. len + 1 \/ (k \in Nat /\ k = len + 2)
    BY <1>2
  <2>5. end_ptr' <= end_ptr'
    BY <1>1, <1>2 DEF Place
  <2> HIDE DEF Pos
  <2> QED BY <2>2, <2>3, <2>4, <2>5
<1>4. BytesOK'
  BY <1>1, <1>3 DEF BackInv, BytesOK
<1>5. ASSUME round > 1 PROVE Rescanning'
  <2>1. PICK q, k : /\ Layout(q, text, prev) /\ k \in 1 .. Len(prev) + 1
                    /\ \/ end_ptr = q[k]
                       \/ k <= Len(prev) /\ Counted(prev[k]) = 6 /\ end_ptr \in q[k] + 2 .. q[k] + 5
    BY <1>1, <1>5 DEF BackInv, Rescanning
  <2>2. /\ k \in 1 .. Len(prev)
        /\ e = q[k + 1] \/ (Counted(prev[k]) = 6 /\ e \in q[k] + 2 .. q[k] + 5)
    BY <1>1, <2>1, ScanOn DEF BackInv, e
  <2>3. Layout(q, text', prev')
    BY <1>1, <2>1
  <2>4. k + 1 \in 1 .. Len(prev') + 1 /\ k \in 1 .. Len(prev') + 1 /\ k <= Len(prev')
    BY <1>1, <2>2 DEF BackInv, BytesOK
  <2> QED BY <1>1, <2>2, <2>3, <2>4 DEF Rescanning
<1> QED BY <1>1, <1>4, <1>5 DEF BackInv

\* ... never goes past the end,
LEMMA PastEndBack == ASSUME Inv, BackInv, PastEnd PROVE BackInv'
<1>1. /\ pc = "scan" /\ pc' = "past end" /\ end_ptr > Len(text) + 1
      /\ UNCHANGED <<text, out, prev, round>>
  BY DEF PastEnd, string
<1>2. ASSUME round > 1 PROVE FALSE
  <2>1. PICK q, k : /\ Layout(q, text, prev) /\ k \in 1 .. Len(prev) + 1
                    /\ \/ end_ptr = q[k]
                       \/ k <= Len(prev) /\ Counted(prev[k]) = 6 /\ end_ptr \in q[k] + 2 .. q[k] + 5
    BY <1>1, <1>2 DEF BackInv, Rescanning
  <2>2. /\ text \in Seq(Place) /\ prev \in Seq(Place) /\ end_ptr \in Nat
        /\ Len(text) \in Nat /\ Len(prev) \in Nat
    BY StringTypes DEF Inv, PassesOK, Place
  <2>6. ~(end_ptr <= Len(text))
    <3>1. \A i, l \in Nat : i > l + 1 => ~(i <= l)
      OBVIOUS
    <3> QED BY <3>1, <2>2, <1>1
  <2>3. q[k] \in Place /\ q[k] <= Len(text)
    BY <2>1, <2>2, LaidOutEnd
  <2>4. CASE end_ptr = q[k]
    <3>1. end_ptr <= Len(text)
      BY <2>3, <2>4
    <3> QED BY <3>1, <2>6
  <2>5. CASE k <= Len(prev) /\ Counted(prev[k]) = 6 /\ end_ptr \in q[k] + 2 .. q[k] + 5
    <3>1. k \in 1 .. Len(prev)
      BY <2>1, <2>2, <2>5
    <3>2. q[k] + 6 <= Len(text)
      <4>1. q[k + 1] = q[k] + Counted(prev[k]) /\ q[k + 1] <= Len(text)
        BY <2>1, <2>2, <3>1, LaidOut
      <4> QED BY <4>1, <2>5
    <3>3. q[k] \in Nat
      BY <2>3 DEF Place
    <3>4. \A p \in Nat, l \in Nat : p + 6 <= l => \A i \in p + 2 .. p + 5 : i <= l
      OBVIOUS
    <3>5. end_ptr <= Len(text)
      BY <2>2, <2>5, <3>2, <3>3, <3>4
    <3> QED BY <3>5, <2>6
  <2> QED BY <2>1, <2>4, <2>5
<1>3. BytesOK'
  BY <1>1 DEF BackInv, BytesOK
<1> QED BY <1>1, <1>2, <1>3 DEF BackInv

\* ... and ends at the quote that was printed last,
LEMMA AllocateBack == ASSUME Inv, BackInv, Allocate PROVE BackInv'
<1>1. /\ pc = "scan" /\ pc' = "copy" /\ end_ptr <= Len(text) + 1
      /\ Char(end_ptr) \in {Quote, NUL} /\ ptr' = 2 /\ out' = <<>>
      /\ UNCHANGED <<text, at, end_ptr, prev, round>>
  BY DEF Allocate
<1>2. \A k \in 1 .. len' + 1 : Pos(k)' <= end_ptr'
  <2>1. \A k \in 1 .. len + 1 : Pos(k) <= end_ptr
    BY <1>1 DEF BackInv, BytesOK
  <2> QED BY <1>1, <2>1 DEF Pos, len
<1>3. BytesOK'
  BY <1>1, <1>2 DEF BackInv, BytesOK
<1>4. ASSUME round > 1 PROVE Recopying'
  <2>1. PICK q, k : /\ Layout(q, text, prev) /\ k \in 1 .. Len(prev) + 1
                    /\ \/ end_ptr = q[k]
                       \/ k <= Len(prev) /\ Counted(prev[k]) = 6 /\ end_ptr \in q[k] + 2 .. q[k] + 5
    BY <1>1, <1>4 DEF BackInv, Rescanning
  <2>2. text \in Seq(Place) /\ prev \in Seq(Place) /\ Len(prev) \in Nat
    BY StringTypes
  <2>3. k \notin 1 .. Len(prev)
    <3> SUFFICES ASSUME k \in 1 .. Len(prev) PROVE FALSE
      OBVIOUS
    <3>1. prev[k] \in Place /\ Found(q[k], prev[k]) /\ q[k] \in Place
      BY <2>1, <2>2, LaidOut
    <3>2. CASE end_ptr = q[k]
      <4>1. Char(q[k]) = Backslash \/ (AsItself(prev[k]) /\ Char(q[k]) = prev[k])
        BY <3>1 DEF Found
      <4>2. Backslash \notin {Quote, NUL} /\ (AsItself(prev[k]) => prev[k] \notin {Quote, NUL})
        BY <3>1 DEF Backslash, Quote, NUL, AsItself, Place
      <4> QED BY <4>1, <4>2, <3>2, <1>1
    <3>3. CASE Counted(prev[k]) = 6 /\ end_ptr \in q[k] + 2 .. q[k] + 5
      <4>1. PICK n, m : /\ AsDigits(prev[k], n, m)
                        /\ Char(q[k] + 2) = 48 /\ Char(q[k] + 3) = 48
                        /\ Char(q[k] + 4) = Hex(n) /\ Char(q[k] + 5) = Hex(m)
        BY <3>1, <3>3 DEF Found, AsItself, AsLetter
      <4>2. {48, Hex(n), Hex(m)} \cap {Quote, NUL} = {}
        <5>1. n \in 0 .. 15 /\ m \in 0 .. 15
          BY <4>1 DEF AsDigits
        <5>2. 48 \notin {Quote, NUL}
          BY DEF Quote, NUL
        <5> QED BY <5>1, <5>2, HexBack
      <4>3. \A p \in Nat : \A i \in p + 2 .. p + 5 : i \in {p + 2, p + 3, p + 4, p + 5}
        OBVIOUS
      <4>4. q[k] \in Nat
        BY <3>1 DEF Place
      <4>5. Char(end_ptr) \in {48, Hex(n), Hex(m)}
        BY <4>1, <4>3, <4>4, <3>3
      <4> QED BY <4>2, <4>5, <1>1
    <3> QED BY <2>1, <3>2, <3>3
  <2>4. k = Len(prev) + 1
    BY <2>1, <2>2, <2>3
  <2>5. end_ptr = Len(text)
    <3>1. end_ptr = q[k]
      BY <2>1, <2>2, <2>4
    <3>2. q[Len(prev) + 1] = Len(text)
      BY <2>1, <2>2, LaidOutEnd
    <3> QED BY <3>1, <3>2, <2>4
  <2>6. 1 \in 1 .. Len(prev') + 1 /\ ptr' = q[1] /\ out' = SubSeq(prev', 1, 1 - 1)
    <3>1. q[1] = 2
      BY <2>1 DEF Layout
    <3>2. SubSeq(prev, 1, 1 - 1) = <<>>
      BY <2>2
    <3> QED BY <1>1, <2>2, <3>1, <3>2
  <2>7. Layout(q, text', prev') /\ end_ptr' = Len(text')
    BY <1>1, <2>1, <2>5
  <2> QED BY <2>6, <2>7 DEF Recopying
<1> QED BY <1>1, <1>3, <1>4 DEF BackInv

----------------------------------------------------------------------------
\* What is read at a character is that character.
ReadsBackAt(bytes, read) ==
    \A c \in Place : Found(ptr, c) /\ ptr + Counted(c) <= end_ptr
                         => bytes = <<c>> /\ read = Counted(c)

\* The pass that decodes is at a character of the string printed.
LEMMA AtCharacter ==
    ASSUME Inv, BackInv, Copying, round > 1
    PROVE  \E q, k : /\ Layout(q, text, prev) /\ end_ptr = Len(text) /\ k \in 1 .. Len(prev)
                     /\ ptr = q[k] /\ out = SubSeq(prev, 1, k - 1)
                     /\ prev[k] \in Place /\ Found(ptr, prev[k])
                     /\ ptr + Counted(prev[k]) = q[k + 1] /\ q[k + 1] <= end_ptr
<1>1. pc = "copy" /\ ptr < end_ptr /\ text \in Seq(Place) /\ prev \in Seq(Place)
  BY DEF Copying, BackInv, BytesOK
<1>2. PICK q, k : /\ Layout(q, text, prev) /\ end_ptr = Len(text)
                  /\ k \in 1 .. Len(prev) + 1 /\ ptr = q[k] /\ out = SubSeq(prev, 1, k - 1)
  BY <1>1 DEF BackInv, Recopying
<1>3. q[Len(prev) + 1] = Len(text) /\ Len(text) \in Nat /\ Len(prev) \in Nat
  BY <1>1, <1>2, LaidOutEnd
<1>4. k \in 1 .. Len(prev)
  BY <1>1, <1>2, <1>3
<1>5. /\ prev[k] \in Place /\ q[k + 1] = q[k] + Counted(prev[k])
      /\ q[k + 1] <= Len(text) /\ Found(q[k], prev[k])
  BY <1>1, <1>2, <1>4, LaidOut
<1> QED BY <1>2, <1>4, <1>5

\* A step that writes it goes on with the next.
LEMMA CopyBack ==
    ASSUME Inv, BackInv, Copying, NEW bytes \in Seq(Place), NEW read, Write(bytes, read),
           ReadsBackAt(bytes, read)
    PROVE  BackInv'
<1>1. /\ out' = out \o bytes /\ ptr' = ptr + read /\ pc = "copy" /\ pc' = pc
      /\ UNCHANGED <<text, at, end_ptr, prev, round>>
  BY DEF Write, Copying
<1>2. out' \in Seq(Place)
  <2>1. out \in Seq(Place)
    BY DEF BackInv, BytesOK
  <2> QED BY <1>1, <2>1
<1>3. \A k \in 1 .. len' + 1 : Pos(k)' <= end_ptr'
  <2>1. \A k \in 1 .. len + 1 : Pos(k) <= end_ptr
    BY <1>1 DEF BackInv, BytesOK
  <2> QED BY <1>1, <2>1 DEF Pos, len
<1>4. BytesOK'
  BY <1>1, <1>2, <1>3 DEF BackInv, BytesOK
<1>5. ASSUME round > 1 PROVE Recopying'
  <2>1. PICK q, k : /\ Layout(q, text, prev) /\ end_ptr = Len(text) /\ k \in 1 .. Len(prev)
                    /\ ptr = q[k] /\ out = SubSeq(prev, 1, k - 1)
                    /\ prev[k] \in Place /\ Found(ptr, prev[k])
                    /\ ptr + Counted(prev[k]) = q[k + 1] /\ q[k + 1] <= end_ptr
    BY <1>5, AtCharacter
  <2>2. bytes = <<prev[k]>> /\ read = Counted(prev[k])
    BY <2>1 DEF ReadsBackAt
  <2>3. prev \in Seq(Place) /\ Len(prev) \in Nat
    BY StringTypes
  <2>4. SubSeq(prev, 1, k - 1) \o <<prev[k]>> = SubSeq(prev, 1, k)
    BY <2>1, <2>3
  <2>5. out' = SubSeq(prev', 1, (k + 1) - 1) /\ ptr' = q[k + 1] /\ k + 1 \in 1 .. Len(prev') + 1
    BY <1>1, <2>1, <2>2, <2>3, <2>4
  <2>6. Layout(q, text', prev') /\ end_ptr' = Len(text')
    BY <1>1, <2>1
  <2> QED BY <2>5, <2>6 DEF Recopying
<1> QED BY <1>1, <1>4, <1>5 DEF BackInv

\* (What the places of this pass are.)
LEMMA CopyPlaces ==
    ASSUME Inv, BackInv, Copying
    PROVE  /\ ptr \in Place /\ ptr < end_ptr /\ Char(ptr) \in Place
           /\ Char(ptr) = Backslash => Char(ptr + 1) \in Place
<1>1. /\ PassesOK /\ Scanned /\ ptr \in Place /\ end_ptr \in Nat /\ ptr < end_ptr
      /\ \E k \in 1 .. len + 1 : ptr = Pos(k) /\ Len(out) <= k - 1
  BY AtUnit
<1>2. text \in Seq(Place) /\ Len(text) \in Nat
  BY StringTypes
<1>3. /\ end_ptr <= Len(text) + 1 /\ \A k \in 1 .. len + 1 : Pos(k) <= end_ptr
  BY DEF BackInv, BytesOK, Copying
<1>4. \A i \in Place : i < end_ptr => Char(i) \in Place
  <2>1. ASSUME NEW i \in Place, i < end_ptr PROVE Char(i) \in Place
    <3>1. \A a, b, c \in Nat : a < b /\ b <= c + 1 => a <= c
      OBVIOUS
    <3>2. i <= Len(text) /\ i \in 1 .. Len(text)
      BY <3>1, <2>1, <1>1, <1>2, <1>3 DEF Place
    <3> QED BY <3>2, <1>2 DEF Char
  <2> QED BY <2>1
<1>5. ASSUME Char(ptr) = Backslash PROVE ptr + 1 \in Place /\ ptr + 1 < end_ptr
  <2>1. PICK k \in 1 .. len + 1 : ptr = Pos(k)
    BY <1>1
  <2>2. k + 1 \in 1 .. len + 1 /\ Pos(k + 1) = ptr + 2
    BY <2>1, <1>1, <1>5, NextUnit
  <2>3. ptr + 2 <= end_ptr
    BY <2>2, <1>3
  <2> QED BY <2>3, <1>1 DEF Place
<1> QED BY <1>1, <1>4, <1>5

\* A character has no byte 0 but itself.
LEMMA Utf8Bytes ==
    ASSUME NEW u \in Place
    PROVE  Utf8(u) \in Seq(Place) /\ (u < 128 => Utf8(u) = <<u>>)
<1>1. u \in Nat
  BY DEF Place
<1>2. u \div 64 \in Nat /\ u \div 4096 \in Nat /\ u \div 262144 \in Nat
  BY <1>1, SMT
<1>3. \A n \in Nat : n % 64 \in Nat
  BY SMT
<1>4. \A b \in {128, 192, 224, 240}, n \in Nat : b + n \in Place
  BY SMT DEF Place
<1>5. /\ 192 + u \div 64 \in Place /\ 224 + u \div 4096 \in Place
      /\ 240 + u \div 262144 \in Place
  BY <1>2, <1>4
<1>6. /\ 128 + (u % 64) \in Place /\ 128 + ((u \div 64) % 64) \in Place
      /\ 128 + ((u \div 4096) % 64) \in Place
  BY <1>1, <1>2, <1>3, <1>4
<1>7. /\ <<u>> \in Seq(Place)
      /\ <<192 + u \div 64, 128 + (u % 64)>> \in Seq(Place)
      /\ <<224 + u \div 4096, 128 + ((u \div 64) % 64), 128 + (u % 64)>> \in Seq(Place)
      /\ <<240 + u \div 262144, 128 + ((u \div 4096) % 64),
           128 + ((u \div 64) % 64), 128 + (u % 64)>> \in Seq(Place)
  <2>1. \A a, b, c, d \in Place :
           /\ <<a>> \in Seq(Place) /\ <<a, b>> \in Seq(Place)
           /\ <<a, b, c>> \in Seq(Place) /\ <<a, b, c, d>> \in Seq(Place)
    OBVIOUS
  <2> QED BY <2>1, <1>5, <1>6
<1> QED BY <1>7 DEF Utf8

\* So it is with a byte,
LEMMA CopyByteBack == ASSUME Inv, BackInv, CopyByte PROVE BackInv'
<1>1. Copying /\ Char(ptr) # Backslash /\ Write(<<Char(ptr)>>, 1)
  BY DEF CopyByte
<1>2. <<Char(ptr)>> \in Seq(Place)
  <2>1. Char(ptr) \in Place
    BY <1>1, CopyPlaces
  <2> QED BY <2>1
<1>3. ReadsBackAt(<<Char(ptr)>>, 1)
  BY <1>1 DEF ReadsBackAt, Found, AsItself
<1> QED BY <1>1, <1>2, <1>3, CopyBack

\* ... an escape of one letter,
LEMMA CopyEscapeBack == ASSUME Inv, BackInv, CopyEscape PROVE BackInv'
<1> DEFINE l == Char(ptr + 1)
<1>1. /\ Copying /\ Char(ptr) = Backslash /\ l # 117 /\ Write(<<Unescaped(l)>>, 2)
  BY DEF CopyEscape, Escape
<1>2. Unescaped(l) \in Place
  <2>1. l \in Place
    BY <1>1, CopyPlaces
  <2>2. \A e \in Control : e[2] \in Place
    BY SMT DEF Control, Place
  <2> QED BY <2>1, <2>2 DEF Unescaped
<1>3. <<Unescaped(l)>> \in Seq(Place)
  BY <1>2
<1>4. ReadsBackAt(<<Unescaped(l)>>, 2)
  <2>1. ASSUME NEW c \in Place, Found(ptr, c) PROVE c = Unescaped(l) /\ Counted(c) = 2
    <3>1. ~AsItself(c) \/ Char(ptr) # c
      BY <1>1 DEF AsItself
    <3> QED BY <2>1, <3>1, <1>1 DEF Found, AsLetter
  <2> QED BY <2>1 DEF ReadsBackAt
<1> QED BY <1>1, <1>3, <1>4, CopyBack

\* What an escape of four digits stands for, where one is printed.
LEMMA UnitBack ==
    ASSUME Inv, BackInv, Copying, NEW c, c \in Place, Found(ptr, c),
           Char(ptr) = Backslash, Char(ptr + 1) = 117
    PROVE  uc = c /\ c < 32 /\ Counted(c) = 6
<1>1. ptr \in Nat
  BY CopyPlaces DEF Place
<1>2. PICK n, m : /\ AsDigits(c, n, m)
                  /\ Char(ptr + 2) = 48 /\ Char(ptr + 3) = 48
                  /\ Char(ptr + 4) = Hex(n) /\ Char(ptr + 5) = Hex(m)
  BY DEF Found, AsItself, AsLetter
<1>3. n \in 0 .. 15 /\ m \in 0 .. 15 /\ c = 16 * n + m /\ c < 32 /\ Counted(c) = 6
  BY <1>2 DEF AsDigits
<1>4. HexDigit(Hex(n)) = n /\ HexDigit(Hex(m)) = m /\ HexDigit(48) = 0
  BY <1>3, HexBack
<1>5. /\ (ptr + 2) + 1 = ptr + 3 /\ (ptr + 2) + 2 = ptr + 4 /\ (ptr + 2) + 3 = ptr + 5
      /\ \A j \in ptr + 2 .. ptr + 5 : j \in {ptr + 2, ptr + 3, ptr + 4, ptr + 5}
  BY <1>1
<1>6. \A j \in ptr + 2 .. ptr + 5 : HexDigit(Char(j)) # 16
  <2>1. \A j \in {ptr + 2, ptr + 3, ptr + 4, ptr + 5} : HexDigit(Char(j)) \in {0, n, m}
    BY <1>2, <1>4
  <2>2. 16 \notin {0, n, m}
    BY <1>3
  <2> QED BY <1>5, <2>1, <2>2
<1>7. uc = 4096 * HexDigit(Char(ptr + 2)) + 256 * HexDigit(Char(ptr + 3))
           + 16 * HexDigit(Char(ptr + 4)) + HexDigit(Char(ptr + 5))
  BY <1>5, <1>6 DEF uc, parse_hex4
<1>8. uc = 4096 * 0 + 256 * 0 + 16 * n + m
  BY <1>2, <1>4, <1>7
<1> QED BY <1>3, <1>8

\* ... one of four digits,
LEMMA CopyUnitBack == ASSUME Inv, BackInv, CopyUnit PROVE BackInv'
<1> DEFINE bytes == Utf8(uc)
<1>1. /\ Copying /\ Char(ptr) = Backslash /\ Char(ptr + 1) = 117 /\ Write(bytes, 6) /\ uc # 0
  BY DEF CopyUnit, Escape, OneUnit
<1>2. uc \in Place
  <2>1. text \in Seq(Nat) /\ ptr + 2 \in Nat /\ ptr + 2 > 0
    BY <1>1, CopyPlaces DEF Inv, PassesOK, Place
  <2> QED BY <1>1, <2>1, Hex4Type DEF uc, Place
<1>3. bytes \in Seq(Place)
  BY <1>2, Utf8Bytes
<1>4. ReadsBackAt(bytes, 6)
  <2>1. ASSUME NEW c \in Place, Found(ptr, c) PROVE bytes = <<c>> /\ Counted(c) = 6
    <3>1. uc = c /\ c < 32 /\ Counted(c) = 6
      BY <1>1, <2>1, UnitBack
    <3>2. c < 128
      BY <3>1 DEF Place
    <3> QED BY <3>1, <3>2, Utf8Bytes
  <2> QED BY <2>1 DEF ReadsBackAt
<1> HIDE DEF bytes
<1> QED BY <1>1, <1>3, <1>4, CopyBack

\* ... which are never a pair,
LEMMA CopyPairBack == ASSUME Inv, BackInv, CopyPair PROVE BackInv'
<1> DEFINE bytes == Utf8(Pair(uc, uc2))
<1>1. /\ Copying /\ Char(ptr) = Backslash /\ Char(ptr + 1) = 117 /\ Write(bytes, 12) /\ High(uc)
  BY DEF CopyPair, Escape, TwoUnits
<1>2. uc \in Nat /\ uc2 \in Nat
  <2>1. /\ text \in Seq(Nat) /\ ptr + 2 \in Nat /\ ptr + 2 > 0
        /\ ptr + 8 \in Nat /\ ptr + 8 > 0
    BY <1>1, CopyPlaces DEF Inv, PassesOK, Place
  <2> QED BY <2>1, Hex4Type DEF uc, uc2
<1>3. bytes \in Seq(Place)
  <2>1. Pair(uc, uc2) \in Place
    BY <1>2 DEF Pair, Place
  <2> QED BY <2>1, Utf8Bytes
<1>4. ReadsBackAt(bytes, 12)
  <2>1. ASSUME NEW c \in Place, Found(ptr, c) PROVE FALSE
    <3>1. uc = c /\ c < 32
      BY <1>1, <2>1, UnitBack
    <3> QED BY <3>1, <1>1 DEF High, Place
  <2> QED BY <2>1 DEF ReadsBackAt
<1> HIDE DEF bytes
<1> QED BY <1>1, <1>3, <1>4, CopyBack

\* ... and nothing is refused,
LEMMA InvalidBack == ASSUME Inv, BackInv, Invalid PROVE BackInv'
<1>1. /\ Copying /\ Char(ptr) = Backslash /\ Char(ptr + 1) = 117 /\ ~OneUnit /\ pc' = "invalid"
      /\ UNCHANGED <<text, out, prev, round>>
  BY DEF Invalid, Escape, string
<1>2. ASSUME round > 1 PROVE FALSE
  <2>1. PICK q, k : /\ prev[k] \in Place /\ Found(ptr, prev[k])
                    /\ ptr + Counted(prev[k]) = q[k + 1] /\ q[k + 1] <= end_ptr
    BY <1>1, <1>2, AtCharacter
  <2>2. uc = prev[k] /\ prev[k] < 32 /\ Counted(prev[k]) = 6
    BY <1>1, <2>1, UnitBack
  <2>3. ptr + 6 <= end_ptr /\ ptr \in Nat /\ end_ptr \in Nat
    <3>1. ptr \in Nat /\ end_ptr \in Nat
      BY DEF Inv, PassesOK, Place
    <3> QED BY <2>1, <2>2, <3>1
  <2>4. ptr + 5 < end_ptr
    BY <2>3
  <2>5. uc # 0 /\ ~High(uc) /\ ~Low(uc)
    <3>1. \A c \in Place : c < 32 => c # 0 /\ ~High(c) /\ ~Low(c)
      BY SMT DEF High, Low, Place
    <3> QED BY <2>1, <2>2, <3>1
  <2> QED BY <1>1, <2>4, <2>5 DEF OneUnit
<1>3. BytesOK'
  BY <1>1 DEF BackInv, BytesOK
<1> QED BY <1>1, <1>2, <1>3 DEF BackInv

\* ... until all is as it was.
LEMMA TerminateBack == ASSUME Inv, BackInv, Terminate PROVE BackInv'
<1>1. /\ pc = "copy" /\ ptr >= end_ptr /\ pc' = "parsed"
      /\ UNCHANGED <<text, out, prev, round>>
  BY DEF Terminate, string
<1>2. BytesOK'
  BY <1>1 DEF BackInv, BytesOK
<1>3. ASSUME round > 1 PROVE out = prev
  <2>1. PICK q, k : /\ Layout(q, text, prev) /\ end_ptr = Len(text)
                    /\ k \in 1 .. Len(prev) + 1 /\ ptr = q[k] /\ out = SubSeq(prev, 1, k - 1)
    BY <1>1, <1>3 DEF BackInv, Recopying
  <2>2. text \in Seq(Place) /\ prev \in Seq(Place) /\ Len(text) \in Nat /\ Len(prev) \in Nat
    BY StringTypes
  <2>3. k \notin 1 .. Len(prev)
    <3> SUFFICES ASSUME k \in 1 .. Len(prev) PROVE FALSE
      OBVIOUS
    <3>1. /\ q[k] \in Place /\ q[k + 1] = q[k] + Counted(prev[k])
          /\ Counted(prev[k]) \in {1, 2, 6} /\ q[k + 1] <= Len(text)
      <4>1. Layout(q, text, prev) /\ text \in Seq(Place) /\ prev \in Seq(Place)
        BY <2>1, <2>2
      <4> QED BY <4>1, LaidOut
    <3>2. \A p, l \in Nat : p >= l => \A d \in {1, 2, 6} : ~(p + d <= l)
      OBVIOUS
    <3>3. ptr \in Nat /\ ptr >= Len(text) /\ ptr + Counted(prev[k]) <= Len(text)
      BY <1>1, <2>1, <3>1 DEF Place
    <3> QED BY <3>1, <3>2, <3>3, <2>2
  <2>4. k - 1 = Len(prev)
    BY <2>1, <2>2, <2>3
  <2>5. SubSeq(prev, 1, Len(prev)) = prev
    BY <2>2
  <2> QED BY <2>1, <2>4, <2>5
<1> QED BY <1>1, <1>2, <1>3 DEF BackInv

----------------------------------------------------------------------------
\* The passes that print lay the string out.  (Before, and after the last of them,)
LEMMA CountBack == ASSUME Inv, BackInv, StartPrint \/ Count PROVE BackInv'
<1>1. pc' = "count" /\ UNCHANGED <<text, out, prev, round>>
  BY DEF StartPrint, Count
<1>2. BytesOK'
  BY <1>1 DEF BackInv, BytesOK
<1> QED BY <1>1, <1>2 DEF BackInv

\* ... nothing at first,
LEMMA AllocateTextBack == ASSUME Inv, BackInv, AllocateText PROVE BackInv'
<1>1. /\ pc' = "write" /\ text' = <<Quote>> /\ ptr' = 1 /\ UNCHANGED <<out, prev, round>>
  BY DEF AllocateText
<1>2. text' \in Seq(Place)
  BY <1>1 DEF Quote, Place
<1>3. BytesOK'
  BY <1>1, <1>2 DEF BackInv, BytesOK
<1>4. Written'
  BY <1>1 DEF Written
<1> QED BY <1>1, <1>3, <1>4 DEF BackInv

\* ... then one character behind the other, each where it was counted to be,
LEMMA WriteCharBack == ASSUME Inv, BackInv, WriteChar PROVE BackInv'
<1> DEFINE esc == Escaped(out[ptr])
<1>1. /\ ptr <= Len(out) /\ text' = text \o esc /\ ptr' = ptr + 1 /\ pc = "write" /\ pc' = pc
      /\ UNCHANGED <<at, end_ptr, out, prev, round>>
  BY DEF WriteChar
<1>2. /\ text \in Seq(Place) /\ out \in Seq(Place) /\ Len(text) \in Nat /\ Len(out) \in Nat
      /\ ptr \in 1 .. Len(out) /\ Len(text) = Pos(ptr)
      /\ \A k \in Nat : Pos(k)' = Pos(k)
  <2>1. Writing /\ PassesOK
    BY <1>1 DEF Inv
  <2>2. ptr \in Nat /\ ptr >= 1 /\ Len(text) = Pos(ptr)
    BY <2>1 DEF Writing, PassesOK, Place
  <2>3. \A k \in Nat : Pos(k)' = Pos(k)
    BY <1>1 DEF Pos, len
  <2>4. ptr \in 1 .. Len(out)
    BY <2>2, <1>1, StringTypes
  <2> QED BY <2>2, <2>3, <2>4, StringTypes
<1>3. out[ptr] \in Place
  BY <1>2
<1>4. esc \in Seq(Place) /\ Len(esc) = Counted(out[ptr]) /\ Counted(out[ptr]) \in Nat
  BY <1>3, EscapedBytes
<1> HIDE DEF esc
<1>5. /\ text' \in Seq(Place) /\ Len(text') = Len(text) + Len(esc)
      /\ \A i \in 1 .. Len(text) : text'[i] = text[i]
      /\ \A j \in 1 .. Len(esc) : text'[Len(text) + j] = esc[j]
  <2>1. text \in Seq(Place) /\ esc \in Seq(Place) /\ text' = text \o esc
    BY <1>1, <1>2, <1>4
  <2>2. text' \in Seq(Place) /\ Len(text') = Len(text) + Len(esc)
    BY <2>1
  <2>3. ASSUME NEW i \in 1 .. Len(text) PROVE text'[i] = text[i]
    BY <2>1
  <2>4. ASSUME NEW j \in 1 .. Len(esc) PROVE text'[Len(text) + j] = esc[j]
    BY <2>1
  <2> QED BY <2>2, <2>3, <2>4
<1>6. BytesOK'
  BY <1>1, <1>5 DEF BackInv, BytesOK
<1>7. ASSUME NEW k \in 1 .. ptr - 1
      PROVE  Pos(k) + Counted(out[k]) <= Len(text') /\ Spells(text', Pos(k) + 1, out[k])
  <2>1. Pos(k) + Counted(out[k]) <= Len(text) /\ Spells(text, Pos(k) + 1, out[k])
    BY <1>1 DEF BackInv, Written
  <2>2. k \in 1 .. len /\ Pos(k) \in Nat
    <3>1. Writing /\ PassesOK
      BY <1>1 DEF Inv
    <3>2. k \in 1 .. len
      BY <3>1, <1>2 DEF Writing, PassesOK
    <3> QED BY <3>1, <3>2 DEF PassesOK, Pos, len, Place
  <2>3. out[k] \in Place
    BY <1>2
  <2>4. Counted(out[k]) \in {1, 2, 6}
    BY <2>3, EscapedBytes
  <2>5. ASSUME NEW j \in 1 .. Counted(out[k])
        PROVE  text'[(Pos(k) + 1) + j - 1] = Escaped(out[k])[j]
    <3>1. text[(Pos(k) + 1) + j - 1] = Escaped(out[k])[j]
      BY <2>1 DEF Spells
    <3>2. (Pos(k) + 1) + j - 1 \in 1 .. Len(text)
      BY <2>1, <2>2, <2>4, <1>2
    <3> QED BY <3>1, <3>2, <1>5
  <2>6. Pos(k) + Counted(out[k]) <= Len(text')
    BY <2>1, <2>2, <2>4, <1>2, <1>4, <1>5
  <2> QED BY <2>5, <2>6 DEF Spells
<1>8. Pos(ptr) + Counted(out[ptr]) <= Len(text') /\ Spells(text', Pos(ptr) + 1, out[ptr])
  <2>1. Pos(ptr) + Counted(out[ptr]) <= Len(text')
    BY <1>2, <1>4, <1>5
  <2>2. ASSUME NEW j \in 1 .. Counted(out[ptr])
        PROVE  text'[(Pos(ptr) + 1) + j - 1] = Escaped(out[ptr])[j]
    <3>1. (Pos(ptr) + 1) + j - 1 = Len(text) + j
      BY <1>2
    <3>2. text'[Len(text) + j] = esc[j]
      BY <1>4, <1>5
    <3> QED BY <3>1, <3>2 DEF esc
  <2> QED BY <2>1, <2>2 DEF Spells
<1>9. Written'
  <2>1. ASSUME NEW k \in 1 .. ptr' - 1
        PROVE  Pos(k)' + Counted(out'[k]) <= Len(text') /\ Spells(text', Pos(k)' + 1, out'[k])
    <3>1. k \in Nat /\ (k \in 1 .. ptr - 1 \/ k = ptr)
      BY <1>1, <1>2
    <3>2. Pos(k)' = Pos(k) /\ out' = out
      BY <3>1, <1>1, <1>2
    <3> QED BY <3>1, <3>2, <1>7, <1>8
  <2> QED BY <2>1 DEF Written
<1> QED BY <1>1, <1>6, <1>9 DEF BackInv

\* ... and the quote behind the last.
LEMMA WriteQuoteBack == ASSUME Inv, BackInv, WriteQuote PROVE BackInv'
<1>1. /\ ptr > Len(out) /\ text' = Append(text, Quote) /\ pc = "write" /\ pc' = "printed"
      /\ UNCHANGED <<at, end_ptr, size, ptr, out, prev, round>>
  BY DEF WriteQuote, passes
<1>2. /\ text \in Seq(Place) /\ out \in Seq(Place) /\ Len(text) \in Nat /\ Len(out) \in Nat
  BY StringTypes
<1>3. /\ len = Len(out) /\ ptr = len + 1 /\ Len(text) = Pos(ptr) /\ Pos(1) = 1
      /\ \A k \in 1 .. len : Pos(k + 1) = Pos(k) + Counted(out[k])
      /\ \A k \in 1 .. len + 1 : Pos(k) \in Nat
  <2>1. Writing /\ PassesOK
    BY <1>1 DEF Inv
  <2>2. len = Len(out) /\ ptr = len + 1
    BY <2>1, <1>1, <1>2 DEF Writing
  <2>3. \A k \in 1 .. len + 1 : Pos(k) \in Nat
    BY <2>1 DEF Pos, PassesOK, len, Place
  <2> QED BY <2>1, <2>2, <2>3 DEF Writing, Counting
<1>4. /\ text' \in Seq(Place) /\ Len(text') = Len(text) + 1 /\ text'[Len(text')] = Quote
      /\ \A i \in 1 .. Len(text) : text'[i] = text[i]
  <2>1. Quote \in Place
    BY DEF Quote, Place
  <2> QED BY <2>1, <1>1, <1>2
<1>5. BytesOK'
  BY <1>1, <1>4 DEF BackInv, BytesOK
<1> DEFINE q == [k \in 1 .. Len(out) + 1 |-> Pos(k) + 1]
<1>6. \A k \in 1 .. Len(out) + 1 : q[k] = Pos(k) + 1 /\ q[k] \in Place
  BY <1>3 DEF Place
<1>7. q[1] = 2 /\ q[Len(out) + 1] = Len(text')
  BY <1>2, <1>3, <1>4, <1>6
<1> HIDE DEF q
<1>8. ASSUME NEW k \in 1 .. Len(out)
      PROVE  /\ q[k] \in Place /\ q[k + 1] = q[k] + Counted(out[k])
             /\ q[k + 1] <= Len(text') /\ Spells(text', q[k], out[k])
  <2>1. k \in 1 .. ptr - 1 /\ k \in 1 .. Len(out) + 1 /\ k + 1 \in 1 .. Len(out) + 1
    BY <1>2, <1>3
  <2>2. Pos(k) + Counted(out[k]) <= Len(text) /\ Spells(text, Pos(k) + 1, out[k])
    BY <2>1, <1>1 DEF BackInv, Written
  <2>3. out[k] \in Place
    BY <1>2
  <2>4. Counted(out[k]) \in {1, 2, 6} /\ Pos(k) \in Nat /\ Pos(k + 1) = Pos(k) + Counted(out[k])
    BY <2>1, <2>3, <1>3, EscapedBytes
  <2>5. q[k] = Pos(k) + 1 /\ q[k + 1] = Pos(k + 1) + 1 /\ q[k] \in Place
    BY <2>1, <1>6
  <2>6. ASSUME NEW j \in 1 .. Counted(out[k]) PROVE text'[q[k] + j - 1] = Escaped(out[k])[j]
    <3>1. text[(Pos(k) + 1) + j - 1] = Escaped(out[k])[j]
      BY <2>2 DEF Spells
    <3>2. (Pos(k) + 1) + j - 1 \in 1 .. Len(text)
      BY <2>2, <2>4, <1>2
    <3>3. text'[(Pos(k) + 1) + j - 1] = text[(Pos(k) + 1) + j - 1]
      BY <3>2, <1>4
    <3> QED BY <3>1, <3>3, <2>5
  <2>7. q[k + 1] <= Len(text')
    BY <2>2, <2>4, <2>5, <1>2, <1>4
  <2>8. q[k + 1] = q[k] + Counted(out[k])
    BY <2>4, <2>5
  <2> QED BY <2>5, <2>6, <2>7, <2>8 DEF Spells
<1>9. Layout(q, text', out')
  BY <1>1, <1>4, <1>7, <1>8 DEF Layout
<1> QED BY <1>1, <1>5, <1>9 DEF BackInv

\* So it is when the text is read again,
LEMMA ReloadBack == ASSUME Inv, BackInv, Reload PROVE BackInv'
<1>1. /\ pc = "printed" /\ pc' = "scan" /\ at' = <<>> /\ end_ptr' = 2 /\ prev' = out
      /\ UNCHANGED <<text, out>>
  BY DEF Reload
<1>2. \A k \in 1 .. len' + 1 : Pos(k)' <= end_ptr'
  BY <1>1 DEF Pos, len
<1>3. BytesOK'
  BY <1>1, <1>2 DEF BackInv, BytesOK
<1>4. Rescanning'
  <2>1. PICK q : Layout(q, text, out)
    BY <1>1 DEF BackInv
  <2>2. q[1] = 2 /\ 1 \in 1 .. Len(out) + 1
    BY <2>1, StringTypes DEF Layout
  <2>3. Layout(q, text', prev') /\ end_ptr' = q[1] /\ 1 \in 1 .. Len(prev') + 1
    BY <1>1, <2>1, <2>2
  <2> QED BY <2>3 DEF Rescanning
<1> QED BY <1>1, <1>3, <1>4 DEF BackInv

\* ... and what is about numbers does not touch it.
LEMMA KeepsBack ==
    ASSUME BackInv, UNCHANGED <<text, pc, at, end_ptr, ptr, out, prev>>,
           UNCHANGED round \/ pc = "number"
    PROVE  BackInv'
<1>1. BytesOK'
  BY DEF BackInv, BytesOK, Pos, len
<1>2. CASE UNCHANGED round
  BY <1>1, <1>2 DEF BackInv, Written, Rescanning, Recopying, Pos, len
<1>3. CASE pc = "number"
  BY <1>1, <1>3 DEF BackInv
<1> QED BY <1>2, <1>3

\* Together these are all the steps.
LEMMA NextBack == Inv /\ BackInv /\ [Next]_vars => BackInv'
<1> SUFFICES ASSUME Inv, BackInv, [Next]_vars PROVE BackInv'
  OBVIOUS
<1>1. CASE Scan \/ Allocate \/ PastEnd \/ Invalid \/ Terminate
  BY <1>1, ScanBack, AllocateBack, PastEndBack, InvalidBack, TerminateBack
<1>2. CASE CopyByte \/ CopyEscape \/ CopyUnit \/ CopyPair
  BY <1>2, CopyByteBack, CopyEscapeBack, CopyUnitBack, CopyPairBack
<1>3. CASE StartPrint \/ Count \/ AllocateText \/ WriteChar \/ WriteQuote \/ Reload
  BY <1>3, CountBack, AllocateTextBack, WriteCharBack, WriteQuoteBack, ReloadBack
<1>4. CASE ReloadNumber
  BY <1>4, KeepsBack DEF ReloadNumber, string, passes
<1>5. CASE UNCHANGED vars
  BY <1>5, KeepsBack DEF vars, string, passes
<1> QED BY <1>1, <1>2, <1>3, <1>4, <1>5 DEF Next

\* A string printed by print_string_ptr is accepted by parse_string and read as it was, of
\* whatever bytes and however long it is, in every round (json/cJSON.c 193-311).
THEOREM StringsReadBack == Spec => []PrintsBack
<1>1. Spec => []BackInv
  BY InitBack, NextBack, Invariance, PTL DEF Spec
<1>2. BackInv => PrintsBack
  BY DEF BackInv, PrintsBack
<1> QED BY <1>1, <1>2, PTL
=============================================================================
