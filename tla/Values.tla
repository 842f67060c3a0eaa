------------------------------- MODULE Values -------------------------------
(***************************************************************************)
(* What becomes of the numbers of a request (modbusd.c): read from its     *)
(* text into an int, cut to a register or a coil, kept by the slave, read  *)
(* again and printed in an answer.  Modbusd has the requests, their order  *)
(* and what may go wrong with them; here each is executed at once.         *)
(***************************************************************************)
EXTENDS Numbers

CONSTANTS
    UINT8, UINT16,   \* how many values the types have: 256, 65536
    Size,            \* each table of the slave: 0 .. Size - 1
    Request,         \* the requests
    MaxRequests      \* bound: requests served

Addr  == 0 .. Size - 1
Reads       == {"fc1", "fc2", "fc3", "fc4"}
SingleWrite == {"fc5", "fc6"}
MultiWrite  == {"fc15", "fc16"}
Unknown     == -1

\* A slave has four tables, two of them to be read only.
Writable == {"coils", "registers"}
Table    == Writable \cup {"contacts", "inputs"}
TableOf(cmd) ==
    CASE cmd \in {"fc1", "fc5", "fc15"} -> "coils"
      [] cmd = "fc2"                    -> "contacts"
      [] cmd \in {"fc3", "fc6", "fc16"} -> "registers"
      [] cmd = "fc4"                    -> "inputs"

\* The fields of a request are the members of its JSON; array says whether "data" is
\* one, as multiple writes expect, or a single number.  Single writes ignore "len".
Span(r)  == IF r.cmd \in SingleWrite THEN 1 ELSE r.len
Fitting(r) == r.array = (r.cmd \in MultiWrite)

ASSUME ValuesAssumption ==
    /\ UINT8 \in Nat \ {0} /\ UINT16 \in Nat /\ UINT8 <= UINT16 /\ UINT16 <= INT_MAX
    /\ Size \in 1 .. UINT16
    /\ \A r \in Request :
         /\ IsItem(r.tid) /\ IsItem(r.addr) /\ \A i \in DOMAIN r.data : IsItem(r.data[i])
         /\ r.len \in 1 .. Size
         /\ r.cmd \in MultiWrite => Len(r.data) <= r.len
         /\ r.cmd \notin Reads => r.array \/ Len(r.data) = 1

VARIABLES
    mem,      \* what the slave holds
    want,     \* what it should, by the texts alone; Unknown where they do not say
    cur,      \* the request served last
    answer,   \* the answer to it
    served    \* requests so far

vars == <<mem, want, cur, answer, served>>

NoRequest == [cmd |-> "none", tid |-> <<>>, addr |-> <<>>, len |-> 0,
              array |-> FALSE, data |-> <<>>]
NoAnswer  == [tid |-> <<>>, status |-> "none", data |-> <<>>]

Init ==
    /\ \E v \in {0, 1} :
         mem = [t \in Table |-> [a \in Addr |-> IF t \in Writable THEN v ELSE 1 - v]]
    /\ want = mem
    /\ cur = NoRequest
    /\ answer = NoAnswer
    /\ served = 0

----------------------------------------------------------------------------
\* What the texts of a request say, read as JSON, whatever parse_number does.

Position(text, c) ==
    IF \E i \in DOMAIN text : text[i] \in c
    THEN CHOOSE i \in DOMAIN text : text[i] \in c /\ \A j \in 1 .. i - 1 : text[j] \notin c
    ELSE Len(text) + 1
AllDigits(s) == s # <<>> /\ \A i \in DOMAIN s : IsDigit(s[i])

Body(text)     == IF text[1] = "-" THEN Tail(text) ELSE text
Mantissa(text) == SubSeq(Body(text), 1, Position(Body(text), {"e", "E"}) - 1)
Power(text)    == SubSeq(Body(text), Position(Body(text), {"e", "E"}) + 1, Len(Body(text)))
Before(text)   == SubSeq(Mantissa(text), 1, Position(Mantissa(text), {"."}) - 1)
Decimals(text) == SubSeq(Mantissa(text), Position(Mantissa(text), {"."}) + 1, Len(Mantissa(text)))
PowerDigits(text) == IF At(Power(text), 1) \in {"+", "-"} THEN Tail(Power(text)) ELSE Power(text)

IsNumber(text) ==
    /\ AllDigits(Before(text)) /\ (Before(text)[1] = "0" => Len(Before(text)) = 1)
    /\ Len(Before(text)) < Len(Mantissa(text)) => AllDigits(Decimals(text))
    /\ Len(Mantissa(text)) < Len(Body(text)) => AllDigits(PowerDigits(text))
Denotes(text) ==
    Normal(text[1] = "-", ValueOf(Before(text) \o Decimals(text)),
           ValueOf(PowerDigits(text)) * (IF At(Power(text), 1) = "-" THEN -1 ELSE 1)
           - Len(Decimals(text)))

\* The text is a JSON number that is a whole one of this range.  An exponent beyond
\* a double's is left out: 0e400 is read as not a number.
WholeSaid(text) ==
    LET d == Denotes(text) IN IF d.neg THEN -d.m * 10 ^ d.e ELSE d.m * 10 ^ d.e
Says(text, range) ==
    /\ IsNumber(text) /\ ValueOf(PowerDigits(text)) <= DBL_MAX_10_EXP
    /\ Denotes(text).e >= 0 /\ Magnitude(Denotes(text)) <= LARGE + 1
    /\ WholeSaid(text) \in range
AnInt == INT_MIN .. INT_MAX

\* What a coil or register should hold after a write, its address and values as said.
ValueSaid(table, text) ==
    IF table = "coils"
    THEN IF ~Says(text, 0 .. UINT8 - 1) THEN Unknown
         ELSE IF WholeSaid(text) = 0 THEN 0 ELSE 1
    ELSE IF Says(text, AnInt) THEN WholeSaid(text) % UINT16 ELSE Unknown
\* A range the slave has not is refused; what "data" lacks of "len" is not said, nor
\* anything by an array where a number belongs, or by a number for an array.
WantAfter(r) ==
    LET first == WholeSaid(r.addr)
        Nth(a) == a - first + 1
    IN  IF ~Says(r.addr, 0 .. UINT16 - 1) THEN [a \in Addr |-> Unknown]
        ELSE IF first + Span(r) > Size THEN want[TableOf(r.cmd)]
        ELSE [a \in Addr |-> IF Nth(a) \notin 1 .. Span(r) THEN want[TableOf(r.cmd)][a]
                              ELSE IF ~Fitting(r) \/ Nth(a) > Len(r.data) THEN Unknown
                              ELSE ValueSaid(TableOf(r.cmd), r.data[Nth(a)])]

----------------------------------------------------------------------------
\* The slave and the protocol: an address has 16 bits, the slave refuses a range
\* it has not.

OnWire(addr) == addr % UINT16
Refuses(addr, len) == OnWire(addr) + len > Size

\* json_get_int
Text == UNION {{r.tid, r.addr} \cup {r.data[i] : i \in DOMAIN r.data} : r \in Request}
Ints == [text \in Text |-> UNION {valueint(d) : d \in parse_number(text)}]

\* An integer prints in one way.
Printed(texts) == CHOOSE t \in texts : TRUE

----------------------------------------------------------------------------
\* modbusd.c: the handlers.

Answer(tid, status, data) ==
    answer' = [tid |-> Printed(cJSON_CreateNumber(tid)), status |-> status, data |-> data]

Take(r) == served < MaxRequests /\ served' = served + 1 /\ cur' = r

\* mbtcp_read_bit_req, mbtcp_read_reg_req
mbtcp_read_req(r) ==
    /\ r.cmd \in Reads
    /\ Take(r)
    /\ \E tid \in Ints[r.tid], addr \in Ints[r.addr] :
         IF Refuses(addr, r.len) THEN Answer(tid, "refused", <<>>)
         ELSE Answer(tid, "ok", [i \in 1 .. r.len |->
                  Printed(cJSON_CreateUInt16(mem[TableOf(r.cmd)][OnWire(addr) + i - 1]))])
    /\ UNCHANGED <<mem, want>>

\* Mutant: a register is cut to a byte.
ByteElement(cmd, value) ==
    CASE cmd = "fc5"  -> IF value = 0 THEN 0 ELSE 1
      [] cmd = "fc15" -> IF value % UINT8 = 0 THEN 0 ELSE 1
      [] OTHER        -> value % UINT8
\* Any int but zero sets a coil; fc15 cuts it to a byte before.  A register takes
\* 16 bits of it.
Element(cmd, value) ==
    CASE cmd = "fc5"  -> IF value = 0 THEN 0 ELSE 1
      [] cmd = "fc15" -> IF value % UINT8 = 0 THEN 0 ELSE 1
      [] OTHER        -> value % UINT16

\* The numbers the handler finds in "data": none in an array where it takes a number,
\* none in a number where it goes through an array.
Given(r) == IF Fitting(r) THEN r.data ELSE <<>>

\* What of them is sent: one int each, and zero for each that is wanted more; zero is
\* the valueint of an array too.
Elements(r) ==
    {d \in [1 .. Span(r) -> UNION {Ints[r.data[i]] : i \in DOMAIN r.data} \cup {0}] :
        \A i \in 1 .. Span(r) :
            IF i <= Len(Given(r)) THEN d[i] \in Ints[r.data[i]] ELSE d[i] = 0}

Write(r) ==
    /\ Take(r)
    /\ \E tid \in Ints[r.tid], addr \in Ints[r.addr], d \in Elements(r) :
         IF Refuses(addr, Span(r)) THEN Answer(tid, "refused", <<>>) /\ UNCHANGED mem
         ELSE /\ Answer(tid, "ok", <<>>)
              /\ mem' = [mem EXCEPT ![TableOf(r.cmd)] = [a \in Addr |->
                     IF a - OnWire(addr) + 1 \in 1 .. Span(r)
                     THEN Element(r.cmd, d[a - OnWire(addr) + 1]) ELSE @[a]]]
    /\ want' = [want EXCEPT ![TableOf(r.cmd)] = WantAfter(r)]

mbtcp_single_write_req(r) == r.cmd \in SingleWrite /\ Write(r)
mbtcp_multi_write_req(r)  == r.cmd \in MultiWrite /\ Write(r)

Next ==
    \E r \in Request :
        mbtcp_read_req(r) \/ mbtcp_single_write_req(r) \/ mbtcp_multi_write_req(r)

Spec == Init /\ [][Next]_vars

----------------------------------------------------------------------------
\* Properties.

\* A number a client has written is the number it reads from the same table, wherever
\* its text was a whole one: a coil by zero or not, a register modulo its width, so
\* that a negative one comes back as its complement; and what nobody can write is read
\* as the slave has it.  Between the two lie parse_number, (int), the casts of the
\* handlers, the slave and print_number.
ReadsBack ==
    answer.status = "ok" /\ cur.cmd \in Reads /\ Says(cur.addr, Addr) =>
        \A i \in 1 .. cur.len :
            LET wanted == want[TableOf(cur.cmd)][WholeSaid(cur.addr) + i - 1]
            IN  wanted # Unknown => Denotes(answer.data[i]) = FromInt(wanted)

\* An answer carries the tid of its request, if that is a whole number an int can
\* hold, however it was written (main.c:135).
TidEchoed ==
    answer # NoAnswer /\ Says(cur.tid, AnInt) => Denotes(answer.tid) = Denotes(cur.tid)
=============================================================================
