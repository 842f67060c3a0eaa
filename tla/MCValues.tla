------------------------------ MODULE MCValues ------------------------------
\* Small instances of Values: an int of nine bits, registers of four, a byte of two.
EXTENDS Values

MCEpsilon == -3
MCSmall   == -1

Char == {"0", "1", "9", "-", ".", "e"}
Short == {t \in UNION {[1 .. n -> Char] : n \in 1 .. 3} : IsItem(t)}
\* Around the limits of a coil, a register and an int, and beyond a double.
Edge ==
    {<<"4">>, <<"1", "5">>, <<"1", "6">>, <<"1", "7">>, <<"2", "5", "5">>, <<"2", "5", "6">>,
     <<"-", "2", "5", "6">>, <<"-", "2", "5", "7">>, <<"2", "5", "5", "0", "E", "-", "1">>,
     <<"1", "e", "+", "2">>, <<"1", ".", "5", "e", "1">>, <<"1", "e", "9", "9">>,
     <<"0", "e", "9", "9">>, <<"2", "5", "5", ".", "9">>,
     <<"0", "1", "e", "1">>, <<"9", "0", "e", "-", "1">>, <<"-", "1", ".", "0">>}

Req(cmd, tid, addr, len, data) ==
    [cmd |-> cmd, tid |-> tid, addr |-> addr, len |-> len,
     array |-> cmd \in MultiWrite, data |-> data]
\* An array for a number, a number for an array.
Unfit(r) == [r EXCEPT !.array = ~@]
Few == {<<"0">>, <<"1">>, <<"4">>, <<"1", "6">>, <<"-", "1">>}

MCRequest ==
    {Req(cmd, <<"7">>, <<"1">>, 1, <<t>>) : cmd \in {"fc5", "fc6"}, t \in Short \cup Edge}
    \cup {Req("fc6", t, <<"0">>, 1, <<<<"9">>>>) : t \in Short \cup Edge}
    \cup {Req("fc6", <<"7">>, t, 1, <<<<"9">>>>) : t \in Short \cup Edge}
    \cup {Req(cmd, <<"7">>, <<"1">>, 2, <<x, y>>) : cmd \in {"fc15", "fc16"}, x, y \in Few}
    \cup {Req("fc16", <<"7">>, <<"0">>, 3, <<x>>) : x \in Few}
    \cup {Unfit(Req(cmd, <<"7">>, <<"1">>, 2, <<x, y>>)) : cmd \in {"fc5", "fc6"}, x, y \in Few}
    \cup {Unfit(Req(cmd, <<"7">>, <<"0">>, 3, <<x>>)) : cmd \in {"fc15", "fc16"}, x \in Few}
    \cup {Req(cmd, <<"8">>, <<"0">>, 3, <<>>) : cmd \in Reads}
    \cup {Req(cmd, <<"8">>, <<"2">>, 2, <<>>) : cmd \in {"fc2", "fc3"}}
=============================================================================
