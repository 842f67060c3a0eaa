----------------------------- MODULE MCScalars -----------------------------
\* Small instances of Scalars.  Pieces lie at the edges of what escapes tell apart.
EXTENDS Scalars

MCEpsilon == -3
MCSmall   == -1

Is(bytes, unit) == [bytes |-> bytes, unit |-> unit]
\* \u and four hexadecimal digits
U(a, b, c, d, unit) == Is(<<92, 117, a, b, c, d>>, unit)

MCPiece == {
    Is(<<97>>, 97), Is(<<117>>, 117), Is(<<1>>, 1), Is(<<127>>, 127),
    Is(<<195, 169>>, 233),
    Is(<<92, 34>>, 34), Is(<<92, 92>>, 92), Is(<<92, 110>>, 10), Is(<<92, 98>>, 8),
    Is(<<92, 47>>, 47),
    U(48, 48, 48, 48, 0), U(48, 48, 49, 102, 31), U(48, 48, 55, 70, 127),
    U(48, 48, 56, 48, 128), U(48, 55, 70, 70, 2047), U(48, 56, 48, 48, 2048),
    U(70, 102, 70, 70, 65535), U(68, 55, 70, 70, 55295), U(69, 48, 48, 48, 57344),
    U(68, 56, 48, 48, 55296), U(68, 98, 102, 102, 56319),
    U(100, 99, 48, 48, 56320), U(68, 70, 70, 70, 57343),
    U(48, 103, 48, 48, Bad)}
\* Cut short by the end of the text.
Cut == {Is(<<92, 117, 49, 50>>, Bad), Is(<<92, 117>>, Bad)}

Text(pieces, quote) ==
    [text |-> <<34>> \o FlattenSeq([i \in DOMAIN pieces |-> pieces[i].bytes]) \o quote,
     units |-> [i \in DOMAIN pieces |-> pieces[i].unit]]
MCInput ==
    {Text(p, <<34>>) : p \in UNION {[1 .. n -> MCPiece] : n \in 0 .. 3}}
    \cup {Text(<<p, c>>, q) : p \in MCPiece, c \in Cut, q \in {<<>>, <<34>>}}
    \cup {Text(<<p>>, <<>>) : p \in MCPiece}
    \cup {Text(<<Is(<<92>>, Bad)>>, <<>>)}

Symbol == {"0", "1", "5", "9", "-", ".", "e"}
MCNumberText ==
    {t \in UNION {[1 .. n -> Symbol] : n \in 1 .. 5} : IsItem(t)}
    \cup {<<"2", "5", "5", ".", x, y>> : x, y \in {"0", "4", "5", "9"}}
    \cup {<<"9", "9", ".", x, y>> : x, y \in {"0", "4", "5", "9"}}
    \cup {<<"0", ".", "0", "0", x, "9">> : x \in {"0", "4", "5", "9"}}
    \cup {<<"1", x, ".", "0", "0", "0", "9">> : x \in {"0", "4", "5", "9"}}
    \cup {<<"-", x, "e", "6">> : x \in {"1", "9"}}
=============================================================================
