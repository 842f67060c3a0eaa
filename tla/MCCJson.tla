------------------------------ MODULE MCCJson ------------------------------
\* Texts for CJson: every short one, and requests with a few members.
EXTENDS CJson

MCNumber == {"0", "1", "2"}
MCString == {"", "tid", "TID", "a", "data", "status", "ok"}
Some == {"{", "}", "[", "]", ":", ",", "tid", "1"}
Longer ==
    {<<"{", x, ":", "1", ",", y, ":", v, "}">> : x, y \in {"tid", "TID", "a"}, v \in {"2", "ok"} \cup Literal}
    \cup {<<"{", x, ":", "[", v, ",", "{", "}", "]", ",", "tid", ":", "2", "}", "]">> :
             x \in {"tid", "a"}, v \in {"1", "ok"}}
MCText == UNION {[1 .. n -> Some] : n \in 0 .. 5} \cup Longer
MCRegisters == {<<>>, <<"2">>, <<"2", "0">>}
=============================================================================
