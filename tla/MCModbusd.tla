----------------------------- MODULE MCModbusd -----------------------------
(***************************************************************************)
(* Small instances of Modbusd.  Each run takes one of the request sets     *)
(* below: the shapes of request its question is about.                     *)
(***************************************************************************)
EXTENDS Modbusd, TLC

\* Names over a few bytes.  With room for one byte and a NUL in each part of a key,
\* Long and Longer lose what tells them apart to the port that is written over it,
\* Smearing reaches the flag behind the key, and Huge leaves the handle.
A == <<1>>
P502 == <<2>>
P503 == <<3>>
Long     == <<1, 1, 1>>
Longer   == <<1, 1, 2>>
Smearing == <<1, 1, 1, 1, 1>>
Huge     == <<1, 1, 1, 1, 1, 1>>

Req(mode, cmd, members, port, slave, len, data) ==
    [mode |-> mode, cmd |-> cmd, members |-> members, tid |-> 7, ip |-> A,
     port |-> port, slave |-> slave, len |-> len, data |-> data]
At_(ip, r) == [r EXCEPT !.ip = ip]
\* What a request that involves no slave consists of.
Local == Member \ {"ip", "port", "slave", "addr", "len", "data"}
Read(port, slave)  == Req("tcp", "fc3", Member \ {"data"}, port, slave, 10, 0)
Write(port, slave) == Req("tcp", "fc6", Member, port, slave, 1, 1)
Timeout(usec)      == Req("tcp", "timeout", Member \ {"ip", "port", "slave", "addr", "len"}, P502, 1, 0, usec)

\* A slave, and two others behind addresses that are too long, at the same port.
TwoSlaves ==
    {Read(P502, 1), At_(Long, Read(P502, 1)), At_(Longer, Write(P502, 1)),
     Timeout(300000)}

\* Units behind one port, which the model only compares.
TwoUnits == {Write(P502, s) : s \in Slave}
Units    == Permutations(Slave)

\* A unit id modbus_set_slave refuses.
RefusedUnit == {Write(P502, 1), Write(P502, 248)}

\* Documented requests of every kind, each with one member left out or with a
\* negative "len", texts that do not parse, another port, and names that do not fit.
WellFormed ==
    {Read(P502, 1), Write(P502, 1), Timeout(300000), Timeout(2000000),
     Req("tcp", "fc1", Member \ {"data"}, P502, 1, 2001, 0),
     Req("tcp", "fc15", Member, P502, 1, 2, 2),
     Req("tcp", "fc16", Member, P502, 1, 124, 2),
     Req("tcp", "other", Local, P502, 1, 0, 0),
     Req("rtu", "fc1", Member \ {"data"}, P502, 1, 1, 0),
     Req("other", "fc1", Member, P502, 1, 1, 1)}
Malformed ==
    WellFormed
    \cup {[r EXCEPT !.members = @ \ {m}] : r \in WellFormed, m \in Member}
    \cup {[r EXCEPT !.members = {}] : r \in WellFormed}
    \cup {[r EXCEPT !.len = -1] : r \in WellFormed}
    \cup {Req("tcp", "fc15", Member, P502, 1, 1, 2)}
    \cup {At_(ip, Read(P502, 1)) : ip \in {Long, Longer, Smearing, Huge}}
    \cup {Read(P503, 1), Read(Long, 1), Read(Huge, 1)}
=============================================================================
