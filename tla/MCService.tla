----------------------------- MODULE MCService -----------------------------
(***************************************************************************)
(* Small instances of ModbusdService.                                      *)
(***************************************************************************)
EXTENDS ModbusdService

Req(mode, cmd, members, len, data) ==
    [mode |-> mode, cmd |-> cmd, members |-> members, tid |-> 7, ip |-> <<1>>,
     port |-> <<2>>, slave |-> 1, len |-> len, data |-> data]

\* Every kind of request: served, refused, local, silent, fatal.
EveryKind ==
    {Req("tcp", "fc6", Member, 1, 1),
     Req("tcp", "fc1", Member \ {"data"}, 2001, 0),
     Req("tcp", "timeout", Member \ {"ip", "port", "slave", "addr", "len"}, 0, 300000),
     Req("tcp", "other", Member \ {"ip", "port", "slave", "addr", "len", "data"}, 0, 0),
     Req("rtu", "fc6", Member, 1, 1),
     Req("tcp", "fc6", {}, 0, 0)}
=============================================================================
