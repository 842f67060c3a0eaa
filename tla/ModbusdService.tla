-------------------------- MODULE ModbusdService --------------------------
(***************************************************************************)
(* modbusd implements RequestService: one request at a time, answered once *)
(* under its own tid, executed at most once.  A request is begun when      *)
(* zmsg_recv returns it and served when the loop comes round.              *)
(***************************************************************************)
EXTENDS Modbusd

Busy == pc \notin {"recv", "stopped"}

Given(a) == [id |-> a.id, tid |-> a.tid, status |-> a.status]

Service == INSTANCE RequestService WITH
    Silent   <- LAMBDA r : r.mode = "rtu",
    Local    <- LAMBDA r : r.mode # "tcp" \/ r.cmd \notin Fc,
    Refusal  <- {"Connection failed", "Too many", "EMBMDATA", "EPIPE", "EBADF",
                 "init modbus tcp handle fail", "unsupport request", "unsupport mode"},
    requests <- published,
    begun    <- taken,
    served   <- IF Busy THEN taken - 1 ELSE taken,
    answers  <- [i \in DOMAIN outbox |-> Given(outbox[i])],
    effects  <- {id \in Id : \E k \in Key : \E e \in RangeOf(executed[k]) : e.id = id},
    alive    <- pc \notin Halted

\* Every behaviour of the daemon is one of the service: first come first served,
\* one answer each, no execution repeated, none before its turn, "ok" only after it.
ImplementsService == Service!Safety

\* ... and the service goes on until it halts.
ServiceGoesOn == Service!Progress
=============================================================================
