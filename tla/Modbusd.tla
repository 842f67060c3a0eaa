------------------------------ MODULE Modbusd ------------------------------
(***************************************************************************)
(* The modbusd daemon: one thread that takes requests from a ZeroMQ SUB    *)
(* socket one at a time (main.c), finds or creates the handle of the slave *)
(* the request names, connects it if its flag says it is not connected,    *)
(* runs one Modbus transaction on it (modbusd.c) and publishes an answer.  *)
(* Every blocking call is a step of its own, so that slaves, the network   *)
(* and the clients act while the daemon waits.                             *)
(*                                                                         *)
(* External, modelled from how the code uses it: ZeroMQ (an ordered queue  *)
(* of requests and one of answers), libmodbus 3.1.4 (connect, set_slave,   *)
(* set_response_timeout and the request/confirmation exchange, which       *)
(* matches transaction ids), TCP and the slaves.                           *)
(***************************************************************************)
EXTENDS Integers, Sequences

CONSTANTS
    IpSize, PortSize,  \* bytes of the two parts of a key: 50 and 50
    HandleSize,      \* bytes a name can reach before it leaves the handle
    Slave,           \* unit ids a request can carry
    ValidSlave,      \* the unit ids modbus_set_slave accepts
    Request,         \* the requests clients publish
    ConfigTimeout,   \* mbtcp_connect_timeout of the configuration file
    NoHandle,        \* the NULL handle
    MaxRequests,     \* bound: requests published
    MaxFaults        \* bound: faults of slaves and network

ReadBits    == {"fc1", "fc2"}
ReadRegs    == {"fc3", "fc4"}
SingleWrite == {"fc5", "fc6"}
MultiWrite  == {"fc15", "fc16"}
Fc          == ReadBits \cup ReadRegs \cup SingleWrite \cup MultiWrite
Mode        == {"tcp", "rtu", "other"}
Cmd         == Fc \cup {"timeout", "other"}

\* The members of the JSON text the code dereferences.  A text that does not
\* parse is a request with no member: cJSON_GetObjectItem finds none in NULL.  A
\* "cmd", "ip" or "port" that is not a string is as good as none: json_get_char
\* returns the NULL its item holds, and strcmp or strcpy reads it.
Member == {"tid", "cmd", "ip", "port", "slave", "addr", "len", "data"}

\* An address, a hostname or a port: a C string, which holds no NUL.
Name == Seq(1 .. 255)

RequestType ==
    [mode : Mode, cmd : Cmd, members : SUBSET Member, tid : Nat,
     ip : Name, port : Name, slave : Slave, len : Int, data : Nat]

MODBUS_MAX_READ_BITS      == 2000
MODBUS_MAX_READ_REGISTERS == 125
MODBUS_MAX_WRITE_BITS      == 1968
MODBUS_MAX_WRITE_REGISTERS == 123
MODBUS_TCP_SLAVE          == 255       \* the unit id of a fresh context
LibraryTimeout            == 500000    \* response timeout of a fresh context

\* What requests name: a slave is behind an address and a port.
Endpoint == {<<r.ip, r.port>> : r \in Request}

\* strcpy does not ask how much room there is: it stores all of s at "at", and a
\* NUL behind it.
strcpy(mem, at, s) ==
    [c \in DOMAIN mem |->
        IF c \in at + 1 .. at + Len(s) THEN s[c - at]
        ELSE IF c = at + Len(s) + 1 THEN 0 ELSE mem[c]]

\* The names in a cleared handle, first the address, then the port.
Named(e) == strcpy(strcpy([c \in 1 .. HandleSize |-> 0], 0, e[1]), IpSize, e[2])

Fits(e)  == Len(e[1]) < IpSize /\ Len(e[2]) < PortSize
Beyond(e) == Len(e[1]) >= HandleSize \/ IpSize + Len(e[2]) >= HandleSize

\* What HASH_FIND compares, sizeof(mbtcp_key_s) bytes of memory: a long address
\* has the port written over it.
KeyOf == [e \in Endpoint |-> [c \in 1 .. IpSize + PortSize |-> Named(e)[c]]]
Key   == {KeyOf[e] : e \in Endpoint}

\* The byte behind the key is "connected".
Smeared(e) == Named(e)[IpSize + PortSize + 1] # 0

\* A handle, with what its context holds: the names it connects to, the response
\* timeout, the unit id.
Handle   == [ctx : Endpoint, connected : BOOLEAN, timeout : Nat,
             slave : ValidSlave \cup {MODBUS_TCP_SLAVE}]

ASSUME ConstantsAssumption ==
    /\ Request \subseteq RequestType
    /\ ValidSlave \subseteq Slave
    /\ ConfigTimeout \in Nat
    /\ MaxRequests \in Nat
    /\ MaxRequests < 65536            \* transaction ids of the library: 16 bits
    /\ MaxFaults \in Nat
    /\ IpSize \in Nat /\ PortSize \in Nat /\ HandleSize \in Nat
    /\ IpSize + PortSize < HandleSize
    /\ NoHandle \notin Key
    /\ NoHandle \notin Handle

Errno  == {"ECONNRESET", "ETIMEDOUT", "EPIPE", "EMBMDATA", "EMBBADDATA",
           "EMBXILADD", "EBADF"}
Status == Errno \cup
    {"ok", "Too many", "Connection failed", "init modbus tcp handle fail",
     "unsupport request", "unsupport mode"}

Confirmation == {"ok", "EMBXILADD"}     \* what a slave says of a request
Cut          == {"closed", "lost"}      \* how a connection ends, seen from here

VARIABLES
    published,    \* every request that reached the SUB socket; its index is its id
    taken,        \* id of the last request zmsg_recv returned
    pc,           \* where main() is
    interrupted,  \* zctx_interrupted
    ptr_handle,   \* the handle lazy_init_mbtcp_handle found, by its key
    mbtcp_htable, \* key -> handle
    tcp_conn_timeout_usec,
    outbox,       \* every answer published
    link,         \* key -> state of the socket of the handle's context
    sock,         \* key -> sockets the context has opened
    t_id,         \* key -> transaction id of the context
    rx,           \* key -> confirmations waiting in that socket
    wire,         \* key -> requests on their way to the slave, on any socket
    executed,     \* key -> what the slave executed, in order
    up,           \* key -> the slave accepts connections
    silent,       \* key -> the requests that were received and never answered
    faults        \* faults so far

daemon  == <<taken, pc, ptr_handle, mbtcp_htable, tcp_conn_timeout_usec, outbox>>
context == <<link, sock, t_id, rx>>
slaves  == <<wire, executed, up, silent, faults>>
clients == <<published, interrupted>>
vars    == <<daemon, context, slaves, clients>>

cur == published[taken]                 \* mode and req_json_obj
Server == <<cur.ip, cur.port>>
key    == KeyOf[Server]
Halted == {"stopped", "crashed"}

Init ==
    /\ published = <<>>
    /\ taken = 0
    /\ pc = "recv"
    /\ interrupted = FALSE
    /\ ptr_handle = NoHandle
    /\ mbtcp_htable = [k \in Key |-> NoHandle]
    /\ tcp_conn_timeout_usec = ConfigTimeout
    /\ outbox = <<>>
    /\ link = [k \in Key |-> "none"]
    /\ sock = [k \in Key |-> 0]
    /\ t_id = [k \in Key |-> 0]
    /\ rx = [k \in Key |-> {}]
    /\ wire = [k \in Key |-> {}]
    /\ executed = [k \in Key |-> <<>>]
    /\ up \in [Key -> BOOLEAN]
    /\ silent = [k \in Key |-> {}]
    /\ faults = 0

----------------------------------------------------------------------------
\* Clients and operator.

ClientPublish(r) ==
    /\ pc \notin Halted
    /\ Len(published) < MaxRequests
    /\ published' = Append(published, r)
    /\ UNCHANGED <<interrupted, daemon, context, slaves>>

\* SIGINT or SIGTERM, at any moment.
Interrupt ==
    /\ pc \notin Halted
    /\ ~interrupted
    /\ interrupted' = TRUE
    /\ UNCHANGED <<published, daemon, context, slaves>>

----------------------------------------------------------------------------
\* main.c: receive, dispatch, answer.

\* Mutant: the loop condition is tested before the answer is sent.
AnswerUnlessInterrupted(status, from) ==
    IF interrupted THEN pc' = "stopped" /\ UNCHANGED outbox
    ELSE /\ pc' = "recv"
         /\ outbox' = Append(outbox, [id |-> taken, tid |-> cur.tid,
                                     status |-> status, from |-> from])

\* send_modbus_zmq_resp, then the loop condition.  "from" is not on the wire:
\* it remembers whose confirmation the answer reports, 0 when nobody's.
Answer(status, from) ==
    /\ outbox' = Append(outbox, [id |-> taken, tid |-> cur.tid,
                                status |-> status, from |-> from])
    /\ pc' = IF interrupted THEN "stopped" ELSE "recv"

\* json_get_int(req_json_obj, "tid") comes before the test for NULL.
Recv ==
    /\ pc = "recv"
    /\ taken < Len(published)
    /\ taken' = taken + 1
    /\ pc' = IF "tid" \in published[taken + 1].members THEN "dispatch" ELSE "crashed"
    /\ UNCHANGED <<ptr_handle, mbtcp_htable, tcp_conn_timeout_usec, outbox,
                   clients, context, slaves>>

\* zmsg_recv returns NULL on a signal; the loop ends.
Stop ==
    /\ pc = "recv" /\ interrupted
    /\ pc' = "stopped"
    /\ UNCHANGED <<taken, ptr_handle, mbtcp_htable, tcp_conn_timeout_usec, outbox,
                   clients, context, slaves>>

\* Mutant: every handler reads "data".
NeededWithData ==
    IF pc = "dispatch" THEN {"cmd"}
    ELSE {"slave", "addr", "data"} \cup (IF cur.cmd \in SingleWrite THEN {} ELSE {"len"})

\* The members json_get_int, json_get_char and cJSON_GetArraySize dereference
\* at this pc; a missing one is a NULL item.
Needed ==
    IF pc = "dispatch"
    THEN {"cmd"} \cup
         (IF cur.mode # "tcp" THEN {}
          ELSE IF cur.cmd \in Fc THEN {"ip", "port"}
          ELSE IF cur.cmd = "timeout" THEN {"data"} ELSE {})
    ELSE {"slave", "addr"} \cup
         (IF cur.cmd \in SingleWrite THEN {} ELSE {"len"}) \cup
         (IF cur.cmd \in SingleWrite \cup MultiWrite THEN {"data"} ELSE {})

\* The call is in progress and reads no member the text lacks.
At(where) == pc = where /\ Needed \subseteq cur.members

NullItem ==
    /\ pc \in {"dispatch", "fc"}
    /\ ~ Needed \subseteq cur.members
    /\ pc' = "crashed"
    /\ UNCHANGED <<taken, ptr_handle, mbtcp_htable, tcp_conn_timeout_usec, outbox,
                   clients, context, slaves>>

Refuse ==
    /\ At("dispatch")
    /\ \/ cur.mode = "other" /\ Answer("unsupport mode", 0)
       \/ cur.mode = "tcp" /\ cur.cmd = "other" /\ Answer("unsupport request", 0)
    /\ UNCHANGED <<taken, ptr_handle, mbtcp_htable, tcp_conn_timeout_usec,
                   clients, context, slaves>>

\* [TODO] send error response
IgnoreRtu ==
    /\ At("dispatch") /\ cur.mode = "rtu"
    /\ pc' = IF interrupted THEN "stopped" ELSE "recv"
    /\ UNCHANGED <<taken, ptr_handle, mbtcp_htable, tcp_conn_timeout_usec, outbox,
                   clients, context, slaves>>

\* An int becomes a long, then a uint32_t: a negative one is stored as a number
\* above 999999.
mbtcp_set_response_timeout ==
    /\ At("dispatch") /\ cur.mode = "tcp" /\ cur.cmd = "timeout"
    /\ tcp_conn_timeout_usec' = cur.data
    /\ Answer("ok", taken)
    /\ UNCHANGED <<taken, ptr_handle, mbtcp_htable, clients, context, slaves>>

----------------------------------------------------------------------------
\* modbusd.c: the handle and its connection.

\* strcpy to the fields of a handle, on the stack in mbtcp_get_handle and on the
\* heap in mbtcp_init_handle.  A name longer than its field runs into what follows
\* it there: the process may die of it, and does of a name that leaves the handle.
NameOverrun ==
    /\ At("dispatch") /\ cur.mode = "tcp" /\ cur.cmd \in Fc
    /\ ~Fits(Server)
    /\ pc' = "crashed"
    /\ UNCHANGED <<taken, ptr_handle, mbtcp_htable, tcp_conn_timeout_usec, outbox,
                   clients, context, slaves>>

\* Mutants: the address, the port is not compared; a handle that is not connected
\* is not found.
FoundBy(k, bytes) ==
    LET Same == {h \in Key : mbtcp_htable[h] # NoHandle /\ \A c \in bytes : h[c] = k[c]}
    IN  IF mbtcp_htable[k] # NoHandle THEN k
        ELSE IF Same # {} THEN CHOOSE h \in Same : TRUE ELSE NoHandle
AnyAddress(k) == FoundBy(k, IpSize + 1 .. IpSize + PortSize)
AnyPort(k)    == FoundBy(k, 1 .. IpSize)
OnlyConnected(k) ==
    IF mbtcp_htable[k] = NoHandle THEN NoHandle
    ELSE IF mbtcp_htable[k].connected THEN k ELSE NoHandle

mbtcp_get_handle(k) ==
    IF mbtcp_htable[k] # NoHandle THEN k ELSE NoHandle

FindHandle ==
    /\ At("dispatch") /\ cur.mode = "tcp" /\ cur.cmd \in Fc
    /\ ~Beyond(Server)
    /\ mbtcp_get_handle(key) # NoHandle
    /\ ptr_handle' = mbtcp_get_handle(key)
    /\ pc' = "connect"
    /\ UNCHANGED <<taken, mbtcp_htable, tcp_conn_timeout_usec, outbox,
                   clients, context, slaves>>

\* What modbus_set_response_timeout(ctx, 0, usec) accepts; else the library's
\* default stays.
Accepted(usec) == 0 < usec /\ usec < 1000000

NewHandle(e, usec) ==
    [ctx |-> e, connected |-> Smeared(e), slave |-> MODBUS_TCP_SLAVE,
     timeout |-> IF Accepted(usec) THEN usec ELSE LibraryTimeout]

\* mbtcp_init_handle up to its call of mbtcp_do_connect, with a new context.  The
\* library makes none for a port that is longer than its own field, which is
\* shorter than that of the key.
mbtcp_init_handle ==
    /\ At("dispatch") /\ cur.mode = "tcp" /\ cur.cmd \in Fc
    /\ ~Beyond(Server) /\ Len(cur.port) < PortSize
    /\ mbtcp_get_handle(key) = NoHandle
    /\ ptr_handle' = key
    /\ mbtcp_htable' = [mbtcp_htable EXCEPT ![key] = NewHandle(Server, tcp_conn_timeout_usec)]
    /\ link' = [link EXCEPT ![key] = "none"]
    /\ t_id' = [t_id EXCEPT ![key] = 0]
    /\ rx' = [rx EXCEPT ![key] = {}]
    /\ pc' = "init"
    /\ UNCHANGED <<taken, tcp_conn_timeout_usec, outbox, sock, clients, slaves>>

\* Mutant: the failure is not reported to mbtcp_cmd_hanlder.
NoContextGoesOn ==
    /\ At("dispatch") /\ cur.mode = "tcp" /\ cur.cmd \in Fc
    /\ mbtcp_get_handle(key) = NoHandle
    /\ ptr_handle' = NoHandle
    /\ pc' = "connect"
    /\ UNCHANGED <<taken, mbtcp_htable, tcp_conn_timeout_usec, outbox,
                   clients, context, slaves>>

\* modbus_new_tcp_pi returned NULL.
NoContext ==
    /\ At("dispatch") /\ cur.mode = "tcp" /\ cur.cmd \in Fc
    /\ ~Beyond(Server)
    /\ mbtcp_get_handle(key) = NoHandle
    /\ Answer("init modbus tcp handle fail", 0)
    /\ ptr_handle' = NoHandle
    /\ UNCHANGED <<taken, mbtcp_htable, tcp_conn_timeout_usec, clients, context, slaves>>

\* mbtcp_do_connect when modbus_connect succeeds: a new socket in the context,
\* the one it held before is not closed.
Connected(h) ==
    /\ up[h]
    /\ sock' = [sock EXCEPT ![h] = @ + 1]
    /\ link' = [link EXCEPT ![h] = "up"]
    /\ rx' = [rx EXCEPT ![h] = {}]
    /\ mbtcp_htable' = [mbtcp_htable EXCEPT ![h].connected = TRUE]
    /\ UNCHANGED t_id

\* ... and when it returns -1: nobody listens, or a signal cut select short.
ConnectFailed(h) ==
    /\ ~up[h] \/ interrupted
    /\ UNCHANGED <<mbtcp_htable, context>>

\* modbus_connect looks at the socket of the context, not at the attempt: one
\* that holds a dead socket from before succeeds with it.
ConnectKeepsOld(h) ==
    /\ ~up[h] \/ interrupted
    /\ link[h] # "none"
    /\ mbtcp_htable' = [mbtcp_htable EXCEPT ![h].connected = TRUE]
    /\ UNCHANGED context

modbus_connect(h) == Connected(h) \/ ConnectKeepsOld(h)

\* The attempt of mbtcp_init_handle, whose result is ignored.
FirstConnect ==
    /\ pc = "init"
    /\ modbus_connect(ptr_handle) \/ ConnectFailed(ptr_handle)
    /\ pc' = "connect"
    /\ UNCHANGED <<taken, ptr_handle, tcp_conn_timeout_usec, outbox, clients, slaves>>

lazy_mbtcp_connect ==
    /\ pc = "connect"
    /\ IF mbtcp_htable[ptr_handle].connected
       THEN pc' = "fc" /\ UNCHANGED <<mbtcp_htable, context, outbox>>
       ELSE \/ /\ modbus_connect(ptr_handle)
               /\ pc' = "fc"
               /\ UNCHANGED outbox
            \/ /\ ConnectFailed(ptr_handle)
               /\ Answer("Connection failed", 0)
    /\ UNCHANGED <<taken, ptr_handle, tcp_conn_timeout_usec, clients, slaves>>

----------------------------------------------------------------------------
\* modbusd.c: one transaction.

\* Mutant: the unit id is set once, when the handle is fresh.
SetSlaveOnce(h, slave) ==
    IF h.slave = MODBUS_TCP_SLAVE /\ slave \in ValidSlave
    THEN [h EXCEPT !.slave = slave] ELSE h

\* modbus_set_slave in mbtcp_cmd_hanlder: a refused id leaves the previous one.
modbus_set_slave(h, slave) ==
    [h EXCEPT !.slave = IF slave \in ValidSlave THEN slave ELSE @]

SetSlave ==
    mbtcp_htable' = [mbtcp_htable EXCEPT ![ptr_handle] = modbus_set_slave(@, cur.slave)]

\* "Too many bits requested", "Too many registers requested"
TooManyRead ==
    \/ cur.cmd \in ReadBits /\ cur.len > MODBUS_MAX_READ_BITS
    \/ cur.cmd \in ReadRegs /\ cur.len > MODBUS_MAX_READ_REGISTERS

\* errno EMBMDATA of modbus_write_bits and modbus_write_registers
TooManyWrite ==
    \/ cur.cmd = "fc15" /\ cur.len > MODBUS_MAX_WRITE_BITS
    \/ cur.cmd = "fc16" /\ cur.len > MODBUS_MAX_WRITE_REGISTERS

TooMany ==
    /\ At("fc")
    /\ SetSlave
    /\ \/ TooManyRead /\ Answer("Too many", 0)
       \/ TooManyWrite /\ Answer("EMBMDATA", 0)
    /\ UNCHANGED <<taken, ptr_handle, tcp_conn_timeout_usec, clients, context, slaves>>

\* fc15 and fc16 clear what malloc(len) returned before the library looks at "len",
\* and malloc may have returned NULL; more elements than "len" are stored past it.
\* The process may die of either, or go on.  Of an array of negative length, cleared
\* as far as a size_t goes, it dies.
NegativeLen == cur.cmd \in ReadBits \cup ReadRegs \cup MultiWrite /\ cur.len < 0
Overrun ==
    /\ At("fc")
    /\ NegativeLen \/ TooManyWrite \/ (cur.cmd \in MultiWrite /\ cur.data > cur.len)
    /\ pc' = "crashed"
    /\ UNCHANGED <<taken, ptr_handle, mbtcp_htable, tcp_conn_timeout_usec, outbox,
                   clients, context, slaves>>

\* Mutant: every error clears the flag.
AnyErrno(h, errno) == [h EXCEPT !.connected = FALSE]

\* set_modbus_errno_resp: only "Connection reset by peer" clears the flag.
set_modbus_errno_resp(h, errno) ==
    [h EXCEPT !.connected = IF errno = "ECONNRESET" THEN FALSE ELSE @]

\* Mutant: the result of the call is not tested.
FailUnnoticed(errno, from) ==
    /\ mbtcp_htable' =
         [mbtcp_htable EXCEPT ![ptr_handle] = set_modbus_errno_resp(@, errno)]
    /\ Answer("ok", from)

Fail(errno, from) ==
    /\ mbtcp_htable' =
         [mbtcp_htable EXCEPT ![ptr_handle] = set_modbus_errno_resp(@, errno)]
    /\ Answer(errno, from)

\* What send() reports of a connection the kernel has given up: why, once, then
\* that it is no more; and of a context that never had a socket.
Dead == {"none", "timedout", "broken"}
SendErrno(h) ==
    CASE link[h] = "none" -> "EBADF"
      [] link[h] = "timedout" -> "ETIMEDOUT"
      [] OTHER -> "EPIPE"

\* send() in libmodbus: the transaction id advances, the bytes leave when the
\* connection stands, are lost when it does not, and are refused when the
\* kernel has given it up.
SendBroken ==
    /\ At("fc") /\ ~NegativeLen /\ ~TooManyRead /\ ~TooManyWrite
    /\ link[ptr_handle] \in Dead
    /\ t_id' = [t_id EXCEPT ![ptr_handle] = @ + 1]
    /\ link' = [link EXCEPT ![ptr_handle] = IF @ = "none" THEN @ ELSE "broken"]
    /\ mbtcp_htable' = [mbtcp_htable EXCEPT ![ptr_handle] =
            set_modbus_errno_resp(modbus_set_slave(@, cur.slave), SendErrno(ptr_handle))]
    /\ Answer(SendErrno(ptr_handle), 0)
    /\ UNCHANGED <<taken, ptr_handle, tcp_conn_timeout_usec, sock, rx, clients, slaves>>

Pdu(h) ==
    [id |-> taken, t_id |-> t_id[h] + 1, sock |-> sock[h],
     slave |-> modbus_set_slave(mbtcp_htable[h], cur.slave).slave]

\* Mutant: the transaction id of the last request is used again.
SameTransaction ==
    /\ At("fc") /\ ~NegativeLen /\ ~TooManyRead /\ ~TooManyWrite
    /\ link[ptr_handle] \notin Dead
    /\ SetSlave
    /\ wire' = IF link[ptr_handle] = "up"
               THEN [wire EXCEPT ![ptr_handle] = @ \cup
                       {[Pdu(ptr_handle) EXCEPT !.t_id = t_id[ptr_handle]]}]
               ELSE wire
    /\ pc' = "wait"
    /\ UNCHANGED <<taken, ptr_handle, tcp_conn_timeout_usec, outbox, context,
                   executed, up, silent, faults, clients>>

Send ==
    /\ At("fc") /\ ~NegativeLen /\ ~TooManyRead /\ ~TooManyWrite
    /\ link[ptr_handle] \notin Dead
    /\ SetSlave
    /\ t_id' = [t_id EXCEPT ![ptr_handle] = @ + 1]
    /\ wire' = IF link[ptr_handle] = "up"
               THEN [wire EXCEPT ![ptr_handle] = @ \cup {Pdu(ptr_handle)}]
               ELSE wire
    /\ pc' = "wait"
    /\ UNCHANGED <<taken, ptr_handle, tcp_conn_timeout_usec, outbox, link, sock, rx,
                   executed, up, silent, faults, clients>>

\* The confirmation at the head of the socket, oldest first.
Oldest(m, msgs) == \A n \in msgs : m.t_id <= n.t_id

\* check_confirmation: another transaction's confirmation is consumed and
\* reported as EMBBADDATA; an exception as its errno.
Outcome(m) ==
    IF m.t_id # t_id[ptr_handle] THEN "EMBBADDATA"
    ELSE m.status

Receive(m) ==
    /\ pc = "wait"
    /\ m \in rx[ptr_handle] /\ Oldest(m, rx[ptr_handle])
    /\ rx' = [rx EXCEPT ![ptr_handle] = @ \ {m}]
    /\ IF Outcome(m) = "ok"
       THEN Answer("ok", m.id) /\ UNCHANGED mbtcp_htable
       ELSE Fail(Outcome(m), m.id)
    /\ UNCHANGED <<taken, ptr_handle, tcp_conn_timeout_usec, link, sock, t_id,
                   clients, slaves>>

\* recv() finds the end of the stream, or a reset.
ConnectionReset ==
    /\ pc = "wait"
    /\ rx[ptr_handle] = {} /\ link[ptr_handle] = "closed"
    /\ link' = [link EXCEPT ![ptr_handle] = "broken"]
    /\ Fail("ECONNRESET", 0)
    /\ UNCHANGED <<taken, ptr_handle, tcp_conn_timeout_usec, sock, t_id, rx,
                   clients, slaves>>

\* Mutants: one retry after a timeout; no timeout unless the connection stands.
TimeoutRetries ==
    /\ pc = "wait"
    /\ rx[ptr_handle] = {} /\ link[ptr_handle] # "closed"
    /\ IF t_id[ptr_handle] = 1 /\ link[ptr_handle] = "up"
       THEN /\ t_id' = [t_id EXCEPT ![ptr_handle] = @ + 1]
            /\ wire' = [wire EXCEPT ![ptr_handle] = @ \cup
                 {[Pdu(ptr_handle) EXCEPT !.slave = mbtcp_htable[ptr_handle].slave]}]
            /\ UNCHANGED <<mbtcp_htable, outbox, pc>>
       ELSE Fail("ETIMEDOUT", 0) /\ UNCHANGED <<t_id, wire>>
    /\ UNCHANGED <<taken, ptr_handle, tcp_conn_timeout_usec, link, sock, rx,
                   executed, up, silent, faults, clients>>
TimeoutOnlyWhenUp ==
    /\ pc = "wait"
    /\ rx[ptr_handle] = {} /\ link[ptr_handle] = "up"
    /\ Fail("ETIMEDOUT", 0)
    /\ UNCHANGED <<taken, ptr_handle, tcp_conn_timeout_usec, context, clients, slaves>>

\* select() in libmodbus runs out, or TCP itself reports the timeout.
ResponseTimeout ==
    /\ pc = "wait"
    /\ rx[ptr_handle] = {} /\ link[ptr_handle] # "closed"
    /\ link' = [link EXCEPT ![ptr_handle] = IF @ \in Dead THEN "broken" ELSE @]
    /\ Fail("ETIMEDOUT", 0)
    /\ UNCHANGED <<taken, ptr_handle, tcp_conn_timeout_usec, sock, t_id, rx,
                   clients, slaves>>

----------------------------------------------------------------------------
\* The slaves and the network.

\* The slave at h takes the next request of a connection; it executes it or
\* answers with an exception.  The confirmation arrives if the daemon still
\* holds that connection.
SlaveAnswer(h, m, status) ==
    /\ m \in wire[h]
    /\ Oldest(m, {n \in wire[h] : n.sock = m.sock})
    /\ wire' = [wire EXCEPT ![h] = @ \ {m}]
    /\ executed' = IF status = "ok"
                   THEN [executed EXCEPT ![h] = Append(@, [id |-> m.id, slave |-> m.slave])]
                   ELSE executed
    /\ rx' = IF link[h] = "up" /\ sock[h] = m.sock
             THEN [rx EXCEPT ![h] = @ \cup
                      {[id |-> m.id, t_id |-> m.t_id, status |-> status]}]
             ELSE rx
    /\ UNCHANGED <<link, sock, t_id, up, silent, faults, daemon, clients>>

\* ... or it takes the request and never answers it, executed or not: a unit that
\* is not there, a broadcast, a gateway that drops it.  The connection stands.
SlaveSilent(h, m, did) ==
    /\ faults < MaxFaults
    /\ m \in wire[h]
    /\ Oldest(m, {n \in wire[h] : n.sock = m.sock})
    /\ wire' = [wire EXCEPT ![h] = @ \ {m}]
    /\ executed' = IF did
                   THEN [executed EXCEPT ![h] = Append(@, [id |-> m.id, slave |-> m.slave])]
                   ELSE executed
    /\ silent' = [silent EXCEPT ![h] = @ \cup {m.id}]
    /\ faults' = faults + 1
    /\ UNCHANGED <<context, up, daemon, clients>>

\* The connection of h is closed by the peer or lost without a word; what was
\* on its way arrives or is gone, and h may stop accepting connections.
LinkFault(h) ==
    /\ faults < MaxFaults
    /\ link[h] = "up"
    /\ \E l \in Cut : link' = [link EXCEPT ![h] = l]
    /\ \E on \in BOOLEAN : up' = [up EXCEPT ![h] = on]
    /\ \E kept \in {wire[h], {}} : wire' = [wire EXCEPT ![h] = kept]
    /\ \E kept \in {rx[h], {}} : rx' = [rx EXCEPT ![h] = kept]
    /\ faults' = faults + 1
    /\ UNCHANGED <<sock, t_id, executed, silent, daemon, clients>>

\* A slave comes back: a connection it has forgotten is reset at the next send.
SlaveReturn(h) ==
    /\ ~up[h]
    /\ up' = [up EXCEPT ![h] = TRUE]
    /\ link' = [link EXCEPT ![h] = IF @ = "lost" THEN "closed" ELSE @]
    /\ UNCHANGED <<sock, t_id, rx, wire, executed, silent, faults, daemon, clients>>

\* TCP gives a lost connection up after its retransmissions.
KernelGivesUp(h) ==
    /\ link[h] = "lost"
    /\ link' = [link EXCEPT ![h] = "timedout"]
    /\ UNCHANGED <<sock, t_id, rx, daemon, clients, slaves>>

----------------------------------------------------------------------------
Work ==
    \/ Recv \/ NullItem \/ Refuse \/ IgnoreRtu \/ mbtcp_set_response_timeout
    \/ NameOverrun \/ FindHandle \/ mbtcp_init_handle \/ NoContext \/ FirstConnect
    \/ lazy_mbtcp_connect \/ TooMany \/ Overrun \/ SendBroken \/ Send
    \/ ConnectionReset \/ ResponseTimeout
    \/ pc = "wait" /\ \E m \in rx[ptr_handle] : Receive(m)

Daemon == Work \/ Stop

Environment ==
    \/ Interrupt
    \/ \E r \in Request : ClientPublish(r)
    \/ \E h \in Key :
          \/ LinkFault(h) \/ SlaveReturn(h) \/ KernelGivesUp(h)
          \/ \E m \in wire[h], s \in Confirmation : SlaveAnswer(h, m, s)
          \/ \E m \in wire[h], did \in BOOLEAN : SlaveSilent(h, m, did)

Next == Daemon \/ Environment

\* Every call the daemon blocks in is bounded by the response timeout, except
\* zmsg_recv: a signal just before it is not noticed until a request comes, so
\* Stop is not fair.  Slaves, network and clients owe nothing.
Spec == Init /\ [][Next]_vars /\ WF_vars(Work)

----------------------------------------------------------------------------
\* Properties.

RangeOf(seq) == {seq[i] : i \in 1 .. Len(seq)}
EndpointOf(id) == <<published[id].ip, published[id].port>>
KeyAt(id) == KeyOf[EndpointOf(id)]
Transacts(id) == published[id].mode = "tcp" /\ published[id].cmd \in Fc
Id == 1 .. taken

AnswerType  == [id : Nat, tid : Nat, status : Status, from : Nat]
ReplyType   == [id : Nat, t_id : Nat, status : Confirmation]
UnitType    == ValidSlave \cup {MODBUS_TCP_SLAVE}
PduType     == [id : Nat, t_id : Nat, sock : Nat, slave : UnitType]
EffectType  == [id : Nat, slave : UnitType]

ClientsOK == published \in Seq(Request)

DaemonOK ==
    /\ taken \in Nat
    /\ taken <= Len(published)
    /\ pc \in {"recv", "dispatch", "init", "connect", "fc", "wait", "stopped", "crashed"}
    /\ ptr_handle \in Key \cup {NoHandle}
    /\ mbtcp_htable \in [Key -> Handle \cup {NoHandle}]
    /\ tcp_conn_timeout_usec \in Nat
    /\ outbox \in Seq(AnswerType)

ContextOK ==
    /\ link \in [Key -> {"none", "up", "closed", "lost", "timedout", "broken"}]
    /\ sock \in [Key -> Nat]
    /\ t_id \in [Key -> Nat]
    /\ rx \in [Key -> SUBSET ReplyType]

SlavesOK ==
    /\ wire \in [Key -> SUBSET PduType]
    /\ executed \in [Key -> Seq(EffectType)]
    /\ up \in [Key -> BOOLEAN]
    /\ silent \in [Key -> SUBSET Nat]
    /\ faults \in Nat

\* Where the daemon uses them there are a request and a handle.
InUseOK ==
    /\ pc \notin {"recv", "stopped"} => taken > 0
    /\ pc \in {"init", "connect", "fc", "wait"} =>
         ptr_handle \in Key /\ mbtcp_htable[ptr_handle] \in Handle

\* The type of every variable, and that the daemon holds a request and a handle
\* wherever it uses one: cur and *ptr_handle are never read when there is none.
TypeOK == ClientsOK /\ interrupted \in BOOLEAN /\ DaemonOK /\ ContextOK /\ SlavesOK /\ InUseOK

\* An answer that reports what a slave said reports what it said of the request
\* it answers, although a confirmation may arrive after its request was given
\* up: the hazard of a connection kept after a timeout (modbusd.c:101-104).
AnswersOwnRequest ==
    \A a \in RangeOf(outbox) : a.status \in Confirmation => a.from = a.id

\* Why: of the requests and confirmations still on their way none is from the
\* future, and while the daemon waits only its own carries its transaction id.
\* A new context starts at transaction 0 again, but where nothing is pending.
Pending(k) == wire[k] \cup rx[k]
OwnConfirmation ==
    /\ \A k \in Key : \A m \in Pending(k) : m.t_id <= t_id[k]
    /\ \A k \in Key : mbtcp_htable[k] = NoHandle => Pending(k) = {}
    /\ pc = "wait" =>
         \A m \in Pending(ptr_handle) : m.t_id = t_id[ptr_handle] => m.id = taken

\* A request whose names fit the key is executed by the slave at its address and
\* port, whatever handles were created before, in which order and under names of
\* what length: of two that are longer than the key one may get the other's slave
\* (modbusd.c:486-488, the key is compared as memory).
RightSlave ==
    \A k \in Key : \A e \in RangeOf(executed[k]) :
        Fits(EndpointOf(e.id)) => mbtcp_htable[k].ctx = EndpointOf(e.id)

\* ... and addresses the unit the request names, if it names a valid one,
\* although handles are shared by the units behind one address.
RightUnit ==
    \A k \in Key : \A e \in RangeOf(executed[k]) :
        published[e.id].slave \in ValidSlave => e.slave = published[e.id].slave

\* No request is executed twice, over all faults, timeouts and reconnections.
ExecutedAtMostOnce ==
    \A k \in Key : \A i, j \in 1 .. Len(executed[k]) :
        executed[k][i].id = executed[k][j].id => i = j

\* "ok" to a request for a slave means that slave executed it; an answer given
\* before the request is sent means that nobody ever does.
OkMeansExecuted ==
    \A a \in RangeOf(outbox) : Transacts(a.id) =>
        LET did == \E e \in RangeOf(executed[KeyAt(a.id)]) : e.id = a.id
        IN  /\ a.status = "ok" => did
            /\ a.status \in {"Connection failed", "Too many", "EMBMDATA", "EPIPE", "EBADF"} => ~did

\* Two requests answered "ok" by one slave were executed in the order they were
\* answered, whatever given-up requests still reach it between them.
OkInOrder ==
    \A k \in Key : \A i, j \in 1 .. Len(executed[k]) :
        LET Ok(n) == \E a \in RangeOf(outbox) : a.status = "ok" /\ a.id = executed[k][n].id
        IN  i < j /\ Ok(i) /\ Ok(j) => executed[k][i].id < executed[k][j].id

\* Answer i is a timeout on the handle of answer j, and none between them is a
\* reset, which alone brings a new connection.
GivenUp(i, j) ==
    LET On(n, status) == /\ outbox[n].status = status
                         /\ KeyAt(outbox[n].id) = KeyAt(outbox[j].id)
    IN  On(i, "ETIMEDOUT") /\ \A n \in i + 1 .. j - 1 : ~On(n, "ECONNRESET")

\* Since answer i every request on the handle of answer j has had its confirmation,
\* or has it on its way.
Confirmed(i, j) ==
    \A id \in silent[KeyAt(outbox[j].id)] : id \notin outbox[i].id .. outbox[j].id - 1

\* A timeout puts a connection out of step: the confirmation that was given up
\* comes before the next one, and every transaction reads its predecessor's.  No
\* request is reported executed or refused by the slave until a reset is seen, or
\* the slave leaves one unanswered.  Without a timeout none is told that its answer
\* is bad data.
RecoversByResetOrSilence ==
    \A j \in 1 .. Len(outbox) : Transacts(outbox[j].id) =>
        /\ \A i \in 1 .. j - 1 :
             GivenUp(i, j) /\ Confirmed(i, j) => outbox[j].status \notin Confirmation
        /\ (\A i \in 1 .. j - 1 : ~GivenUp(i, j)) => outbox[j].status # "EMBBADDATA"

\* A connection found broken is never replaced: the flag of its handle is cleared
\* by a reset only (modbusd.c:104), and a broken pipe is none.
BrokenForGood ==
    \A i, j \in 1 .. Len(outbox) :
        /\ i < j /\ outbox[i].status = "EPIPE"
        /\ Transacts(outbox[j].id) /\ KeyAt(outbox[i].id) = KeyAt(outbox[j].id)
        => outbox[j].status \in {"EPIPE", "Too many", "EMBMDATA"}

\* A context opens a new socket only when its old one is dead: the old one is
\* not closed, so a live connection would stay open at the slave.
NoLiveSocketAbandoned ==
    [][\A k \in Key : sock'[k] # sock[k] => link[k] \in {"none", "broken"}]_vars

\* A handle, once in the table, stays, with the timeout it was created with:
\* an endpoint never has a second context.
HandleKept ==
    [][\A k \in Key : mbtcp_htable[k] # NoHandle =>
          /\ mbtcp_htable'[k] # NoHandle
          /\ mbtcp_htable'[k].ctx = mbtcp_htable[k].ctx
          /\ mbtcp_htable'[k].timeout = mbtcp_htable[k].timeout
          /\ t_id'[k] >= t_id[k]]_vars

\* README.md:59-118, the members of the request formats; a single write needs no
\* "len" (tests/zclient/client2.js).
Documented(r) ==
    /\ {"tid", "cmd"} \subseteq r.members
    /\ r.mode = "tcp" /\ r.cmd = "timeout" => "data" \in r.members
    /\ r.mode = "tcp" /\ r.cmd \in Fc => {"ip", "port", "slave", "addr"} \subseteq r.members
    /\ r.mode = "tcp" /\ r.cmd \in Fc \ SingleWrite => "len" \in r.members
    /\ r.mode = "tcp" /\ r.cmd \in SingleWrite \cup MultiWrite => "data" \in r.members

\* A documented request that the buffers of the daemon are large enough for.
Sound(r) ==
    /\ Documented(r)
    /\ r.mode = "tcp" /\ r.cmd \in Fc =>
         Fits(<<r.ip, r.port>>) /\ (r.cmd \in SingleWrite \/ r.len >= 0)
    /\ r.mode = "tcp" /\ r.cmd \in MultiWrite =>
         /\ r.data <= r.len
         /\ r.len <= IF r.cmd = "fc15" THEN MODBUS_MAX_WRITE_BITS
                                       ELSE MODBUS_MAX_WRITE_REGISTERS

\* Such a request never kills the daemon, whatever the state earlier requests, of
\* any names and lengths, and faults have left it in.
SoundNeverCrashes == pc = "crashed" => ~Sound(cur)

\* Every request gets its answer, or the daemon has halted; slaves and network
\* owe nothing.
EveryRequestAnswered ==
    \A id \in 1 .. MaxRequests :
        Len(published) >= id ~>
            \/ pc \in Halted
            \/ taken >= id /\ published[id].mode = "rtu"
            \/ \E a \in RangeOf(outbox) : a.id = id

----------------------------------------------------------------------------
\* What comments say and the code does not do.

\* main.c:218 "Fail to parse command string": a text that does not parse is
\* answered, it does not end the daemon.
UnparsableIsAnswered == pc = "crashed" => cur.members # {}

\* modbusd.c:515 "set slave id": a request that is answered "ok" was executed by the
\* unit it names.
SlaveIdIsSet ==
    \A k \in Key : \A e \in RangeOf(executed[k]) : \A a \in RangeOf(outbox) :
        a.id = e.id /\ a.status = "ok" => e.slave = published[e.id].slave
=============================================================================
