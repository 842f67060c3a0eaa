-------------------------- MODULE ConnectionProofs --------------------------
(***************************************************************************)
(* What becomes of a connection after timeouts and faults, for every       *)
(* choice of the constants of Modbusd: which sockets are replaced, which   *)
(* never are, and how far answers and confirmations get out of step.       *)
(***************************************************************************)
EXTENDS ModbusdProofs

\* There is a handle, marked connected.
IsConnected(k) == mbtcp_htable[k] # NoHandle /\ mbtcp_htable[k].connected

\* A handle not marked connected has no socket, or one found broken.
ConnectedOrBroken ==
    \A k \in Key :
        mbtcp_htable[k] # NoHandle /\ ~IsConnected(k) => link[k] \in {"none", "broken"}
\* The flag and the socket, by how far the request has got.  A fresh handle has no
\* socket, but may be marked: by a name that runs into its flag.
FlagFollows ==
    /\ pc = "init" => link[ptr_handle] = "none"
    /\ pc \in {"fc", "wait"} => IsConnected(ptr_handle)
    /\ pc = "wait" => link[ptr_handle] # "none"

FlagInv == ConnectedOrBroken /\ FlagFollows

\* The daemon waits for a confirmation from k.
Waits(k) == pc = "wait" /\ ptr_handle = k

\* A broken pipe has been reported: the handle keeps its flag and its dead socket.
BrokenStays ==
    \A a \in RangeOf(outbox) : a.status = "EPIPE" =>
        LET k == KeyAt(a.id) IN IsConnected(k) /\ link[k] = "broken" /\ ~Waits(k)

BrokenInv == BrokenStays /\ BrokenForGood

\* The answer at i was given to a request for k with this status.
On(k, i, status) == outbox[i].status = status /\ KeyAt(outbox[i].id) = k

\* Request "first" for k was given up, and no reset seen since.
GaveUp(k, first) ==
    \E i \in 1 .. Len(outbox) :
        /\ outbox[i].id = first /\ On(k, i, "ETIMEDOUT")
        /\ \A n \in i + 1 .. Len(outbox) : ~On(k, n, "ECONNRESET")
OutNow(k) == \E first \in Nat : GaveUp(k, first)

\* None from "first" on was left unanswered, unless it is the one waited for.
Spoken(k, first) == \A id \in silent[k] : id < first \/ (Waits(k) /\ id = taken)

\* What is on its way on the socket of the context, in both directions.
Current(k) == {m \in wire[k] : m.sock = sock[k]}
Coming(k) == rx[k] \cup Current(k)

\* On a socket, confirmations come in the order of the transactions, one each.
InOrder(k) ==
    /\ \A m \in wire[k] : m.sock <= sock[k]
    /\ \A m, n \in rx[k] : m.t_id = n.t_id => m = n
    /\ \A m, n \in Current(k) : m.t_id = n.t_id => m = n
    /\ \A m \in rx[k], n \in Current(k) : m.t_id < n.t_id

\* Only what was sent is left unanswered.
SilentSent(k) == \A id \in silent[k] : id \in Id /\ (pc \in Before => id # taken)

\* On the wire the request waited for has the last transaction id.
OwnIsLatest(k) == Waits(k) => \A m \in wire[k] : m.id = taken => m.t_id = t_id[k]

\* While the connection stands, the confirmation waited for will come, unless the
\* slave keeps silent.
OwnComes(k) ==
    link[k] = "up" /\ Waits(k) =>
        taken \in silent[k] \/ \E m \in Coming(k) : m.t_id = t_id[k]

\* Out of step another comes before it.
StaleComes(k) ==
    /\ OutNow(k) => IsConnected(k) /\ link[k] # "none"
    /\ \A first \in Nat : GaveUp(k, first) /\ Spoken(k, first) =>
         /\ link[k] = "up" =>
              \E m \in Coming(k) : m.id >= first /\ (Waits(k) => m.t_id < t_id[k])
         /\ Waits(k) => \A m \in rx[k] : m.t_id = t_id[k] =>
                            \E n \in rx[k] : n.t_id < t_id[k]

\* In step no other does.
OnlyOwnComes(k) ==
    ~OutNow(k) =>
        \A m \in rx[k] \cup (IF link[k] = "up" THEN Current(k) ELSE {}) :
            Waits(k) /\ m.t_id = t_id[k]

\* All of it, at k.
StepAt(k) ==
    /\ InOrder(k) /\ SilentSent(k) /\ OwnIsLatest(k)
    /\ OwnComes(k) /\ StaleComes(k) /\ OnlyOwnComes(k)

StepInv == (\A k \in Key : StepAt(k)) /\ RecoversByResetOrSilence

----------------------------------------------------------------------------
\* What a step can do to the connection of a handle.

\* Nothing, but that it may end.
Kept(k) ==
    /\ IsConnected(k)' <=> IsConnected(k)
    /\ mbtcp_htable'[k] = NoHandle <=> mbtcp_htable[k] = NoHandle
    /\ sock'[k] = sock[k]
    /\ link'[k] = link[k] \/ (link[k] \notin {"none", "broken"} /\ link'[k] \notin {"none", "up"})
Created(k) ==
    /\ mbtcp_init_handle /\ k = key
    /\ mbtcp_htable[k] = NoHandle /\ sock'[k] = sock[k] /\ link'[k] = "none"
Opened(k) ==
    /\ (pc = "init" /\ link[k] = "none") \/ (pc = "connect" /\ ~IsConnected(k))
    /\ k = ptr_handle /\ Connected(k)
    /\ mbtcp_htable[k] # NoHandle /\ IsConnected(k)'
    /\ sock'[k] = sock[k] + 1 /\ link'[k] = "up" /\ rx'[k] = {}
TakenForOpen(k) ==
    /\ pc = "connect" /\ k = ptr_handle
    /\ mbtcp_htable[k] # NoHandle /\ ~IsConnected(k) /\ IsConnected(k)'
    /\ sock'[k] = sock[k] /\ link'[k] = link[k]
Reset(k) ==
    /\ ConnectionReset /\ k = ptr_handle
    /\ IsConnected(k) /\ mbtcp_htable'[k] # NoHandle /\ ~IsConnected(k)'
    /\ sock'[k] = sock[k] /\ link'[k] = "broken"

\* What the calls on a handle do to its flag.
LEMMA FlagOf ==
    ASSUME NEW h \in Handle
    PROVE  /\ \A slave : modbus_set_slave(h, slave).connected = h.connected
           /\ \A errno : set_modbus_errno_resp(h, errno).connected =
                            IF errno = "ECONNRESET" THEN FALSE ELSE h.connected
           /\ [h EXCEPT !.connected = TRUE].connected = TRUE
  BY DEF Handle, modbus_set_slave, set_modbus_errno_resp

\* ... and putting one in the table to those of all.
LEMMA FlagReplaced ==
    ASSUME TypeOK, NEW p \in Key, NEW h \in Handle,
           mbtcp_htable' = [mbtcp_htable EXCEPT ![p] = h], NEW k \in Key
    PROVE  /\ k = p => mbtcp_htable'[k] # NoHandle /\ (IsConnected(k)' <=> h.connected)
           /\ k # p => mbtcp_htable'[k] = mbtcp_htable[k]
  BY ConstantsAssumption DEF TypeOK, DaemonOK, IsConnected

\* A step that leaves every flag, and no connection opened, keeps each of them.
LEMMA SameFlag ==
    ASSUME TypeOK, NEW p \in Key, mbtcp_htable[p] \in Handle, NEW h \in Handle,
           h.connected = mbtcp_htable[p].connected,
           mbtcp_htable' = [mbtcp_htable EXCEPT ![p] = h],
           UNCHANGED sock, NEW k \in Key,
           link'[k] = link[k] \/ (link[k] \notin {"none", "broken"} /\ link'[k] \notin {"none", "up"})
    PROVE  Kept(k)
  BY FlagReplaced, ConstantsAssumption DEF Kept, IsConnected, TypeOK, DaemonOK

\* What a step does to a connection: nothing that counts, a new handle, a new socket, a
\* connection found usable, or a reset that clears the flag (modbusd.c:96-104).
LEMMA ConnectionStep ==
    ASSUME TypeOK, FlagInv, [Next]_vars, NEW k \in Key
    PROVE  Kept(k) \/ Created(k) \/ Opened(k) \/ TakenForOpen(k) \/ Reset(k)
  <1>1. /\ link \in [Key -> {"none", "up", "closed", "lost", "timedout", "broken"}]
        /\ sock \in [Key -> Nat] /\ rx \in [Key -> SUBSET ReplyType]
        /\ mbtcp_htable \in [Key -> Handle \cup {NoHandle}]
    BY DEF TypeOK, ContextOK, DaemonOK
  <1>2. ASSUME UNCHANGED <<mbtcp_htable, sock>>,
               link'[k] = link[k] \/ (link[k] \notin {"none", "broken"} /\ link'[k] \notin {"none", "up"})
        PROVE  Kept(k)
    BY <1>2 DEF Kept, IsConnected
  <1>3. CASE mbtcp_init_handle
    <2>1. key \in Key /\ mbtcp_htable[key] = NoHandle
      BY <1>3, CurType, ConstantsAssumption
         DEF mbtcp_init_handle, mbtcp_get_handle, At, TypeOK, InUseOK
    <2>2. PICK h \in Handle : h = NewHandle(Server, tcp_conn_timeout_usec)
      BY <1>3, CurType, NewHandleType DEF mbtcp_init_handle, At, TypeOK, InUseOK, DaemonOK
    <2>4. mbtcp_htable' = [mbtcp_htable EXCEPT ![key] = h]
      BY <1>3, <2>2 DEF mbtcp_init_handle
    <2>5. UNCHANGED sock /\ link' = [link EXCEPT ![key] = "none"]
      BY <1>3 DEF mbtcp_init_handle
    <2>6. CASE k = key
      BY <1>1, <1>3, <2>1, <2>5, <2>6 DEF Created
    <2>7. CASE k # key
      BY <1>1, <2>1, <2>4, <2>5, <2>7, FlagReplaced DEF Kept, IsConnected
    <2> QED BY <2>6, <2>7
  <1>4. ASSUME NEW p \in Key, p = ptr_handle, mbtcp_htable[p] \in Handle, modbus_connect(p),
               (pc = "init" /\ link[p] = "none") \/ (pc = "connect" /\ ~IsConnected(p))
        PROVE  Kept(k) \/ Opened(k) \/ TakenForOpen(k)
    <2>1. PICK h \in Handle : h = [mbtcp_htable[p] EXCEPT !.connected = TRUE]
      BY <1>4, HandleClosed
    <2>2. h.connected /\ mbtcp_htable' = [mbtcp_htable EXCEPT ![p] = h]
      BY <1>4, <2>1, FlagOf DEF modbus_connect, Connected, ConnectKeepsOld
    <2>3. mbtcp_htable[p] # NoHandle
      BY <1>4, ConstantsAssumption
    <2>4. CASE Connected(p)
      <3>1. /\ sock' = [sock EXCEPT ![p] = @ + 1] /\ link' = [link EXCEPT ![p] = "up"]
            /\ rx' = [rx EXCEPT ![p] = {}]
        BY <2>4 DEF Connected
      <3>2. CASE k = p
        <4>1. IsConnected(k)'
          BY <2>2, <3>2, FlagReplaced
        <4>2. sock'[k] = sock[k] + 1 /\ link'[k] = "up" /\ rx'[k] = {}
          BY <1>1, <3>1, <3>2
        <4> QED BY <1>4, <2>3, <2>4, <3>2, <4>1, <4>2 DEF Opened
      <3>3. CASE k # p
        BY <1>1, <2>2, <3>1, <3>3, FlagReplaced DEF Kept, IsConnected
      <3> QED BY <3>2, <3>3
    <2>5. CASE ConnectKeepsOld(p)
      <3>1. UNCHANGED <<sock, link>>
        BY <2>5 DEF ConnectKeepsOld, context
      <3>2. CASE k = p
        <4>1. pc = "connect" /\ ~IsConnected(p)
          BY <1>4, <2>5 DEF ConnectKeepsOld
        <4>2. IsConnected(k)'
          BY <2>2, <3>2, FlagReplaced
        <4> QED BY <1>4, <2>3, <3>1, <3>2, <4>1, <4>2 DEF TakenForOpen
      <3>3. CASE k # p
        BY <2>2, <3>1, <3>3, FlagReplaced DEF Kept, IsConnected
      <3> QED BY <3>2, <3>3
    <2> QED BY <1>4, <2>4, <2>5 DEF modbus_connect
  <1>5. ASSUME NEW p, ConnectFailed(p) PROVE Kept(k)
    BY <1>2, <1>5 DEF ConnectFailed, context
  <1>6. CASE FirstConnect
    <2>1. /\ ptr_handle \in Key /\ mbtcp_htable[ptr_handle] \in Handle
          /\ pc = "init" /\ link[ptr_handle] = "none"
      BY <1>6 DEF FirstConnect, TypeOK, InUseOK, FlagInv, FlagFollows
    <2> QED BY <1>4, <1>5, <1>6, <2>1 DEF FirstConnect
  <1>7. CASE lazy_mbtcp_connect
    <2>1. ptr_handle \in Key /\ mbtcp_htable[ptr_handle] \in Handle
      BY <1>7 DEF lazy_mbtcp_connect, TypeOK, InUseOK
    <2>2. CASE mbtcp_htable[ptr_handle].connected
      BY <1>2, <1>7, <2>2 DEF lazy_mbtcp_connect, context
    <2>3. CASE ~mbtcp_htable[ptr_handle].connected
      <3>1. pc = "connect" /\ ~IsConnected(ptr_handle)
        BY <1>7, <2>3 DEF lazy_mbtcp_connect, IsConnected
      <3> QED BY <1>4, <1>5, <1>7, <2>1, <2>3, <3>1 DEF lazy_mbtcp_connect
    <2> QED BY <2>2, <2>3
  <1>8. CASE TooMany \/ Send
    <2>1. ptr_handle \in Key /\ mbtcp_htable[ptr_handle] \in Handle
      BY <1>8 DEF TooMany, Send, At, TypeOK, InUseOK
    <2>2. mbtcp_htable' =
            [mbtcp_htable EXCEPT ![ptr_handle] = modbus_set_slave(mbtcp_htable[ptr_handle], cur.slave)]
      BY <1>8 DEF TooMany, Send, SetSlave
    <2>3. UNCHANGED <<sock, link>>
      BY <1>8 DEF TooMany, Send, context
    <2> QED BY <2>1, <2>2, <2>3, HandleClosed, FlagOf, SameFlag
  <1>9. CASE SendBroken
    <2>1. ptr_handle \in Key /\ mbtcp_htable[ptr_handle] \in Handle
      BY <1>9 DEF SendBroken, At, TypeOK, InUseOK
    <2>2. PICK g : g = modbus_set_slave(mbtcp_htable[ptr_handle], cur.slave)
      OBVIOUS
    <2>3. g \in Handle /\ g.connected = mbtcp_htable[ptr_handle].connected
      BY <2>1, <2>2, HandleClosed, FlagOf
    <2>4. PICK h : h = set_modbus_errno_resp(g, SendErrno(ptr_handle))
      OBVIOUS
    <2>5. h \in Handle /\ h.connected = mbtcp_htable[ptr_handle].connected
      BY <2>3, <2>4, HandleClosed, FlagOf DEF SendErrno
    <2>6. mbtcp_htable' = [mbtcp_htable EXCEPT ![ptr_handle] = h]
      BY <1>9, <2>2, <2>4 DEF SendBroken
    <2>7. UNCHANGED sock /\ link[ptr_handle] \in Dead
          /\ link' = [link EXCEPT ![ptr_handle] = IF @ = "none" THEN @ ELSE "broken"]
      BY <1>9 DEF SendBroken
    <2>8. link'[k] = link[k] \/ (link[k] \notin {"none", "broken"} /\ link'[k] \notin {"none", "up"})
      BY <1>1, <2>1, <2>7 DEF Dead
    <2> QED BY <2>1, <2>5, <2>6, <2>7, <2>8, SameFlag
  <1>10. ASSUME pc = "wait", NEW errno, errno # "ECONNRESET", NEW from, Fail(errno, from), UNCHANGED sock,
                link'[k] = link[k] \/ (link[k] \notin {"none", "broken"} /\ link'[k] \notin {"none", "up"})
         PROVE  Kept(k)
    <2>1. ptr_handle \in Key /\ mbtcp_htable[ptr_handle] \in Handle
      BY <1>10 DEF TypeOK, InUseOK
    <2>2. PICK h : h = set_modbus_errno_resp(mbtcp_htable[ptr_handle], errno)
      OBVIOUS
    <2>3. h \in Handle /\ h.connected = mbtcp_htable[ptr_handle].connected
      BY <1>10, <2>1, <2>2, HandleClosed, FlagOf
    <2>4. mbtcp_htable' = [mbtcp_htable EXCEPT ![ptr_handle] = h]
      BY <1>10, <2>2 DEF Fail
    <2> QED BY <1>10, <2>1, <2>3, <2>4, SameFlag
  <1>11. ASSUME NEW m \in rx[ptr_handle], pc = "wait", Receive(m) PROVE Kept(k)
    <2>1. UNCHANGED <<sock, link>>
      BY <1>11 DEF Receive
    <2>2. m.status \in Confirmation
      BY <1>1, <1>11 DEF TypeOK, InUseOK, ReplyType
    <2>3. Outcome(m) # "ECONNRESET"
      BY <2>2 DEF Outcome, Confirmation
    <2> QED BY <1>2, <1>10, <1>11, <2>1, <2>3 DEF Receive
  <1>12. CASE ConnectionReset
    <2>1. ptr_handle \in Key /\ mbtcp_htable[ptr_handle] \in Handle
      BY <1>12 DEF ConnectionReset, TypeOK, InUseOK
    <2>2. PICK h : h = set_modbus_errno_resp(mbtcp_htable[ptr_handle], "ECONNRESET")
      OBVIOUS
    <2>3. h \in Handle /\ ~h.connected
      BY <2>1, <2>2, HandleClosed, FlagOf
    <2>4. mbtcp_htable' = [mbtcp_htable EXCEPT ![ptr_handle] = h]
      BY <1>12, <2>2 DEF ConnectionReset, Fail
    <2>5. UNCHANGED sock /\ link' = [link EXCEPT ![ptr_handle] = "broken"]
      BY <1>12 DEF ConnectionReset
    <2>6. CASE k = ptr_handle
      <3>1. IsConnected(k)
        BY <1>12, <2>6 DEF ConnectionReset, FlagInv, FlagFollows
      <3> QED BY <1>1, <1>12, <2>1, <2>3, <2>4, <2>5, <2>6, <3>1, FlagReplaced DEF Reset
    <2>7. CASE k # ptr_handle
      BY <1>1, <2>1, <2>3, <2>4, <2>5, <2>7, FlagReplaced DEF Kept, IsConnected
    <2> QED BY <2>6, <2>7
  <1>13. CASE ResponseTimeout
    <2>1. ptr_handle \in Key /\ UNCHANGED sock
          /\ link' = [link EXCEPT ![ptr_handle] = IF @ \in Dead THEN "broken" ELSE @]
      BY <1>13 DEF ResponseTimeout, TypeOK, InUseOK
    <2>2. link'[k] = link[k] \/ (link[k] \notin {"none", "broken"} /\ link'[k] \notin {"none", "up"})
      BY <1>1, <1>13, <2>1 DEF Dead, ResponseTimeout, FlagInv, FlagFollows
    <2> QED BY <1>10, <1>13, <2>1, <2>2 DEF ResponseTimeout
  <1>14. CASE \/ Recv \/ Stop \/ NullItem \/ Refuse \/ IgnoreRtu \/ mbtcp_set_response_timeout
              \/ FindHandle \/ NoContext \/ Overrun \/ NameOverrun \/ Interrupt \/ UNCHANGED vars
    BY <1>2, <1>14
       DEF Recv, Stop, NullItem, Refuse, IgnoreRtu, mbtcp_set_response_timeout, FindHandle,
           NoContext, Overrun, NameOverrun, Interrupt, vars, daemon, context
  <1>15. ASSUME NEW r \in Request, ClientPublish(r) PROVE Kept(k)
    BY <1>2, <1>15 DEF ClientPublish, daemon, context
  <1>16. ASSUME NEW h \in Key, LinkFault(h) \/ SlaveReturn(h) \/ KernelGivesUp(h)
         PROVE  Kept(k)
    <2>1. UNCHANGED <<mbtcp_htable, sock>>
      BY <1>16 DEF LinkFault, SlaveReturn, KernelGivesUp, daemon
    <2>2. link'[k] = link[k] \/ (link[k] \notin {"none", "broken"} /\ link'[k] \notin {"none", "up"})
      BY <1>1, <1>16 DEF LinkFault, SlaveReturn, KernelGivesUp, Cut
    <2> QED BY <1>2, <2>1, <2>2
  <1>17. ASSUME NEW h \in Key, NEW m \in wire[h], NEW s \in Confirmation, SlaveAnswer(h, m, s)
         PROVE  Kept(k)
    BY <1>2, <1>17 DEF SlaveAnswer, daemon
  <1>18. ASSUME NEW h \in Key, NEW m \in wire[h], NEW did \in BOOLEAN, SlaveSilent(h, m, did)
         PROVE  Kept(k)
    BY <1>2, <1>18 DEF SlaveSilent, daemon, context
  <1> QED
    BY <1>3, <1>6, <1>7, <1>8, <1>9, <1>11, <1>12, <1>13, <1>14, <1>15, <1>16, <1>17, <1>18
       DEF Next, Daemon, Work, Environment

----------------------------------------------------------------------------
\* The flag of a handle, its socket, and where the daemon is.

\* FlagInv is kept.
LEMMA FlagStep ==
    ASSUME TypeOK, FlagInv, [Next]_vars
    PROVE  FlagInv'
  <1>1. ASSUME NEW k \in Key, mbtcp_htable'[k] # NoHandle, ~mbtcp_htable'[k].connected
        PROVE  link'[k] \in {"none", "broken"}
    <2>1. ~IsConnected(k)'
      BY <1>1 DEF IsConnected
    <2>2. CASE Kept(k)
      BY <1>1, <2>1, <2>2 DEF Kept, FlagInv, ConnectedOrBroken
    <2> QED BY <2>1, <2>2, ConnectionStep DEF Created, Opened, TakenForOpen, Reset
  <1>2. ConnectedOrBroken'
    BY <1>1 DEF ConnectedOrBroken, IsConnected
  <1> DEFINE Follows ==
        /\ pc' = "init" => link'[ptr_handle'] = "none"
        /\ pc' \in {"fc", "wait"} =>
             mbtcp_htable'[ptr_handle'] # NoHandle /\ mbtcp_htable'[ptr_handle'].connected
        /\ pc' = "wait" => link'[ptr_handle'] # "none"
  <1>3. ASSUME pc' \notin {"init", "fc", "wait"} PROVE Follows
    BY <1>3
  <1>4. ASSUME UNCHANGED <<pc, ptr_handle, mbtcp_htable>>,
               \A k \in Key : link'[k] = "none" <=> link[k] = "none"
        PROVE  Follows
    BY <1>4 DEF FlagInv, FlagFollows, IsConnected, TypeOK, InUseOK
  <1>5. ASSUME mbtcp_init_handle PROVE Follows
    <2>1. key \in Key /\ ptr_handle' = key /\ pc' = "init"
      BY <1>5, CurType DEF mbtcp_init_handle, At, TypeOK, InUseOK
    <2>2. link'[key] = "none"
      BY <1>5, <2>1 DEF mbtcp_init_handle, TypeOK, ContextOK
    <2> QED BY <2>1, <2>2
  <1>6. ASSUME lazy_mbtcp_connect PROVE Follows
    <2>1. ptr_handle \in Key /\ mbtcp_htable[ptr_handle] \in Handle /\ ptr_handle' = ptr_handle
      BY <1>6 DEF lazy_mbtcp_connect, TypeOK, InUseOK
    <2>2. CASE mbtcp_htable[ptr_handle].connected
      BY <1>6, <2>1, <2>2, ConstantsAssumption DEF lazy_mbtcp_connect
    <2>3. CASE modbus_connect(ptr_handle) /\ pc' = "fc"
      <3>1. PICK h \in Handle : h = [mbtcp_htable[ptr_handle] EXCEPT !.connected = TRUE]
        BY <2>1, HandleClosed
      <3>2. h.connected /\ mbtcp_htable' = [mbtcp_htable EXCEPT ![ptr_handle] = h]
        BY <2>1, <2>3, <3>1, FlagOf DEF modbus_connect, Connected, ConnectKeepsOld
      <3>3. mbtcp_htable'[ptr_handle] = h
        BY <2>1, <3>2 DEF TypeOK, DaemonOK
      <3> QED BY <2>1, <2>3, <3>2, <3>3, ConstantsAssumption
    <2>4. CASE Answer("Connection failed", 0)
      BY <1>3, <2>4 DEF Answer
    <2> QED BY <1>6, <2>2, <2>3, <2>4 DEF lazy_mbtcp_connect
  <1>7. ASSUME Send PROVE Follows
    <2>1. pc = "fc" /\ pc' = "wait" /\ ptr_handle' = ptr_handle /\ ptr_handle \in Key
      BY <1>7 DEF Send, At, TypeOK, InUseOK
    <2>2. PICK k \in Key : k = ptr_handle
      BY <2>1
    <2>3. IsConnected(k)
      BY <2>1, <2>2 DEF FlagInv, FlagFollows
    <2>4. IsConnected(k)'
      BY <2>1, <2>3, ConnectionStep
         DEF Kept, Created, Opened, TakenForOpen, Reset, mbtcp_init_handle, At, ConnectionReset
    <2>5. link'[k] # "none"
      BY <1>7, <2>2 DEF Send, Dead
    <2> QED BY <2>1, <2>2, <2>4, <2>5 DEF IsConnected
  <1>8. ASSUME NEW status, NEW from, Answer(status, from) PROVE Follows
    BY <1>3, <1>8 DEF Answer
  <1>9. ASSUME NEW m, Receive(m) PROVE Follows
    BY <1>8, <1>9 DEF Receive, Fail
  <1>10. ASSUME NEW h \in Key,
                \/ LinkFault(h) \/ SlaveReturn(h) \/ KernelGivesUp(h)
                \/ \E m \in wire[h], s \in Confirmation : SlaveAnswer(h, m, s)
                \/ \E m \in wire[h], did \in BOOLEAN : SlaveSilent(h, m, did)
         PROVE  Follows
    <2>1. \A k \in Key : link'[k] = "none" <=> link[k] = "none"
      BY <1>10
         DEF LinkFault, SlaveReturn, KernelGivesUp, SlaveAnswer, SlaveSilent, context, Cut, TypeOK,
             ContextOK
    <2> QED
      BY <1>4, <1>10, <2>1
         DEF LinkFault, SlaveReturn, KernelGivesUp, SlaveAnswer, SlaveSilent, daemon
  <1>11. Follows
    BY <1>3, <1>4, <1>5, <1>6, <1>7, <1>8, <1>9, <1>10
       DEF Next, Daemon, Work, Environment, Recv, Stop, NullItem, Refuse, IgnoreRtu,
           mbtcp_set_response_timeout, FindHandle, NoContext, FirstConnect, TooMany, Overrun,
           NameOverrun, SendBroken, ConnectionReset, ResponseTimeout, Fail, Interrupt,
           ClientPublish, vars, daemon, context
  <1>12. FlagFollows'
    BY <1>11 DEF FlagFollows, IsConnected
  <1> QED BY <1>2, <1>12 DEF FlagInv

\* The flag of a handle is set while the daemon uses its connection, and clear
\* only where that has no socket or a dead one.
THEOREM FlagInvariant == Spec => []FlagInv
  <1>1. Init => FlagInv
    BY DEF Init, FlagInv, ConnectedOrBroken, FlagFollows, IsConnected
  <1>2. TypeOK /\ FlagInv /\ [Next]_vars => FlagInv'
    BY FlagStep
  <1> QED BY <1>1, <1>2, TypeCorrect, PTL DEF Spec

\* A socket is replaced only when it is dead: none that is still connected is
\* left open at the slave.
THEOREM SocketsAreNotAbandoned == Spec => NoLiveSocketAbandoned
  <1>1. TypeOK /\ FlagInv /\ [Next]_vars =>
          [\A k \in Key : sock'[k] # sock[k] => link[k] \in {"none", "broken"}]_vars
    <2> SUFFICES ASSUME TypeOK, FlagInv, [Next]_vars, NEW k \in Key, sock'[k] # sock[k]
                 PROVE  link[k] \in {"none", "broken"}
      OBVIOUS
    <2> QED
      BY ConnectionStep
         DEF Kept, Created, Opened, TakenForOpen, Reset, FlagInv, ConnectedOrBroken
  <1> QED BY <1>1, TypeCorrect, FlagInvariant, PTL DEF Spec, NoLiveSocketAbandoned

----------------------------------------------------------------------------
\* Where each answer comes from.

AnsweredBy(status) ==
    \/ (Refuse \/ mbtcp_set_response_timeout) /\ ~Transacts(taken)
       /\ status \in {"ok", "unsupport mode", "unsupport request"}
    \/ NoContext /\ status = "init modbus tcp handle fail"
    \/ lazy_mbtcp_connect /\ ~IsConnected(ptr_handle) /\ ConnectFailed(ptr_handle)
       /\ status = "Connection failed"
    \/ TooMany /\ status \in {"Too many", "EMBMDATA"}
    \/ SendBroken /\ status = SendErrno(ptr_handle)
    \/ pc = "wait" /\ \E m \in rx[ptr_handle] : Receive(m) /\ status = Outcome(m)
    \/ ConnectionReset /\ status = "ECONNRESET"
    \/ ResponseTimeout /\ status = "ETIMEDOUT"

\* A request that is answered is the one in hand, by one of these.
LEMMA AnswerKinds ==
    ASSUME TypeOK, [Next]_vars, outbox' # outbox
    PROVE  \E status \in Status, from \in Nat : Answer(status, from) /\ AnsweredBy(status)
  <1>1. ASSUME NEW status \in Status, NEW from \in Nat, Answer(status, from), AnsweredBy(status)
        PROVE  \E s \in Status, f \in Nat : Answer(s, f) /\ AnsweredBy(s)
    BY <1>1
  <1>2. 0 \in Nat /\ taken \in Nat
    BY DEF TypeOK, DaemonOK
  <1>3. {"ok", "unsupport mode", "unsupport request", "init modbus tcp handle fail",
         "Connection failed", "Too many", "EMBMDATA", "ETIMEDOUT", "EPIPE", "EBADF", "ECONNRESET",
         "EMBBADDATA", "EMBXILADD"} \subseteq Status
    BY DEF Status, Errno
  <1>4. CASE Refuse
    <2>1. ~Transacts(taken)
      BY <1>4 DEF Refuse, Transacts, cur, Fc, ReadBits, ReadRegs, SingleWrite, MultiWrite
    <2>2. PICK status \in {"unsupport mode", "unsupport request"} : Answer(status, 0)
      BY <1>4 DEF Refuse
    <2> QED BY <1>1, <1>2, <1>3, <1>4, <2>1, <2>2 DEF AnsweredBy
  <1>5. CASE mbtcp_set_response_timeout
    <2>1. ~Transacts(taken)
      BY <1>5 DEF mbtcp_set_response_timeout, Transacts, cur, Fc, ReadBits, ReadRegs, SingleWrite,
                  MultiWrite
    <2>2. Answer("ok", taken)
      BY <1>5 DEF mbtcp_set_response_timeout
    <2> QED BY <1>1, <1>2, <1>3, <1>5, <2>1, <2>2 DEF AnsweredBy
  <1>6. CASE NoContext
    BY <1>1, <1>2, <1>3, <1>6 DEF NoContext, AnsweredBy
  <1>7. CASE lazy_mbtcp_connect
    <2>1. /\ ~mbtcp_htable[ptr_handle].connected /\ ConnectFailed(ptr_handle)
          /\ Answer("Connection failed", 0)
      BY <1>7 DEF lazy_mbtcp_connect
    <2>2. ~IsConnected(ptr_handle)
      BY <2>1 DEF IsConnected
    <2> QED BY <1>1, <1>2, <1>3, <1>7, <2>1, <2>2 DEF AnsweredBy
  <1>8. CASE TooMany
    <2>1. PICK status \in {"Too many", "EMBMDATA"} : Answer(status, 0)
      BY <1>8 DEF TooMany
    <2> QED BY <1>1, <1>2, <1>3, <1>8, <2>1 DEF AnsweredBy
  <1>9. CASE SendBroken
    <2>1. Answer(SendErrno(ptr_handle), 0) /\ SendErrno(ptr_handle) \in {"EBADF", "ETIMEDOUT", "EPIPE"}
      BY <1>9 DEF SendBroken, SendErrno
    <2> QED BY <1>1, <1>2, <1>3, <1>9, <2>1 DEF AnsweredBy
  <1>10. ASSUME pc = "wait", NEW m \in rx[ptr_handle], Receive(m)
         PROVE  \E s \in Status, f \in Nat : Answer(s, f) /\ AnsweredBy(s)
    <2>1. Answer(Outcome(m), m.id)
      BY <1>10 DEF Receive, Fail
    <2>2. m.id \in Nat /\ m.status \in Confirmation
      BY <1>10 DEF TypeOK, InUseOK, ContextOK, ReplyType
    <2>3. Outcome(m) \in Status
      BY <1>3, <2>2 DEF Outcome, Confirmation
    <2> QED BY <1>1, <1>10, <2>1, <2>2, <2>3 DEF AnsweredBy
  <1>11. CASE ConnectionReset
    BY <1>1, <1>2, <1>3, <1>11 DEF ConnectionReset, Fail, AnsweredBy
  <1>12. CASE ResponseTimeout
    BY <1>1, <1>2, <1>3, <1>12 DEF ResponseTimeout, Fail, AnsweredBy
  <1> QED
    BY <1>4, <1>5, <1>6, <1>7, <1>8, <1>9, <1>10, <1>11, <1>12
       DEF Next, Daemon, Work, Environment, Recv, Stop, NullItem, IgnoreRtu, FindHandle,
           mbtcp_init_handle, FirstConnect, Overrun, NameOverrun, Send, Interrupt, ClientPublish,
           LinkFault, SlaveReturn, KernelGivesUp, SlaveAnswer, SlaveSilent, vars, daemon

\* What it adds to the outbox.
LEMMA AnswerAppends ==
    ASSUME TypeOK, taken > 0, NEW status \in Status, NEW from \in Nat, Answer(status, from)
    PROVE  /\ Len(outbox) \in Nat /\ Len(outbox') = Len(outbox) + 1
           /\ \A i \in 1 .. Len(outbox) : outbox'[i] = outbox[i]
           /\ outbox'[Len(outbox) + 1].id = taken
           /\ outbox'[Len(outbox) + 1].status = status
  <1>1. PICK a : a = [id |-> taken, tid |-> cur.tid, status |-> status, from |-> from]
    OBVIOUS
  <1>2. outbox' = Append(outbox, a) /\ outbox \in Seq(AnswerType)
    BY <1>1 DEF Answer, TypeOK, DaemonOK
  <1> QED BY <1>1, <1>2

\* The request in hand, wherever one is answered.
LEMMA AnsweredInHand ==
    ASSUME TypeOK, NEW status, AnsweredBy(status)
    PROVE  taken > 0 /\ taken \in Id /\ pc \notin {"recv", "stopped"}
  <1>1. pc \notin {"recv", "stopped"}
    BY DEF AnsweredBy, Refuse, mbtcp_set_response_timeout, NoContext, lazy_mbtcp_connect, TooMany,
           SendBroken, ConnectionReset, ResponseTimeout, At
  <1> QED BY <1>1 DEF TypeOK, InUseOK, DaemonOK, Id

----------------------------------------------------------------------------
\* A broken pipe.

Broken(k) == IsConnected(k) /\ link[k] = "broken" /\ ~Waits(k)

\* Once the daemon has noticed it, nothing changes it.
LEMMA BrokenStep ==
    ASSUME TypeOK, FlagInv, [Next]_vars, NEW k \in Key, Broken(k)
    PROVE  Broken(k)'
  <1>1. IsConnected(k) /\ link[k] = "broken" /\ ~Waits(k) /\ mbtcp_htable[k] # NoHandle
    BY DEF Broken, IsConnected
  <1>2. Kept(k)
    BY <1>1, ConnectionStep DEF Created, Opened, TakenForOpen, Reset, ConnectionReset, Waits
  <1>3. IsConnected(k)' /\ link'[k] = "broken"
    BY <1>1, <1>2 DEF Kept
  <1>4. ~(pc' = "wait" /\ ptr_handle' = k)
    <2>1. CASE UNCHANGED <<pc, ptr_handle>>
      BY <1>1, <2>1 DEF Waits
    <2>2. CASE Send
      BY <1>1, <2>2 DEF Send, Dead
    <2>3. CASE pc' # "wait"
      BY <2>3
    <2>4. ASSUME NEW status, NEW from, Answer(status, from) PROVE pc' # "wait"
      BY <2>4 DEF Answer
    <2>5. ASSUME NEW m, Receive(m) PROVE pc' # "wait"
      BY <2>4, <2>5 DEF Receive, Fail
    <2> QED
      BY <2>1, <2>2, <2>3, <2>4, <2>5
         DEF Next, Daemon, Work, Environment, Recv, Stop, NullItem, Refuse, IgnoreRtu,
             mbtcp_set_response_timeout, FindHandle, mbtcp_init_handle, NoContext, FirstConnect,
             lazy_mbtcp_connect, TooMany, Overrun, NameOverrun, SendBroken, ConnectionReset,
             ResponseTimeout, Fail, Interrupt, ClientPublish, LinkFault, SlaveReturn,
             KernelGivesUp, SlaveAnswer, SlaveSilent, vars, daemon
  <1> QED BY <1>3, <1>4 DEF Broken, Waits

\* NoHandle, which ptr_handle is before a handle is found, is no key.
LEMMA KeyIsNoHandle == NoHandle \notin Key
  BY ConstantsAssumption

\* With it, every answer of a transaction is a broken pipe again, unless the library
\* refuses the request before it sends.
LEMMA BrokenAnswers ==
    ASSUME TypeOK, FlagInv, AtHome, [Next]_vars, NEW status, AnsweredBy(status),
           Transacts(taken), Broken(KeyAt(taken))
    PROVE  status \in {"EPIPE", "Too many", "EMBMDATA"}
  <1> DEFINE k == KeyAt(taken)
  <1>1. k = key /\ (pc \in AtSlave => ptr_handle = k) /\ k \in Key
    BY AnsweredInHand, CurType DEF AtHome, key, cur, Server, KeyAt, EndpointOf
  <1>2. IsConnected(k) /\ link[k] = "broken" /\ ~Waits(k) /\ mbtcp_htable[k] # NoHandle
    BY DEF Broken, IsConnected
  <1>3. ~NoContext
    BY <1>1, <1>2, KeyIsNoHandle DEF NoContext, mbtcp_get_handle
  <1>4. pc # "wait"
    BY <1>1, <1>2 DEF Waits, AtSlave
  <1>5. SendBroken => SendErrno(ptr_handle) = "EPIPE"
    BY <1>1, <1>2 DEF SendBroken, SendErrno, At, AtSlave
  <1>6. lazy_mbtcp_connect => IsConnected(ptr_handle)
    BY <1>1, <1>2 DEF lazy_mbtcp_connect, AtSlave
  <1> QED BY <1>3, <1>4, <1>5, <1>6 DEF AnsweredBy, ConnectionReset, ResponseTimeout

\* BrokenInv is kept: no step repairs a connection the kernel has given up, and no
\* answer about it is anything but a broken pipe or a refusal before sending.
LEMMA BrokenInvStep ==
    ASSUME TypeOK, FlagInv, ExecutionInv, BrokenInv, [Next]_vars
    PROVE  BrokenInv'
  <1>1. AtHome /\ AnsweredTaken /\ outbox \in Seq(AnswerType)
    BY DEF ExecutionInv, TypeOK, DaemonOK
  <1>2. \A i \in 1 .. Len(outbox) : outbox[i].id \in Id
    BY <1>1 DEF AnsweredTaken, RangeOf
  <1>3. \A id \in Id : KeyAt(id) \in Key
    BY KeyAtType
  <1>4. \A i \in 1 .. Len(outbox) : outbox[i].status = "EPIPE" => Broken(KeyAt(outbox[i].id))
    BY DEF BrokenInv, BrokenStays, RangeOf, Broken
  <1> DEFINE BrokenAt(k) == /\ mbtcp_htable'[k] # NoHandle /\ mbtcp_htable'[k].connected
                            /\ link'[k] = "broken" /\ ~(pc' = "wait" /\ ptr_handle' = k)
  <1>5. ASSUME NEW k \in Key, Broken(k) PROVE BrokenAt(k)
    BY <1>5, BrokenStep DEF Broken, IsConnected, Waits
  <1> DEFINE Where(id) == KeyOf[<<published'[id].ip, published'[id].port>>]
             Acts(id) == published'[id].mode = "tcp" /\ published'[id].cmd \in Fc
             Ends(i) == outbox'[i].status = "EPIPE" => BrokenAt(Where(outbox'[i].id))
             Again(i, j) ==
               /\ i < j /\ outbox'[i].status = "EPIPE"
               /\ Acts(outbox'[j].id) /\ Where(outbox'[i].id) = Where(outbox'[j].id)
               => outbox'[j].status \in {"EPIPE", "Too many", "EMBMDATA"}
  <1>6. \A id \in Id : Where(id) = KeyAt(id) /\ (Acts(id) <=> Transacts(id))
    BY PublishedStays DEF KeyAt, EndpointOf, Transacts
  <1>7. ASSUME NEW i \in 1 .. Len(outbox), outbox'[i] = outbox[i] PROVE Ends(i)
    BY <1>2, <1>3, <1>4, <1>5, <1>6, <1>7
  <1>8. ASSUME NEW i \in 1 .. Len(outbox), NEW j \in 1 .. Len(outbox),
               outbox'[i] = outbox[i], outbox'[j] = outbox[j]
        PROVE  Again(i, j)
    BY <1>2, <1>6, <1>8 DEF BrokenInv, BrokenForGood
  <1>9. ASSUME \A i \in 1 .. Len(outbox') : Ends(i), \A i, j \in 1 .. Len(outbox') : Again(i, j)
        PROVE  BrokenInv'
    <2>1. BrokenStays'
      BY <1>9 DEF BrokenStays, RangeOf, IsConnected, Waits, KeyAt, EndpointOf
    <2>2. BrokenForGood'
      BY <1>9 DEF BrokenForGood, Transacts, KeyAt, EndpointOf
    <2> QED BY <2>1, <2>2 DEF BrokenInv
  <1>10. CASE outbox' = outbox
    <2>1. \A i \in 1 .. Len(outbox') : Ends(i)
      BY <1>7, <1>10
    <2>2. \A i, j \in 1 .. Len(outbox') : Again(i, j)
      BY <1>8, <1>10
    <2> QED BY <1>9, <2>1, <2>2
  <1>11. CASE outbox' # outbox
    <2>1. PICK status \in Status, from \in Nat : Answer(status, from) /\ AnsweredBy(status)
      BY <1>11, AnswerKinds
    <2>2. taken > 0 /\ taken \in Id
      BY <2>1, AnsweredInHand
    <2> DEFINE n == Len(outbox) + 1
    <2>3. /\ Len(outbox) \in Nat /\ Len(outbox') = n
          /\ \A i \in 1 .. Len(outbox) : outbox'[i] = outbox[i]
          /\ outbox'[n].id = taken /\ outbox'[n].status = status
      BY <2>1, <2>2, AnswerAppends
    <2>4. Ends(n)
      <3>1. SUFFICES ASSUME status = "EPIPE" PROVE BrokenAt(KeyAt(taken))
        BY <1>6, <2>2, <2>3
      <3>2. SendBroken /\ SendErrno(ptr_handle) = "EPIPE"
        BY <2>1, <3>1 DEF AnsweredBy, Outcome, TypeOK, InUseOK, ContextOK, ReplyType, Confirmation
      <3>3. pc = "fc" /\ link[ptr_handle] = "broken"
        BY <3>2 DEF SendBroken, SendErrno, Dead, At
      <3>4. ptr_handle = KeyAt(taken)
        BY <1>1, <3>3 DEF AtHome, AtSlave, key, cur, Server, KeyAt, EndpointOf
      <3>5. Broken(KeyAt(taken))
        BY <3>3, <3>4 DEF Broken, Waits, FlagInv, FlagFollows
      <3> QED BY <1>3, <1>5, <2>2, <3>5
    <2>5. ASSUME NEW i \in 1 .. Len(outbox) PROVE Again(i, n)
      <3>1. SUFFICES ASSUME outbox[i].status = "EPIPE", Transacts(taken),
                            KeyAt(outbox[i].id) = KeyAt(taken)
                     PROVE  status \in {"EPIPE", "Too many", "EMBMDATA"}
        BY <1>2, <1>6, <2>2, <2>3
      <3> QED BY <1>1, <1>4, <2>1, <3>1, BrokenAnswers
    <2>6. \A i \in 1 .. Len(outbox') : i = n \/ i \in 1 .. Len(outbox)
      BY <2>3
    <2>7. \A i \in 1 .. Len(outbox') : Ends(i)
      BY <1>7, <2>3, <2>4, <2>6
    <2>8. ASSUME NEW i \in 1 .. Len(outbox'), NEW j \in 1 .. Len(outbox') PROVE Again(i, j)
      <3>1. CASE i = n
        <4>1. ~(i < j)
          BY <2>3, <2>8, <3>1
        <4> QED BY <4>1
      <3>2. CASE i # n
        BY <1>8, <2>3, <2>5, <2>6, <2>8, <3>2
      <3> QED BY <3>1, <3>2
    <2> QED BY <1>9, <2>7, <2>8
  <1> QED BY <1>10, <1>11

\* A connection reported as a broken pipe is never used for a transaction again,
\* and never replaced.
THEOREM BrokenIsForGood == Spec => []BrokenForGood
  <1>1. Init => BrokenInv
    BY DEF Init, BrokenInv, BrokenStays, BrokenForGood, RangeOf
  <1>2. TypeOK /\ FlagInv /\ ExecutionInv /\ BrokenInv /\ [Next]_vars => BrokenInv'
    BY BrokenInvStep
  <1>3. BrokenInv => BrokenForGood
    BY DEF BrokenInv
  <1> QED BY <1>1, <1>2, <1>3, TypeCorrect, FlagInvariant, ExecutionInvariant, PTL DEF Spec

----------------------------------------------------------------------------
\* Timeouts and resets.

\* An answer that reports a timeout of k.
TimedOut(k) ==
    /\ ptr_handle = k
    /\ (SendBroken /\ SendErrno(ptr_handle) = "ETIMEDOUT") \/ ResponseTimeout
\* ... and a reset.
FoundReset(k) == ptr_handle = k /\ ConnectionReset

\* What an answer adds to the history of k.
LEMMA GaveUpAfterAnswer ==
    ASSUME TypeOK, ExecutionInv, [Next]_vars, taken \in Id, taken > 0,
           NEW status \in Status, NEW from \in Nat, Answer(status, from), NEW k, NEW first
    PROVE  GaveUp(k, first)' <=>
             IF KeyAt(taken) = k
             THEN \/ status = "ETIMEDOUT" /\ first = taken
                  \/ GaveUp(k, first) /\ status # "ECONNRESET"
             ELSE GaveUp(k, first)
  <1> DEFINE n == Len(outbox) + 1
             On2(i, s) == /\ outbox'[i].status = s
                          /\ KeyOf[<<published'[outbox'[i].id].ip, published'[outbox'[i].id].port>>] = k
  <1>1. /\ Len(outbox) \in Nat /\ Len(outbox') = n
        /\ \A i \in 1 .. Len(outbox) : outbox'[i] = outbox[i]
        /\ outbox'[n].id = taken /\ outbox'[n].status = status
    BY AnswerAppends
  <1>2. \A i \in 1 .. Len(outbox) : outbox[i].id \in Id
    BY DEF ExecutionInv, AnsweredTaken, RangeOf
  <1>3. \A s : \A i \in 1 .. Len(outbox) : On2(i, s) <=> On(k, i, s)
    BY <1>1, <1>2, PublishedStays DEF On, KeyAt, EndpointOf
  <1>4. \A s : On2(n, s) <=> status = s /\ KeyAt(taken) = k
    BY <1>1, PublishedStays DEF KeyAt, EndpointOf
  <1>5. GaveUp(k, first)' <=>
          \E i \in 1 .. n : /\ outbox'[i].id = first /\ On2(i, "ETIMEDOUT")
                            /\ \A j \in i + 1 .. n : ~On2(j, "ECONNRESET")
    BY <1>1 DEF GaveUp, On, KeyAt, EndpointOf
  <1> HIDE DEF On2
  <1>6. CASE KeyAt(taken) = k /\ status = "ECONNRESET"
    <2>1. On2(n, "ECONNRESET") /\ ~On2(n, "ETIMEDOUT")
      BY <1>4, <1>6
    <2>2. ASSUME NEW i \in 1 .. n, On2(i, "ETIMEDOUT") PROVE n \in i + 1 .. n
      BY <1>1, <2>1, <2>2
    <2> QED BY <1>5, <1>6, <2>1, <2>2
  <1>7. CASE ~(KeyAt(taken) = k /\ status = "ECONNRESET")
    <2>1. ~On2(n, "ECONNRESET")
      BY <1>4, <1>7
    <2>2. \A i \in 1 .. n : i = n \/ i \in 1 .. Len(outbox)
      BY <1>1
    <2>3. ASSUME NEW i \in 1 .. Len(outbox)
          PROVE  (\A j \in i + 1 .. n : ~On2(j, "ECONNRESET"))
                   <=> (\A j \in i + 1 .. Len(outbox) : ~On(k, j, "ECONNRESET"))
      <3>1. \A j \in i + 1 .. n : j = n \/ j \in i + 1 .. Len(outbox)
        BY <1>1
      <3>2. \A j \in i + 1 .. Len(outbox) : j \in i + 1 .. n /\ j \in 1 .. Len(outbox)
        BY <1>1
      <3> QED BY <1>3, <2>1, <3>1, <3>2
    <2>4. n \in 1 .. n /\ \A j \in n + 1 .. n : FALSE
      BY <1>1
    <2>5. \A i \in 1 .. Len(outbox) : i \in 1 .. n
      BY <1>1
    <2>6. GaveUp(k, first)' <=>
            (GaveUp(k, first) \/ (On2(n, "ETIMEDOUT") /\ taken = first))
      <3>1. ASSUME GaveUp(k, first) PROVE GaveUp(k, first)'
        <4>1. PICK i \in 1 .. Len(outbox) : /\ outbox[i].id = first /\ On(k, i, "ETIMEDOUT")
                                            /\ \A j \in i + 1 .. Len(outbox) : ~On(k, j, "ECONNRESET")
          BY <3>1 DEF GaveUp
        <4> QED BY <1>1, <1>3, <1>5, <2>3, <2>5, <4>1
      <3>2. ASSUME On2(n, "ETIMEDOUT"), taken = first PROVE GaveUp(k, first)'
        BY <1>1, <1>5, <2>4, <3>2
      <3>3. ASSUME GaveUp(k, first)' PROVE GaveUp(k, first) \/ (On2(n, "ETIMEDOUT") /\ taken = first)
        <4>1. PICK i \in 1 .. n : /\ outbox'[i].id = first /\ On2(i, "ETIMEDOUT")
                                  /\ \A j \in i + 1 .. n : ~On2(j, "ECONNRESET")
          BY <1>5, <3>3
        <4>2. CASE i = n
          BY <1>1, <4>1, <4>2
        <4>3. CASE i \in 1 .. Len(outbox)
          BY <1>1, <1>3, <2>3, <4>1, <4>3 DEF GaveUp
        <4> QED BY <2>2, <4>2, <4>3
      <3> QED BY <3>1, <3>2, <3>3
    <2> QED BY <1>4, <1>7, <2>6
  <1> QED BY <1>6, <1>7

\* An endpoint gets out of step by an answer ETIMEDOUT and back by one that
\* reports a reset.
LEMMA GaveUpStep ==
    ASSUME TypeOK, ExecutionInv, [Next]_vars, NEW k \in Key, NEW first
    PROVE  GaveUp(k, first)' <=>
             (TimedOut(k) /\ first = taken) \/ (GaveUp(k, first) /\ ~FoundReset(k))
  <1> USE DEF ExecutionInv
  <1>1. ASSUME NEW status \in {"ETIMEDOUT", "ECONNRESET"}, Answer(status, 0), ptr_handle = k,
               AnsweredBy(status), pc \in AtSlave
        PROVE  GaveUp(k, first)' <=> \/ status = "ETIMEDOUT" /\ first = taken
                                     \/ GaveUp(k, first) /\ status # "ECONNRESET"
    <2>1. taken \in Id /\ taken > 0 /\ status \in Status /\ 0 \in Nat
      BY <1>1, AnsweredInHand DEF Status, Errno
    <2>2. KeyAt(taken) = k
      BY <1>1 DEF AtHome, key, cur, Server, KeyAt, EndpointOf
    <2> QED BY <1>1, <2>1, <2>2, GaveUpAfterAnswer
  <1>2. CASE TimedOut(k)
    <2>1. Answer("ETIMEDOUT", 0) /\ AnsweredBy("ETIMEDOUT") /\ pc \in AtSlave
      BY <1>2 DEF TimedOut, AnsweredBy, SendBroken, ResponseTimeout, Fail, At, AtSlave
    <2>2. ~FoundReset(k)
      BY <1>2 DEF FoundReset, TimedOut, ConnectionReset, ResponseTimeout, SendBroken, At
    <2> QED BY <1>1, <1>2, <2>1, <2>2 DEF TimedOut
  <1>3. CASE FoundReset(k)
    <2>1. Answer("ECONNRESET", 0) /\ AnsweredBy("ECONNRESET") /\ pc \in AtSlave
      BY <1>3 DEF FoundReset, AnsweredBy, ConnectionReset, Fail, AtSlave
    <2>2. ~TimedOut(k)
      BY <1>3 DEF FoundReset, TimedOut, ConnectionReset, ResponseTimeout, SendBroken, At
    <2> QED BY <1>1, <1>3, <2>1, <2>2 DEF FoundReset
  <1>4. CASE ~TimedOut(k) /\ ~FoundReset(k) /\ outbox' = outbox
    <2>1. \A i \in 1 .. Len(outbox) : outbox[i].id \in Id
      BY DEF AnsweredTaken, RangeOf
    <2>2. \A i \in 1 .. Len(outbox) : published'[outbox[i].id] = published[outbox[i].id]
      BY <2>1, PublishedStays
    <2>3. \A i \in 1 .. Len(outbox) : \A j \in i + 1 .. Len(outbox) : j \in 1 .. Len(outbox)
      BY DEF TypeOK, DaemonOK
    <2> DEFINE On2(i, s) ==
                 /\ outbox'[i].status = s
                 /\ KeyOf[<<published'[outbox'[i].id].ip, published'[outbox'[i].id].port>>] = k
    <2>4. \A s : \A i \in 1 .. Len(outbox) : On2(i, s) <=> On(k, i, s)
      BY <1>4, <2>2 DEF On, KeyAt, EndpointOf
    <2>5. GaveUp(k, first)' <=>
            \E i \in 1 .. Len(outbox') :
                /\ outbox'[i].id = first /\ On2(i, "ETIMEDOUT")
                /\ \A j \in i + 1 .. Len(outbox') : ~On2(j, "ECONNRESET")
      BY DEF GaveUp, On, KeyAt, EndpointOf
    <2> HIDE DEF On2
    <2>6. GaveUp(k, first)' <=> GaveUp(k, first)
      BY <1>4, <2>3, <2>4, <2>5 DEF GaveUp
    <2> QED BY <1>4, <2>6
  <1>5. CASE ~TimedOut(k) /\ ~FoundReset(k) /\ outbox' # outbox
    <2>1. PICK status \in Status, from \in Nat : Answer(status, from) /\ AnsweredBy(status)
      BY <1>5, AnswerKinds
    <2>2. taken > 0 /\ taken \in Id /\ pc \notin {"recv", "stopped"}
      BY <2>1, AnsweredInHand
    <2>3. ASSUME KeyAt(taken) = k PROVE status \notin {"ETIMEDOUT", "ECONNRESET"}
      <3>1. pc \in AtSlave => ptr_handle = k
        BY <2>3 DEF AtHome, key, cur, Server, KeyAt, EndpointOf
      <3>2. \A m \in rx[ptr_handle] : pc = "wait" => Outcome(m) \notin {"ETIMEDOUT", "ECONNRESET"}
        BY DEF Outcome, TypeOK, InUseOK, ContextOK, ReplyType, Confirmation
      <3>3. SendErrno(ptr_handle) # "ECONNRESET"
        BY DEF SendErrno
      <3> QED
        BY <1>5, <2>1, <3>1, <3>2, <3>3
           DEF AnsweredBy, TimedOut, FoundReset, AtSlave, SendBroken, ConnectionReset,
               ResponseTimeout, At
    <2> QED BY <1>5, <2>1, <2>2, <2>3, GaveUpAfterAnswer
  <1> QED BY <1>2, <1>3, <1>4, <1>5

\* What was given up had been taken, and is not in hand.
LEMMA GaveUpTaken ==
    ASSUME TypeOK, ExecutionInv, NEW k, NEW first, GaveUp(k, first)
    PROVE  first \in Id /\ first <= taken /\ taken \in Nat
           /\ (pc \notin {"recv", "stopped"} => first < taken)
  BY DEF GaveUp, ExecutionInv, AnsweredTaken, RangeOf, Id, TypeOK, DaemonOK

\* Nothing unanswered is forgotten.
LEMMA SilentGrows ==
    ASSUME TypeOK, [Next]_vars, NEW k \in Key
    PROVE  \/ silent'[k] = silent[k]
           \/ \E m \in wire[k], did \in BOOLEAN :
                SlaveSilent(k, m, did) /\ silent'[k] = silent[k] \cup {m.id}
  <1>1. silent \in [Key -> SUBSET Nat]
    BY DEF TypeOK, SlavesOK
  <1>2. ASSUME NEW h \in Key, NEW m \in wire[h], NEW did \in BOOLEAN, SlaveSilent(h, m, did)
        PROVE  \/ silent'[k] = silent[k]
               \/ \E n \in wire[k], d \in BOOLEAN :
                    SlaveSilent(k, n, d) /\ silent'[k] = silent[k] \cup {n.id}
    BY <1>1, <1>2 DEF SlaveSilent
  <1>3. CASE UNCHANGED silent
    BY <1>3
  <1> QED
    BY <1>2, <1>3
       DEF Next, Daemon, Work, Environment, Recv, Stop, NullItem, Refuse, IgnoreRtu,
           mbtcp_set_response_timeout, NameOverrun, FindHandle, mbtcp_init_handle, NoContext,
           FirstConnect, lazy_mbtcp_connect, TooMany, Overrun, SendBroken, Send, Receive,
           ConnectionReset, ResponseTimeout, Interrupt, ClientPublish, LinkFault, SlaveReturn,
           KernelGivesUp, SlaveAnswer, vars, slaves

\* A request is left unanswered after it was sent.
LEMMA SilentSentStep ==
    ASSUME TypeOK, ExecutionInv, [Next]_vars, NEW k \in Key, SilentSent(k)
    PROVE  SilentSent(k)'
  <1>1. Id \subseteq Id' /\ taken \in Nat /\ (taken' # taken => Recv)
    <2>1. CASE Recv
      BY <2>1 DEF Recv, Id, TypeOK, DaemonOK
    <2>2. taken' = taken \/ Recv
      BY StepKinds DEF Quiet, Answering, Send, SlaveTook, daemon
    <2> QED BY <2>1, <2>2 DEF Id, TypeOK, DaemonOK
  <1>2. ASSUME NEW id \in silent[k] PROVE id \in Id' /\ (pc' \in Before => id # taken')
    <2>1. id \in Id /\ (pc \in Before => id # taken)
      BY DEF SilentSent
    <2>2. CASE Recv
      BY <1>1, <2>1, <2>2 DEF Recv, Id
    <2>3. CASE ~Recv /\ (pc' \in Before => pc \in Before)
      BY <1>1, <2>1, <2>3
    <2>4. Recv \/ (pc' \in Before => pc \in Before)
      <3>1. ASSUME NEW status, NEW from, Answer(status, from) PROVE pc' \notin Before
        BY <3>1 DEF Answer, Before
      <3>2. Send => pc' \notin Before
        BY DEF Send, Before
      <3>3. ASSUME NEW h, NEW m, NEW did, SlaveTook(h, m, did) PROVE pc' = pc
        BY <3>3 DEF SlaveTook, daemon
      <3> QED BY <3>1, <3>2, <3>3, StepKinds DEF Quiet, Answering
    <2> QED BY <2>2, <2>3, <2>4
  <1>3. ASSUME NEW m \in wire[k], NEW did \in BOOLEAN, SlaveSilent(k, m, did)
        PROVE  m.id \in Id' /\ (pc' \in Before => m.id # taken')
    <2>1. m.id \in Id /\ (pc \in Before => m.id # taken)
      BY DEF ExecutionInv, WireAddressed, Addressed, SentAfter, Unsent
    <2> QED BY <1>1, <1>3, <2>1 DEF SlaveSilent, daemon
  <1> QED BY <1>2, <1>3, SilentGrows DEF SilentSent, Id

----------------------------------------------------------------------------
\* What a step can do to the messages of one connection.

\* Nothing, but that messages of a connection that does not stand may be lost.
Idle(k) ==
    /\ sock'[k] = sock[k] /\ t_id'[k] = t_id[k]
    /\ Waits(k)' <=> Waits(k)
    /\ Waits(k) => taken' = taken
    /\ IsConnected(k) => IsConnected(k)'
    /\ link'[k] = "none" => link[k] = "none"
    /\ silent[k] \subseteq silent'[k]
    /\ wire'[k] \subseteq wire[k]
    /\ IF link'[k] = "up"
       THEN link[k] = "up" /\ rx'[k] = rx[k] /\ Current(k)' = Current(k)
       ELSE rx'[k] \in {rx[k], {}}

\* The slave answers on the socket the context holds.
Delivers(k) ==
    link[k] = "up" /\ \E m \in Current(k), s \in Confirmation : SlaveAnswer(k, m, s)

\* ... or says nothing to a request it got on that.
KeepsSilent(k) ==
    link[k] = "up" /\ \E m \in Current(k), did \in BOOLEAN : SlaveSilent(k, m, did)

\* The steps of the daemon that touch the connection of k.
Touches(k) ==
    \/ mbtcp_init_handle /\ k = key
    \/ k = ptr_handle /\
        \/ /\ ~IsConnected(k) \/ link[k] = "none"
           /\ pc' # "wait" /\ Connected(k) /\ UNCHANGED wire
        \/ Send \/ SendBroken \/ ConnectionReset \/ ResponseTimeout
        \/ pc = "wait" /\ \E m \in rx[k] : Receive(m)

\* A flag is cleared by a reset only.
LEMMA FlagStays ==
    ASSUME TypeOK, FlagInv, [Next]_vars, NEW k \in Key, IsConnected(k), ~FoundReset(k)
    PROVE  IsConnected(k)'
  BY ConnectionStep
     DEF Kept, Created, Opened, TakenForOpen, Reset, FoundReset, IsConnected

\* What a step does to the messages of an endpoint: it drops some, delivers one, or
\* is a step of the daemon at this endpoint.
LEMMA MessageKinds ==
    ASSUME TypeOK, FlagInv, [Next]_vars, NEW k \in Key
    PROVE  Idle(k) \/ Delivers(k) \/ KeepsSilent(k) \/ Touches(k)
  <1>1. /\ link \in [Key -> {"none", "up", "closed", "lost", "timedout", "broken"}]
        /\ sock \in [Key -> Nat] /\ t_id \in [Key -> Nat]
        /\ rx \in [Key -> SUBSET ReplyType] /\ wire \in [Key -> SUBSET PduType]
    BY DEF TypeOK, ContextOK, SlavesOK
  <1>2. SUFFICES ASSUME ~FoundReset(k)
                 PROVE  Idle(k) \/ Delivers(k) \/ KeepsSilent(k) \/ Touches(k)
    BY DEF FoundReset, Touches
  <1>3. /\ IsConnected(k) => IsConnected(k)'
        /\ silent[k] \subseteq silent'[k]
        /\ Waits(k) => taken' = taken
    <2>1. Waits(k) => taken' = taken
      BY StepKinds DEF Waits, Quiet, Answering, Recv, Send, SlaveTook, daemon
    <2> QED BY <1>2, <2>1, FlagStays, SilentGrows
  <1>4. ASSUME link'[k] = link[k], sock'[k] = sock[k], t_id'[k] = t_id[k], rx'[k] = rx[k],
               wire'[k] = wire[k], Waits(k)' <=> Waits(k)
        PROVE  Idle(k)
    BY <1>3, <1>4 DEF Idle, Current
  <1>5. ASSUME UNCHANGED <<context, wire>>,
               UNCHANGED <<pc, ptr_handle>> \/ (pc # "wait" /\ pc' # "wait")
        PROVE  Idle(k)
    <2>1. Waits(k)' <=> Waits(k)
      BY <1>5 DEF Waits
    <2> QED BY <1>4, <1>5, <2>1 DEF context
  <1>6. ASSUME NEW status, NEW from, Answer(status, from) PROVE pc' # "wait"
    BY <1>6 DEF Answer
  <1>7. CASE Recv \/ Stop \/ NullItem \/ IgnoreRtu \/ NameOverrun \/ FindHandle \/ Overrun
    BY <1>5, <1>7
       DEF Recv, Stop, NullItem, IgnoreRtu, NameOverrun, FindHandle, Overrun, At, slaves
  <1>8. CASE Refuse \/ mbtcp_set_response_timeout \/ NoContext \/ TooMany
    BY <1>5, <1>6, <1>8
       DEF Refuse, mbtcp_set_response_timeout, NoContext, TooMany, At, slaves
  <1>9. CASE Interrupt \/ UNCHANGED vars \/ \E r \in Request : ClientPublish(r)
    BY <1>5, <1>9 DEF Interrupt, ClientPublish, vars, daemon, slaves
  <1>10. CASE mbtcp_init_handle
    <2>1. CASE k = key
      BY <1>10, <2>1 DEF Touches
    <2>2. CASE k # key
      <3>1. Waits(k)' <=> Waits(k)
        BY <1>10 DEF mbtcp_init_handle, At, Waits
      <3>2. link'[k] = link[k] /\ sock'[k] = sock[k] /\ t_id'[k] = t_id[k] /\ rx'[k] = rx[k]
            /\ wire'[k] = wire[k]
        BY <1>1, <1>10, <2>2 DEF mbtcp_init_handle, slaves
      <3> QED BY <1>4, <3>1, <3>2
    <2> QED BY <2>1, <2>2
  <1>11. CASE FirstConnect \/ lazy_mbtcp_connect
    <2>1. /\ ptr_handle \in Key /\ UNCHANGED wire /\ pc # "wait" /\ pc' # "wait"
      BY <1>11 DEF FirstConnect, lazy_mbtcp_connect, slaves, Answer, TypeOK, InUseOK
    <2>2. \/ UNCHANGED context
          \/ /\ Connected(ptr_handle)
             /\ ~IsConnected(ptr_handle) \/ link[ptr_handle] = "none"
      BY <1>11 DEF FirstConnect, lazy_mbtcp_connect, modbus_connect, ConnectKeepsOld,
                   ConnectFailed, FlagInv, FlagFollows, IsConnected
    <2>3. CASE UNCHANGED context
      BY <1>5, <2>1, <2>3
    <2>4. CASE /\ Connected(ptr_handle) /\ k = ptr_handle
               /\ ~IsConnected(ptr_handle) \/ link[ptr_handle] = "none"
      BY <2>1, <2>4 DEF Touches
    <2>5. CASE Connected(ptr_handle) /\ k # ptr_handle
      <3>1. link'[k] = link[k] /\ sock'[k] = sock[k] /\ t_id'[k] = t_id[k] /\ rx'[k] = rx[k]
        BY <1>1, <2>5 DEF Connected
      <3>2. Waits(k)' <=> Waits(k)
        BY <2>1 DEF Waits
      <3> QED BY <1>4, <2>1, <3>1, <3>2
    <2> QED BY <2>2, <2>3, <2>4, <2>5
  <1>12. ASSUME k # ptr_handle,
                \/ Send \/ SendBroken \/ ConnectionReset \/ ResponseTimeout
                \/ \E m \in rx[ptr_handle] : Receive(m)
         PROVE  Idle(k)
    <2>1. ptr_handle' = ptr_handle
      BY <1>12 DEF Send, SendBroken, ConnectionReset, ResponseTimeout, Receive
    <2>2. Waits(k)' <=> Waits(k)
      BY <1>12, <2>1 DEF Waits
    <2>3. link'[k] = link[k] /\ sock'[k] = sock[k] /\ t_id'[k] = t_id[k] /\ rx'[k] = rx[k]
          /\ wire'[k] = wire[k]
      BY <1>1, <1>12 DEF Send, SendBroken, ConnectionReset, ResponseTimeout, Receive, slaves
    <2> QED BY <1>4, <2>2, <2>3
  <1>13. CASE \/ Send \/ SendBroken \/ ConnectionReset \/ ResponseTimeout
              \/ pc = "wait" /\ \E m \in rx[ptr_handle] : Receive(m)
    BY <1>12, <1>13 DEF Touches
  <1>14. ASSUME NEW h \in Key, LinkFault(h) \/ SlaveReturn(h) \/ KernelGivesUp(h)
         PROVE  Idle(k)
    <2>1. UNCHANGED <<sock, t_id>> /\ (Waits(k)' <=> Waits(k))
      BY <1>14 DEF LinkFault, SlaveReturn, KernelGivesUp, daemon, Waits
    <2>2. wire'[k] \subseteq wire[k] /\ rx'[k] \in {rx[k], {}}
      BY <1>1, <1>14 DEF LinkFault, SlaveReturn, KernelGivesUp, slaves
    <2>3. /\ link'[k] = "up" => link[k] = "up" /\ rx'[k] = rx[k] /\ wire'[k] = wire[k]
          /\ link'[k] = "none" => link[k] = "none"
      BY <1>1, <1>14 DEF LinkFault, SlaveReturn, KernelGivesUp, Cut, slaves
    <2> QED BY <1>3, <2>1, <2>2, <2>3 DEF Idle, Current
  <1>15. ASSUME NEW h \in Key, NEW m \in wire[h], NEW s \in Confirmation, SlaveAnswer(h, m, s)
         PROVE  Idle(k) \/ Delivers(k)
    <2>1. UNCHANGED <<link, sock, t_id>> /\ (Waits(k)' <=> Waits(k))
          /\ wire' = [wire EXCEPT ![h] = @ \ {m}]
      BY <1>15 DEF SlaveAnswer, daemon, Waits
    <2>2. CASE h # k
      <3>1. wire'[k] = wire[k] /\ rx'[k] = rx[k]
        BY <1>1, <1>15, <2>2 DEF SlaveAnswer
      <3> QED BY <1>4, <2>1, <3>1
    <2>3. CASE h = k /\ link[k] = "up" /\ sock[k] = m.sock
      BY <1>15, <2>3 DEF Delivers, Current
    <2>4. CASE h = k /\ ~(link[k] = "up" /\ sock[k] = m.sock)
      <3>1. rx' = rx /\ wire'[k] = wire[k] \ {m}
        BY <1>1, <1>15, <2>1, <2>4 DEF SlaveAnswer
      <3>2. link[k] = "up" => Current(k)' = Current(k)
        BY <2>1, <2>4, <3>1 DEF Current
      <3> QED BY <1>3, <2>1, <3>1, <3>2 DEF Idle
    <2> QED BY <2>2, <2>3, <2>4
  <1>16. ASSUME NEW h \in Key, NEW m \in wire[h], NEW did \in BOOLEAN, SlaveSilent(h, m, did)
         PROVE  Idle(k) \/ KeepsSilent(k)
    <2>1. UNCHANGED <<link, sock, t_id, rx>> /\ (Waits(k)' <=> Waits(k))
          /\ wire' = [wire EXCEPT ![h] = @ \ {m}]
      BY <1>16 DEF SlaveSilent, daemon, context, Waits
    <2>2. CASE h # k
      <3>1. wire'[k] = wire[k]
        BY <1>1, <2>1, <2>2
      <3> QED BY <1>4, <2>1, <3>1
    <2>3. CASE h = k /\ link[k] = "up" /\ sock[k] = m.sock
      BY <1>16, <2>3 DEF KeepsSilent, Current
    <2>4. CASE h = k /\ ~(link[k] = "up" /\ sock[k] = m.sock)
      <3>1. wire'[k] = wire[k] \ {m}
        BY <1>1, <2>1, <2>4
      <3>2. link[k] = "up" => Current(k)' = Current(k)
        BY <2>1, <2>4, <3>1 DEF Current
      <3> QED BY <1>3, <2>1, <3>1, <3>2 DEF Idle
    <2> QED BY <2>2, <2>3, <2>4
  <1> QED
    BY <1>7, <1>8, <1>9, <1>10, <1>11, <1>13, <1>14, <1>15, <1>16
       DEF Next, Daemon, Work, Environment

----------------------------------------------------------------------------
\* Each of them keeps answers and confirmations in or out of step.

\* Dropping messages, other than the one awaited, disturbs no order.
LEMMA IdleKeeps ==
    ASSUME TypeOK, NEW k \in Key, StepAt(k), Idle(k), SilentSent(k)',
           \A first : GaveUp(k, first)' <=> GaveUp(k, first)
    PROVE  StepAt(k)'
  <1>1. Current(k)' \subseteq Current(k) /\ rx'[k] \subseteq rx[k]
    BY DEF Idle, Current
  <1>2. InOrder(k)'
    BY <1>1 DEF StepAt, InOrder, Idle
  <1>3. OwnIsLatest(k)'
    BY DEF StepAt, OwnIsLatest, Idle
  <1>4. OwnComes(k)'
    BY DEF StepAt, OwnComes, Idle, Coming
  <1>5. StaleComes(k)'
    <2>1. OutNow(k)' <=> OutNow(k)
      BY DEF OutNow
    <2>2. \A first \in Nat : Spoken(k, first)' => Spoken(k, first)
      BY DEF Spoken, Idle
    <2>3. OutNow(k) => IsConnected(k)' /\ link'[k] # "none"
      BY DEF StepAt, StaleComes, Idle
    <2>4. ASSUME NEW first \in Nat, GaveUp(k, first), Spoken(k, first)
          PROVE  /\ link'[k] = "up" => \E m \in Coming(k)' : m.id >= first /\ (Waits(k) => m.t_id < t_id[k])
                 /\ Waits(k) => \A m \in rx'[k] : m.t_id = t_id[k] => \E n \in rx'[k] : n.t_id < t_id[k]
      BY <2>4 DEF StepAt, StaleComes, Idle, Coming
    <2> QED BY <2>1, <2>2, <2>3, <2>4 DEF StaleComes, Idle
  <1>6. OnlyOwnComes(k)'
    <2>1. OutNow(k)' <=> OutNow(k)
      BY DEF OutNow
    <2> QED BY <1>1, <2>1 DEF StepAt, OnlyOwnComes, Idle
  <1> QED BY <1>2, <1>3, <1>4, <1>5, <1>6 DEF StepAt

\* The oldest request of the connection becomes the youngest confirmation.
LEMMA DeliveryKeeps ==
    ASSUME TypeOK, FlagInv, [Next]_vars, NEW k \in Key, StepAt(k), Delivers(k), SilentSent(k)',
           \A first : GaveUp(k, first)' <=> GaveUp(k, first)
    PROVE  StepAt(k)'
  <1>1. PICK m \in Current(k), s \in Confirmation : SlaveAnswer(k, m, s)
    BY DEF Delivers
  <1>2. /\ rx \in [Key -> SUBSET ReplyType] /\ wire \in [Key -> SUBSET PduType]
        /\ sock[k] = m.sock /\ m \in wire[k] /\ link[k] = "up"
    BY DEF TypeOK, ContextOK, SlavesOK, Current, Delivers
  <1>3. PICK r : r = [id |-> m.id, t_id |-> m.t_id, status |-> s]
    OBVIOUS
  <1>4. /\ UNCHANGED <<link, sock, t_id, mbtcp_htable, taken, silent>> /\ (Waits(k)' <=> Waits(k))
        /\ wire'[k] = wire[k] \ {m} /\ rx'[k] = rx[k] \cup {r} /\ r.t_id = m.t_id /\ r.id = m.id
    BY <1>1, <1>2, <1>3 DEF SlaveAnswer, daemon, Waits
  <1>5. Current(k)' = Current(k) \ {m}
    BY <1>4 DEF Current
  <1>6. \A n \in Current(k) : n.t_id \in Nat /\ m.t_id <= n.t_id
    BY <1>1, <1>2 DEF SlaveAnswer, Oldest, Current, PduType
  <1>7. InOrder(k)'
    <2>1. \A n \in wire'[k] : n.sock <= sock'[k]
      BY <1>4 DEF StepAt, InOrder
    <2>2. \A a, n \in rx'[k] : a.t_id = n.t_id => a = n
      BY <1>1, <1>2, <1>4 DEF StepAt, InOrder, ReplyType
    <2>3. \A a, n \in Current(k)' : a.t_id = n.t_id => a = n
      BY <1>5 DEF StepAt, InOrder
    <2>4. \A a \in rx'[k], n \in Current(k)' : a.t_id < n.t_id
      <3>1. \A n \in Current(k)' : m.t_id < n.t_id
        BY <1>1, <1>5, <1>6 DEF StepAt, InOrder
      <3> QED BY <1>4, <1>5, <3>1 DEF StepAt, InOrder
    <2> QED BY <2>1, <2>2, <2>3, <2>4 DEF InOrder
  <1>8. OwnIsLatest(k)'
    BY <1>4 DEF StepAt, OwnIsLatest
  <1>9. \A n \in Coming(k) : \E a \in Coming(k)' : a.t_id = n.t_id /\ a.id = n.id
    BY <1>4, <1>5 DEF Coming
  <1>10. OwnComes(k)'
    BY <1>4, <1>9 DEF StepAt, OwnComes
  <1>11. OutNow(k)' <=> OutNow(k)
    BY DEF OutNow
  <1>12. StaleComes(k)'
    <2>1. OutNow(k) => IsConnected(k)' /\ link'[k] # "none"
      BY <1>2, <1>4 DEF StepAt, StaleComes, IsConnected
    <2>2. ASSUME NEW first \in Nat, GaveUp(k, first), Spoken(k, first)
          PROVE  /\ \E a \in Coming(k)' : a.id >= first /\ (Waits(k) => a.t_id < t_id[k])
                 /\ Waits(k) => \A a \in rx'[k] : a.t_id = t_id[k] => \E n \in rx'[k] : n.t_id < t_id[k]
      <3>1. PICK a \in Coming(k) : a.id >= first /\ (Waits(k) => a.t_id < t_id[k])
        BY <1>2, <2>2 DEF StepAt, StaleComes
      <3>2. ASSUME Waits(k), r.t_id = t_id[k] PROVE \E n \in rx'[k] : n.t_id < t_id[k]
        <4>1. a \in rx[k]
          BY <1>2, <1>4, <1>6, <3>1, <3>2 DEF Coming, TypeOK, ContextOK
        <4> QED BY <1>4, <3>1, <3>2, <4>1
      <3>3. ASSUME Waits(k), NEW b \in rx[k], b.t_id = t_id[k] PROVE \E n \in rx'[k] : n.t_id < t_id[k]
        BY <1>4, <2>2, <3>3 DEF StepAt, StaleComes
      <3> QED BY <1>4, <1>9, <3>1, <3>2, <3>3
    <2>3. \A first \in Nat : Spoken(k, first)' => Spoken(k, first)
      BY <1>4 DEF Spoken
    <2> QED BY <1>4, <1>11, <2>1, <2>2, <2>3 DEF StaleComes
  <1>13. OnlyOwnComes(k)'
    BY <1>1, <1>2, <1>4, <1>5, <1>11 DEF StepAt, OnlyOwnComes
  <1> QED BY <1>7, <1>8, <1>10, <1>12, <1>13 DEF StepAt

\* The oldest request of the connection gets no confirmation: no later one had been
\* given up before it.
LEMMA SilenceKeeps ==
    ASSUME TypeOK, FlagInv, OwnConfirmation, [Next]_vars, NEW k \in Key, StepAt(k), KeepsSilent(k),
           SilentSent(k)', \A first : GaveUp(k, first)' <=> GaveUp(k, first)
    PROVE  StepAt(k)'
  <1>1. PICK m \in Current(k), did \in BOOLEAN : SlaveSilent(k, m, did)
    BY DEF KeepsSilent
  <1>2. /\ m \in wire[k] /\ m \in PduType /\ link[k] = "up" /\ taken \in Nat /\ t_id[k] \in Nat
        /\ silent \in [Key -> SUBSET Nat] /\ wire \in [Key -> SUBSET PduType]
    BY DEF TypeOK, DaemonOK, ContextOK, SlavesOK, Current, KeepsSilent
  <1>3. /\ UNCHANGED <<link, sock, t_id, rx, mbtcp_htable, taken>> /\ (Waits(k)' <=> Waits(k))
        /\ wire'[k] = wire[k] \ {m} /\ silent'[k] = silent[k] \cup {m.id}
    BY <1>1, <1>2 DEF SlaveSilent, daemon, context, Waits
  <1>4. Current(k)' = Current(k) \ {m} /\ Coming(k) \ {m} \subseteq Coming(k)'
    BY <1>3 DEF Current, Coming
  <1>5. InOrder(k)'
    BY <1>3, <1>4 DEF StepAt, InOrder
  <1>6. OwnIsLatest(k)'
    BY <1>3 DEF StepAt, OwnIsLatest
  <1>7. OwnComes(k)'
    <2>1. SUFFICES ASSUME Waits(k), taken \notin silent'[k]
                   PROVE  \E n \in Coming(k)' : n.t_id = t_id[k]
      BY <1>3 DEF OwnComes
    <2>2. PICK n \in Coming(k) : n.t_id = t_id[k]
      BY <1>2, <1>3, <2>1 DEF StepAt, OwnComes
    <2>3. n # m
      BY <1>2, <1>3, <2>1, <2>2 DEF OwnConfirmation, Pending, Waits
    <2> QED BY <1>4, <2>2, <2>3
  <1>8. OutNow(k)' <=> OutNow(k)
    BY DEF OutNow
  <1>9. StaleComes(k)'
    <2>1. OutNow(k) => IsConnected(k)' /\ link'[k] # "none"
      BY <1>2, <1>3 DEF StepAt, StaleComes, IsConnected
    <2>2. ASSUME NEW first \in Nat, GaveUp(k, first), Spoken(k, first)'
          PROVE  /\ \E a \in Coming(k)' : a.id >= first /\ (Waits(k) => a.t_id < t_id[k])
                 /\ Waits(k) => \A a \in rx[k] : a.t_id = t_id[k] => \E n \in rx[k] : n.t_id < t_id[k]
      <3>1. Spoken(k, first) /\ (m.id < first \/ (Waits(k) /\ m.id = taken))
        BY <1>3, <2>2 DEF Spoken
      <3>2. PICK a \in Coming(k) : a.id >= first /\ (Waits(k) => a.t_id < t_id[k])
        BY <1>2, <2>2, <3>1 DEF StepAt, StaleComes
      <3>3. a # m
        <4>1. ASSUME Waits(k), m.id = taken PROVE m.t_id = t_id[k]
          BY <1>2, <4>1 DEF StepAt, OwnIsLatest
        <4> QED BY <1>2, <3>1, <3>2, <4>1 DEF PduType
      <3>4. a \in Coming(k)'
        BY <1>4, <3>3
      <3> QED BY <2>2, <3>1, <3>2, <3>4 DEF StepAt, StaleComes
    <2> QED BY <1>3, <1>8, <2>1, <2>2 DEF StaleComes
  <1>10. OnlyOwnComes(k)'
    BY <1>3, <1>4, <1>8 DEF StepAt, OnlyOwnComes
  <1> QED BY <1>5, <1>6, <1>7, <1>9, <1>10 DEF StepAt

\* A new context, and a new socket of one, have nothing to come.
LEMMA NewSocketKeeps ==
    ASSUME TypeOK, FlagInv, [Next]_vars, NEW k \in Key, StepAt(k), SilentSent(k)',
           \A first : GaveUp(k, first)' <=> GaveUp(k, first),
           ~IsConnected(k) \/ link[k] = "none", pc' # "wait", UNCHANGED wire, rx'[k] = {},
           \/ link'[k] # "up" /\ sock'[k] = sock[k]
           \/ sock'[k] = sock[k] + 1
    PROVE  StepAt(k)'
  <1>1. ~OutNow(k) /\ ~OutNow(k)'
    BY DEF StepAt, StaleComes, OutNow
  <1>2. ~Waits(k)'
    BY DEF Waits
  <1>3. sock[k] \in Nat /\ \A m \in wire[k] : m.sock \in Nat /\ m.sock <= sock[k]
    BY DEF StepAt, InOrder, TypeOK, ContextOK, SlavesOK, PduType
  <1>4. \/ link'[k] # "up" /\ Current(k)' = Current(k)
        \/ Current(k)' = {}
    BY <1>3 DEF Current
  <1>5. InOrder(k)'
    BY <1>3, <1>4 DEF StepAt, InOrder
  <1>6. OnlyOwnComes(k)'
    BY <1>4 DEF OnlyOwnComes
  <1>7. StaleComes(k)'
    <2>1. \A first \in Nat : ~GaveUp(k, first)'
      BY <1>1 DEF OutNow
    <2> QED BY <1>1, <2>1 DEF StaleComes
  <1> QED BY <1>2, <1>5, <1>6, <1>7 DEF StepAt, OwnComes, OwnIsLatest

\* What is sent comes last.
LEMMA SendKeepsStep ==
    ASSUME TypeOK, FlagInv, OwnConfirmation, ExecutionInv, [Next]_vars, NEW k \in Key, StepAt(k),
           Send, k = ptr_handle, SilentSent(k)',
           \A first : GaveUp(k, first)' <=> GaveUp(k, first)
    PROVE  StepAt(k)'
  <1>1. /\ link' = link /\ sock' = sock /\ rx' = rx /\ pc = "fc" /\ pc' = "wait" /\ taken' = taken
        /\ ptr_handle' = ptr_handle /\ t_id'[k] = t_id[k] + 1 /\ t_id[k] \in Nat
        /\ silent' = silent
    BY DEF Send, At, TypeOK, ContextOK
  <1>2. ~Waits(k) /\ Waits(k)'
    BY <1>1 DEF Waits
  <1>3. /\ Pdu(k).t_id = t_id[k] + 1 /\ Pdu(k).sock = sock[k] /\ sock[k] \in Nat
        /\ wire'[k] = IF link[k] = "up" THEN wire[k] \cup {Pdu(k)} ELSE wire[k]
    BY DEF Pdu, Send, TypeOK, SlavesOK, ContextOK
  <1>4. Current(k)' = IF link[k] = "up" THEN Current(k) \cup {Pdu(k)} ELSE Current(k)
    BY <1>1, <1>3 DEF Current
  <1>5. \A m \in Coming(k) : m.t_id \in Nat /\ m.t_id <= t_id[k]
    BY DEF OwnConfirmation, Pending, Coming, Current, TypeOK, ContextOK, SlavesOK, ReplyType, PduType
  <1>6. Coming(k)' = IF link[k] = "up" THEN Coming(k) \cup {Pdu(k)} ELSE Coming(k)
    BY <1>1, <1>4 DEF Coming
  <1>7. InOrder(k)'
    <2>1. \A m \in wire'[k] : m.sock <= sock'[k]
      BY <1>1, <1>3 DEF StepAt, InOrder
    <2>2. \A m, n \in Current(k)' : m.t_id = n.t_id => m = n
      BY <1>1, <1>3, <1>4, <1>5 DEF StepAt, InOrder, Coming
    <2>3. \A m \in rx'[k], n \in Current(k)' : m.t_id < n.t_id
      BY <1>1, <1>3, <1>4, <1>5 DEF StepAt, InOrder, Coming
    <2> QED BY <1>1, <2>1, <2>2, <2>3 DEF StepAt, InOrder
  <1>8. OwnIsLatest(k)'
    <2>1. \A m \in wire[k] : m.id # taken
      BY <1>1 DEF ExecutionInv, SentAfter, Unsent, Before
    <2> QED BY <1>1, <1>3, <2>1 DEF OwnIsLatest
  <1>9. OwnComes(k)'
    BY <1>1, <1>3, <1>6 DEF OwnComes
  <1>10. OutNow(k)' <=> OutNow(k)
    BY DEF OutNow
  <1>11. StaleComes(k)'
    <2>1. OutNow(k) => IsConnected(k)' /\ link'[k] # "none"
      BY <1>1, FlagStays DEF StepAt, StaleComes, FoundReset, ConnectionReset
    <2>2. ASSUME NEW first \in Nat, Spoken(k, first)' PROVE Spoken(k, first)
      BY <1>1, <2>2 DEF Spoken, StepAt, SilentSent, Before
    <2>3. ASSUME NEW first \in Nat, GaveUp(k, first), Spoken(k, first), link[k] = "up"
          PROVE  \E m \in Coming(k)' : m.id >= first /\ m.t_id < t_id'[k]
      <3>1. PICK m \in Coming(k) : m.id >= first
        BY <2>3 DEF StepAt, StaleComes
      <3> QED BY <1>1, <1>5, <1>6, <3>1
    <2>4. \A m \in rx'[k] : m.t_id # t_id'[k]
      BY <1>1, <1>5 DEF Coming
    <2> QED BY <1>1, <1>10, <2>1, <2>2, <2>3, <2>4 DEF StaleComes
  <1>12. OnlyOwnComes(k)'
    BY <1>1, <1>2, <1>3, <1>4, <1>10 DEF StepAt, OnlyOwnComes
  <1> QED BY <1>7, <1>8, <1>9, <1>11, <1>12 DEF StepAt

\* Out of step the confirmation taken is another's, in step it is the own one.
LEMMA TakenOutOfStep ==
    ASSUME TypeOK, FlagInv, NEW k \in Key, StepAt(k), k = ptr_handle, pc = "wait",
           NEW m \in rx[k], Receive(m)
    PROVE  /\ \A first \in Nat : GaveUp(k, first) /\ Spoken(k, first) => m.t_id # t_id[k]
           /\ ~OutNow(k) => m.t_id = t_id[k]
  <1>1. Oldest(m, rx[k]) /\ t_id[k] \in Nat /\ \A n \in rx[k] : n.t_id \in Nat
    BY DEF Receive, TypeOK, ContextOK, ReplyType
  <1>2. Waits(k)
    BY DEF Waits
  <1>3. ASSUME NEW first \in Nat, GaveUp(k, first), Spoken(k, first), m.t_id = t_id[k] PROVE FALSE
    <2>1. PICK n \in rx[k] : n.t_id < t_id[k]
      BY <1>2, <1>3 DEF StepAt, StaleComes
    <2> QED BY <1>1, <1>3, <2>1 DEF Oldest
  <1>4. ASSUME ~OutNow(k) PROVE m.t_id = t_id[k]
    BY <1>4 DEF StepAt, OnlyOwnComes
  <1> QED BY <1>3, <1>4

\* Where an answer is given, a request is waited for no more: if all are spoken of
\* since one was given up, so is it.
LEMMA SpokenSince ==
    ASSUME TypeOK, NEW k \in Key, SilentSent(k), NEW first \in Nat, first <= taken,
           ~Waits(k)', taken' = taken, silent' = silent, Spoken(k, first)'
    PROVE  taken \notin silent[k] /\ Spoken(k, first)
  BY DEF Spoken, TypeOK, DaemonOK, SilentSent, Id

\* The receive consumes the confirmation that comes next, its own or a stale one.
LEMMA ReceiveKeepsStep ==
    ASSUME TypeOK, FlagInv, OwnConfirmation, ExecutionInv, [Next]_vars, NEW k \in Key, StepAt(k),
           k = ptr_handle, pc = "wait", NEW m \in rx[k], Receive(m), SilentSent(k)',
           \A first : GaveUp(k, first)' <=> GaveUp(k, first)
    PROVE  StepAt(k)'
  <1>1. /\ UNCHANGED <<link, sock, t_id, wire, taken, silent>> /\ rx'[k] = rx[k] \ {m} /\ pc' # "wait"
    BY DEF Receive, slaves, TypeOK, ContextOK, Fail, Answer
  <1>2. Waits(k) /\ ~Waits(k)' /\ Current(k)' = Current(k)
    BY <1>1 DEF Waits, Current
  <1>3. InOrder(k)'
    BY <1>1, <1>2 DEF StepAt, InOrder
  <1>4. OwnComes(k)' /\ OwnIsLatest(k)'
    BY <1>2 DEF OwnComes, OwnIsLatest
  <1>5. OutNow(k)' <=> OutNow(k)
    BY DEF OutNow
  <1>6. StaleComes(k)'
    <2>1. OutNow(k) => IsConnected(k)' /\ link'[k] # "none"
      BY <1>1, FlagStays DEF StepAt, StaleComes, FoundReset, ConnectionReset
    <2>2. ASSUME NEW first \in Nat, GaveUp(k, first), Spoken(k, first)', link[k] = "up"
          PROVE  \E n \in Coming(k)' : n.id >= first
      <3>1. first <= taken /\ taken \in Nat
        BY <2>2, GaveUpTaken
      <3>2. taken \notin silent[k] /\ Spoken(k, first)
        BY <1>1, <1>2, <2>2, <3>1, SpokenSince DEF StepAt
      <3>3. PICK n \in Coming(k) : n.t_id = t_id[k]
        BY <1>2, <2>2, <3>2 DEF StepAt, OwnComes
      <3>4. n.id = taken
        BY <3>3 DEF OwnConfirmation, Pending, Coming, Current
      <3>5. n # m
        BY <2>2, <3>2, <3>3, TakenOutOfStep
      <3>6. n \in Coming(k)'
        BY <1>1, <1>2, <3>3, <3>5 DEF Coming
      <3> QED BY <3>1, <3>4, <3>6
    <2> QED BY <1>1, <1>2, <1>5, <2>1, <2>2 DEF StaleComes
  <1>7. OnlyOwnComes(k)'
    <2>1. SUFFICES ASSUME ~OutNow(k), NEW n \in rx'[k] \cup (IF link[k] = "up" THEN Current(k) ELSE {})
                   PROVE  FALSE
      BY <1>1, <1>2, <1>5 DEF OnlyOwnComes
    <2>2. n \in rx[k] \cup (IF link[k] = "up" THEN Current(k) ELSE {}) /\ n.t_id = t_id[k]
          /\ m.t_id = t_id[k] /\ t_id[k] \in Nat
      BY <1>1, <2>1, TakenOutOfStep DEF StepAt, OnlyOwnComes, TypeOK, ContextOK
    <2>3. n \notin Current(k)
      BY <2>2 DEF StepAt, InOrder
    <2>4. n = m
      BY <2>2, <2>3 DEF StepAt, InOrder
    <2> QED BY <1>1, <2>1, <2>3, <2>4
  <1> QED BY <1>3, <1>4, <1>6, <1>7 DEF StepAt

\* A send refused, a timeout, a reset: nothing is taken from the socket.
LEMMA FailureKeepsStep ==
    ASSUME TypeOK, FlagInv, OwnConfirmation, ExecutionInv, [Next]_vars, NEW k \in Key, StepAt(k),
           k = ptr_handle, SendBroken \/ ConnectionReset \/ ResponseTimeout, SilentSent(k)',
           \A first : GaveUp(k, first)' <=>
             (TimedOut(k) /\ first = taken) \/ (GaveUp(k, first) /\ ~FoundReset(k))
    PROVE  StepAt(k)'
  <1>1. /\ UNCHANGED <<sock, rx, wire, taken, silent>> /\ pc' # "wait"
        /\ link'[k] \in {link[k], "broken"}
        /\ pc \in {"fc", "wait"} /\ ~(SendBroken /\ pc = "wait")
    BY DEF SendBroken, ConnectionReset, ResponseTimeout, slaves, TypeOK, ContextOK, Fail, Answer, At
  <1>2. ~Waits(k)' /\ Current(k)' = Current(k) /\ Coming(k)' = Coming(k)
    BY <1>1 DEF Waits, Current, Coming
  <1>3. IsConnected(k) /\ (~FoundReset(k) => IsConnected(k)')
    BY <1>1, FlagStays DEF FlagInv, FlagFollows
  <1>4. rx[k] = {} \/ SendBroken
    BY DEF ConnectionReset, ResponseTimeout
  <1>5. ~FoundReset(k) => SendBroken \/ ResponseTimeout
    BY DEF FoundReset
  <1>6. InOrder(k)' /\ OwnComes(k)' /\ OwnIsLatest(k)'
    BY <1>1, <1>2 DEF StepAt, InOrder, OwnComes, OwnIsLatest
  <1>7. taken \in Nat
    BY DEF TypeOK, DaemonOK
  <1>8. OutNow(k)' => ~FoundReset(k) /\ (TimedOut(k) \/ OutNow(k))
    BY DEF OutNow, TimedOut, FoundReset, SendBroken, ConnectionReset, ResponseTimeout, At
  <1>9. ~FoundReset(k) /\ (TimedOut(k) \/ OutNow(k)) => OutNow(k)'
    BY <1>7 DEF OutNow
  <1>10. StaleComes(k)'
    <2>1. ASSUME OutNow(k)' PROVE IsConnected(k)' /\ link'[k] # "none"
      <3>1. CASE OutNow(k)
        BY <1>1, <1>3, <1>8, <2>1, <3>1 DEF StepAt, StaleComes
      <3>2. CASE TimedOut(k)
        <4>1. link[k] # "none"
          BY <3>2 DEF TimedOut, SendErrno, SendBroken, ResponseTimeout, FlagInv, FlagFollows
        <4> QED BY <1>1, <1>3, <1>8, <2>1, <4>1
      <3> QED BY <1>8, <2>1, <3>1, <3>2
    <2>2. ASSUME NEW first \in Nat, GaveUp(k, first)', Spoken(k, first)', link'[k] = "up"
          PROVE  \E n \in Coming(k) : n.id >= first
      <3>1. first <= taken
        BY <1>7, <2>2, GaveUpTaken
      <3>2. taken \notin silent[k]
        BY <1>1, <1>2, <2>2, <3>1, SpokenSince DEF StepAt
      <3>3. ~FoundReset(k)
        BY <1>8, <2>2 DEF OutNow
      <3>4. ResponseTimeout /\ link[k] = "up" /\ Waits(k)
        BY <1>5, <2>2, <3>3 DEF SendBroken, ResponseTimeout, Dead, TypeOK, ContextOK, Waits
      <3>5. PICK n \in Coming(k) : n.t_id = t_id[k]
        BY <3>2, <3>4 DEF StepAt, OwnComes
      <3>6. n.id = taken
        BY <3>4, <3>5 DEF OwnConfirmation, Pending, Coming, Current, Waits
      <3> QED BY <1>7, <3>1, <3>5, <3>6
    <2> QED BY <1>2, <2>1, <2>2 DEF StaleComes
  <1>11. OnlyOwnComes(k)'
    <2>1. SUFFICES ASSUME ~OutNow(k)'
                   PROVE  rx[k] = {} /\ link'[k] # "up"
      BY <1>1, <1>2 DEF OnlyOwnComes
    <2>2. ~ResponseTimeout
      BY <1>9, <2>1 DEF TimedOut, FoundReset, ConnectionReset, ResponseTimeout
    <2>3. link'[k] # "up"
      BY <2>2 DEF SendBroken, ConnectionReset, Dead, TypeOK, ContextOK
    <2>4. SendBroken => rx[k] = {}
      <3>1. SUFFICES ASSUME SendBroken PROVE rx[k] = {}
        OBVIOUS
      <3>2. ~FoundReset(k) /\ ~Waits(k)
        BY <1>1, <3>1 DEF FoundReset, ConnectionReset, SendBroken, Waits, At
      <3> QED BY <1>9, <2>1, <3>2 DEF StepAt, OnlyOwnComes
    <2> QED BY <1>4, <2>2, <2>3, <2>4
  <1> QED BY <1>6, <1>10, <1>11 DEF StepAt

\* StepAt is kept by every step.
LEMMA StepAtStep ==
    ASSUME TypeOK, FlagInv, OwnConfirmation, ExecutionInv, [Next]_vars,
           NEW k \in Key, StepAt(k)
    PROVE  StepAt(k)'
  <1>1. \A first : GaveUp(k, first)' <=>
          (TimedOut(k) /\ first = taken) \/ (GaveUp(k, first) /\ ~FoundReset(k))
    BY GaveUpStep
  <1>2. SilentSent(k)'
    BY SilentSentStep DEF StepAt
  <1>3. CASE k = ptr_handle /\ (SendBroken \/ ConnectionReset \/ ResponseTimeout)
    BY <1>1, <1>2, <1>3, FailureKeepsStep
  <1>4. CASE ~(k = ptr_handle /\ (SendBroken \/ ConnectionReset \/ ResponseTimeout))
    <2>1. \A first : GaveUp(k, first)' <=> GaveUp(k, first)
      BY <1>1, <1>4 DEF TimedOut, FoundReset
    <2>2. CASE Idle(k)
      BY <1>2, <2>1, <2>2, IdleKeeps
    <2>3. CASE Delivers(k)
      BY <1>2, <2>1, <2>3, DeliveryKeeps
    <2>4. CASE KeepsSilent(k)
      BY <1>2, <2>1, <2>4, SilenceKeeps
    <2>5. CASE mbtcp_init_handle /\ k = key
      <3>1. mbtcp_htable[k] = NoHandle
        BY <2>5, KeyIsNoHandle DEF mbtcp_init_handle, mbtcp_get_handle
      <3>2. UNCHANGED <<wire, sock>> /\ pc' = "init" /\ rx'[k] = {} /\ link'[k] = "none"
        BY <2>5 DEF mbtcp_init_handle, slaves, TypeOK, ContextOK
      <3> QED BY <1>2, <2>1, <3>1, <3>2, NewSocketKeeps DEF IsConnected
    <2>6. CASE /\ ~IsConnected(k) \/ link[k] = "none"
               /\ pc' # "wait" /\ Connected(k) /\ UNCHANGED wire
      <3>1. rx'[k] = {} /\ sock'[k] = sock[k] + 1
        BY <2>6 DEF Connected, TypeOK, ContextOK
      <3> QED BY <1>2, <2>1, <2>6, <3>1, NewSocketKeeps
    <2>7. CASE k = ptr_handle /\ Send
      BY <1>2, <2>1, <2>7, SendKeepsStep
    <2>8. CASE k = ptr_handle /\ pc = "wait" /\ \E m \in rx[k] : Receive(m)
      BY <1>2, <2>1, <2>8, ReceiveKeepsStep
    <2> QED BY <1>4, <2>2, <2>3, <2>4, <2>5, <2>6, <2>7, <2>8, MessageKinds DEF Touches
  <1> QED BY <1>3, <1>4

\* What an answer says of the step its endpoint is in.
LEMMA StepAnswers ==
    ASSUME TypeOK, FlagInv, ExecutionInv, [Next]_vars, NEW status, AnsweredBy(status),
           Transacts(taken), StepAt(KeyAt(taken))
    PROVE  LET k == KeyAt(taken)
           IN  /\ \A first \in Nat :
                    GaveUp(k, first) /\ (\A id \in silent[k] : id \notin first .. taken - 1)
                      => status \notin Confirmation
               /\ ~OutNow(k) => status # "EMBBADDATA"
  <1> DEFINE k == KeyAt(taken)
  <1>1. pc \in AtSlave => ptr_handle = k
    BY DEF ExecutionInv, AtHome, key, cur, Server, KeyAt, EndpointOf
  <1>2. CASE status \notin Confirmation \cup {"EMBBADDATA"}
    BY <1>2
  <1>3. CASE pc = "wait" /\ \E m \in rx[ptr_handle] : Receive(m) /\ status = Outcome(m)
    <2>1. ptr_handle = k /\ k \in Key
      BY <1>1, <1>3 DEF AtSlave, TypeOK, InUseOK
    <2>2. PICK m \in rx[k] : Receive(m) /\ status = Outcome(m)
      BY <1>3, <2>1
    <2>3. ASSUME NEW first \in Nat, GaveUp(k, first),
                 \A id \in silent[k] : id \notin first .. taken - 1
          PROVE  Spoken(k, first)
      <3>1. taken \in Nat /\ \A id \in silent[k] : id \in Nat /\ id <= taken
        BY DEF StepAt, SilentSent, Id, TypeOK, DaemonOK
      <3>2. Waits(k)
        BY <1>3, <2>1 DEF Waits
      <3> HIDE DEF k
      <3> QED BY <2>3, <3>1, <3>2 DEF Spoken
    <2>4. /\ \A first \in Nat : GaveUp(k, first) /\ Spoken(k, first) => m.t_id # t_id[k]
          /\ ~OutNow(k) => m.t_id = t_id[k]
      BY <1>3, <2>1, <2>2, TakenOutOfStep
    <2>5. m.status \in Confirmation
      BY <2>1, <2>2 DEF TypeOK, ContextOK, ReplyType
    <2>6. IF m.t_id = t_id[k] THEN status \in Confirmation ELSE status = "EMBBADDATA"
      BY <2>1, <2>2, <2>5 DEF Outcome
    <2>7. "EMBBADDATA" \notin Confirmation
      BY DEF Confirmation
    <2>8. ASSUME NEW first \in Nat, GaveUp(k, first),
                 \A id \in silent[k] : id \notin first .. taken - 1
          PROVE  status \notin Confirmation
      <3>1. m.t_id # t_id[k]
        BY <2>3, <2>4, <2>8, Zenon
      <3> QED BY <2>6, <2>7, <3>1
    <2>9. ASSUME ~OutNow(k) PROVE status # "EMBBADDATA"
      BY <2>4, <2>6, <2>7, <2>9
    <2> QED BY <2>8, <2>9, Zenon
  <1> QED BY <1>2, <1>3 DEF AnsweredBy, SendErrno, Confirmation

\* A new answer reports what the slave said of a transaction, or bad data, by what
\* was given up before it.
LEMMA RecoveryStep ==
    ASSUME TypeOK, FlagInv, ExecutionInv, StepInv, [Next]_vars
    PROVE  RecoversByResetOrSilence'
  <1> DEFINE Acts(id) == published'[id].mode = "tcp" /\ published'[id].cmd \in Fc
             Where(id) == KeyOf[<<published'[id].ip, published'[id].port>>]
             On2(k, i, s) == outbox'[i].status = s /\ Where(outbox'[i].id) = k
             Given2(i, j) ==
                  /\ On2(Where(outbox'[j].id), i, "ETIMEDOUT")
                  /\ \A n \in i + 1 .. j - 1 : ~On2(Where(outbox'[j].id), n, "ECONNRESET")
             Conf2(i, j) ==
                  \A id \in silent'[Where(outbox'[j].id)] : id \notin outbox'[i].id .. outbox'[j].id - 1
             Good(j) == Acts(outbox'[j].id) =>
                  /\ \A i \in 1 .. j - 1 :
                       Given2(i, j) /\ Conf2(i, j) => outbox'[j].status \notin Confirmation
                  /\ (\A i \in 1 .. j - 1 : ~Given2(i, j)) => outbox'[j].status # "EMBBADDATA"
  <1>1. SUFFICES \A j \in 1 .. Len(outbox') : Good(j)
    BY DEF RecoversByResetOrSilence, GivenUp, Confirmed, Transacts, KeyAt, EndpointOf
  <1>2. \A i \in 1 .. Len(outbox) : outbox[i].id \in Id
    BY DEF ExecutionInv, AnsweredTaken, RangeOf
  <1>3. \A id \in Id : Where(id) = KeyAt(id) /\ (Acts(id) <=> Transacts(id))
    BY PublishedStays DEF KeyAt, EndpointOf, Transacts
  <1>4. \A id \in Id : KeyAt(id) \in Key
    BY KeyAtType
  <1>5. Len(outbox) \in Nat
    BY DEF TypeOK, DaemonOK
  <1>6. \A k \in Key : silent[k] \subseteq silent'[k]
    BY SilentGrows
  <1>7. ASSUME \A i \in 1 .. Len(outbox) : outbox'[i] = outbox[i]
        PROVE  \A k, s : \A i \in 1 .. Len(outbox) : On2(k, i, s) <=> On(k, i, s)
    BY <1>2, <1>3, <1>7 DEF On
  <1>8. ASSUME \A i \in 1 .. Len(outbox) : outbox'[i] = outbox[i], NEW j \in 1 .. Len(outbox)
        PROVE  Good(j)
    <2>1. \A i \in 1 .. j - 1 : i \in 1 .. Len(outbox) /\ \A n \in i + 1 .. j - 1 : n \in 1 .. Len(outbox)
      BY <1>5
    <2>2. Where(outbox'[j].id) = KeyAt(outbox[j].id) /\ KeyAt(outbox[j].id) \in Key
      BY <1>2, <1>3, <1>4, <1>8
    <2>3. ASSUME NEW i \in 1 .. j - 1 PROVE Given2(i, j) <=> GivenUp(i, j)
      <3>1. GivenUp(i, j) <=>
              /\ On(KeyAt(outbox[j].id), i, "ETIMEDOUT")
              /\ \A n \in i + 1 .. j - 1 : ~On(KeyAt(outbox[j].id), n, "ECONNRESET")
        BY DEF GivenUp, On
      <3> HIDE DEF On2, Where
      <3> QED BY <1>7, <1>8, <2>1, <2>2, <2>3, <3>1
    <2>4. ASSUME NEW i \in 1 .. j - 1, Conf2(i, j) PROVE Confirmed(i, j)
      <3> HIDE DEF Where
      <3> QED BY <1>6, <1>8, <2>1, <2>2, <2>4 DEF Confirmed
    <2>5. Acts(outbox'[j].id) <=> Transacts(outbox[j].id)
      BY <1>2, <1>3, <1>8
    <2>6. Transacts(outbox[j].id) =>
            /\ \A i \in 1 .. j - 1 :
                 GivenUp(i, j) /\ Confirmed(i, j) => outbox[j].status \notin Confirmation
            /\ (\A i \in 1 .. j - 1 : ~GivenUp(i, j)) => outbox[j].status # "EMBBADDATA"
      BY DEF StepInv, RecoversByResetOrSilence
    <2> HIDE DEF Given2, Conf2, Acts
    <2> QED BY <1>8, <2>3, <2>4, <2>5, <2>6
  <1>9. CASE outbox' = outbox
    BY <1>8, <1>9
  <1>10. CASE outbox' # outbox
    <2>1. PICK status \in Status, from \in Nat : Answer(status, from) /\ AnsweredBy(status)
      BY <1>10, AnswerKinds
    <2>2. taken > 0 /\ taken \in Id
      BY <2>1, AnsweredInHand
    <2> DEFINE n == Len(outbox) + 1
               k == KeyAt(taken)
    <2>3. /\ Len(outbox) \in Nat /\ Len(outbox') = n
          /\ \A i \in 1 .. Len(outbox) : outbox'[i] = outbox[i]
          /\ outbox'[n].id = taken /\ outbox'[n].status = status
      BY <2>1, <2>2, AnswerAppends
    <2>4. Good(n)
      <3>1. Where(outbox'[n].id) = k /\ (Acts(outbox'[n].id) <=> Transacts(taken)) /\ k \in Key
        BY <1>3, <1>4, <2>2, <2>3
      <3>2. \A i \in 1 .. Len(outbox) : \A m \in i + 1 .. Len(outbox) : m \in 1 .. Len(outbox)
        BY <1>5
      <3>3. n - 1 = Len(outbox) /\ \A i \in 1 .. Len(outbox) : outbox[i].id \in Nat
        BY <1>2, <1>5 DEF Id
      <3>4. ASSUME NEW i \in 1 .. Len(outbox)
            PROVE  Given2(i, n) <=>
                     /\ On(k, i, "ETIMEDOUT")
                     /\ \A m \in i + 1 .. Len(outbox) : ~On(k, m, "ECONNRESET")
        <4>1. Given2(i, n) <=> /\ On2(k, i, "ETIMEDOUT")
                               /\ \A m \in i + 1 .. Len(outbox) : ~On2(k, m, "ECONNRESET")
          <5> HIDE DEF On2, n, k
          <5> QED BY <3>1, <3>3
        <4>2. \A s : \A m \in 1 .. Len(outbox) : On2(k, m, s) <=> On(k, m, s)
          BY <1>7, <2>3
        <4> HIDE DEF On2, Given2, k, n
        <4> QED BY <3>2, <4>1, <4>2
      <3>5. ASSUME NEW i \in 1 .. Len(outbox), Given2(i, n) PROVE GaveUp(k, outbox[i].id)
        <4> HIDE DEF Given2, k, n
        <4> QED BY <3>4, <3>5 DEF GaveUp
      <3>6. ASSUME \A i \in 1 .. Len(outbox) : ~Given2(i, n) PROVE ~OutNow(k)
        <4> HIDE DEF Given2, k, n
        <4> QED BY <3>4, <3>6 DEF OutNow, GaveUp
      <3>7. ASSUME NEW i \in 1 .. Len(outbox), Conf2(i, n)
            PROVE  \A id \in silent[k] : id \notin outbox[i].id .. taken - 1
        <4>1. \A id \in silent'[k] : id \notin outbox[i].id .. taken - 1
          BY <2>3, <3>1, <3>7
        <4> HIDE DEF Conf2, k, n
        <4> QED BY <1>6, <3>1, <4>1
      <3>8. Transacts(taken) =>
              /\ \A first \in Nat :
                   GaveUp(k, first) /\ (\A id \in silent[k] : id \notin first .. taken - 1)
                     => status \notin Confirmation
              /\ ~OutNow(k) => status # "EMBBADDATA"
        BY <1>4, <2>1, <2>2, StepAnswers DEF StepInv
      <3> HIDE DEF Given2, Conf2, Acts, k, n
      <3>9. ASSUME NEW i \in 1 .. Len(outbox), Given2(i, n), Conf2(i, n), Transacts(taken)
            PROVE  status \notin Confirmation
        BY <3>3, <3>5, <3>7, <3>8, <3>9
      <3> QED BY <2>3, <3>1, <3>3, <3>6, <3>8, <3>9
    <2>5. \A j \in 1 .. Len(outbox') : j = n \/ j \in 1 .. Len(outbox)
      BY <2>3
    <2>6. \A j \in 1 .. Len(outbox) : Good(j)
      BY <1>8, <2>3
    <2> HIDE DEF Good, n
    <2> QED BY <2>4, <2>5, <2>6
  <1> QED BY <1>9, <1>10

\* StepInv is kept.
LEMMA StepInvStep ==
    ASSUME TypeOK, FlagInv, OwnConfirmation, ExecutionInv, StepInv, [Next]_vars
    PROVE  StepInv'
  <1>1. \A k \in Key : StepAt(k)'
    BY StepAtStep DEF StepInv
  <1> QED BY <1>1, RecoveryStep DEF StepInv

\* A timeout puts answers and requests of an endpoint out of step, and nothing but a
\* reset or a slave's silence can end that: until then no request is told what the
\* slave said of it, and without a timeout none is told that its answer is bad data.
THEOREM OnlyResetOrSilenceRecovers == Spec => []RecoversByResetOrSilence
  <1>1. Init => StepInv
    <2> SUFFICES ASSUME Init PROVE StepInv
      OBVIOUS
    <2>1. outbox = <<>> /\ pc = "recv"
      BY DEF Init
    <2>2. ASSUME NEW k \in Key PROVE rx[k] = {} /\ Current(k) = {} /\ wire[k] = {} /\ silent[k] = {}
      BY DEF Init, Current
    <2>3. ASSUME NEW k, NEW first PROVE ~GaveUp(k, first)
      BY <2>1 DEF GaveUp
    <2>4. ASSUME NEW k PROVE ~OutNow(k)
      BY <2>3 DEF OutNow
    <2>5. ASSUME NEW k \in Key PROVE StepAt(k)
      BY <2>1, <2>2, <2>3, <2>4
         DEF StepAt, InOrder, SilentSent, OwnIsLatest, OwnComes, StaleComes, OnlyOwnComes, Waits
    <2> QED BY <2>1, <2>5 DEF StepInv, RecoversByResetOrSilence
  <1>2. TypeOK /\ FlagInv /\ OwnConfirmation /\ ExecutionInv /\ StepInv /\ [Next]_vars => StepInv'
    BY StepInvStep
  <1>3. StepInv => RecoversByResetOrSilence
    BY DEF StepInv
  <1> QED
    BY <1>1, <1>2, <1>3, TypeCorrect, FlagInvariant, ConfirmationsAreOwn, ExecutionInvariant, PTL
       DEF Spec
=============================================================================
