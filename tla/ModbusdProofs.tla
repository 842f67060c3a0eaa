--------------------------- MODULE ModbusdProofs ---------------------------
(***************************************************************************)
(* What holds of Modbusd for every choice of its constants: its types,     *)
(* that every answer answers its own request, what the slaves execute and  *)
(* what the daemon says of it.                                             *)
(***************************************************************************)
EXTENDS Modbusd, TLAPS

\* A request's fields, wherever the daemon is at work on one.
LEMMA CurType ==
    ASSUME TypeOK, taken > 0
    PROVE  cur \in RequestType /\ Server \in Endpoint /\ key \in Key
  <1>1. cur \in Request
    BY DEF TypeOK, ClientsOK, DaemonOK, cur
  <1>2. Server \in Endpoint
    BY <1>1 DEF Server, Endpoint
  <1> QED BY <1>1, <1>2, ConstantsAssumption DEF key, Key

\* The variables of the contexts keep their types,
LEMMA ContextStep ==
    ASSUME TypeOK, [Next]_vars
    PROVE  ContextOK'
  <1> USE DEF TypeOK, ContextOK, InUseOK
  <1>1. CASE UNCHANGED context
    BY <1>1 DEF context
  <1>2. CASE mbtcp_init_handle
    <2>1. key \in Key
      BY <1>2, CurType DEF mbtcp_init_handle, At
    <2> QED BY <1>2, <2>1 DEF mbtcp_init_handle, At
  <1>3. ASSUME NEW h \in Key, Connected(h) PROVE ContextOK'
    BY <1>3 DEF Connected
  <1>4. CASE FirstConnect
    BY <1>1, <1>3, <1>4 DEF FirstConnect, modbus_connect, ConnectKeepsOld, ConnectFailed, context
  <1>5. CASE lazy_mbtcp_connect
    BY <1>1, <1>3, <1>5 DEF lazy_mbtcp_connect, modbus_connect, ConnectKeepsOld, ConnectFailed
  <1>6. CASE SendBroken \/ ResponseTimeout
    BY <1>6 DEF SendBroken, ResponseTimeout, At
  <1>7. CASE Send
    BY <1>7 DEF Send, At
  <1>8. ASSUME NEW m, Receive(m) PROVE ContextOK'
    BY <1>8 DEF Receive
  <1>9. CASE ConnectionReset
    BY <1>9 DEF ConnectionReset
  <1>10. ASSUME NEW h \in Key, LinkFault(h) PROVE ContextOK'
    BY <1>10 DEF LinkFault, Cut
  <1>11. ASSUME NEW h \in Key, SlaveReturn(h) PROVE ContextOK'
    BY <1>11 DEF SlaveReturn
  <1>12. ASSUME NEW h \in Key, KernelGivesUp(h) PROVE ContextOK'
    BY <1>12 DEF KernelGivesUp
  <1>13. ASSUME NEW h \in Key, NEW m \in wire[h], NEW s \in Confirmation,
                SlaveAnswer(h, m, s)
         PROVE  ContextOK'
    BY <1>13 DEF SlaveAnswer, SlavesOK, PduType, ReplyType
  <1>14. CASE UNCHANGED vars
    BY <1>1, <1>14 DEF vars
  <1>15. ASSUME NEW h, NEW m, NEW did, SlaveSilent(h, m, did) PROVE ContextOK'
    BY <1>1, <1>15 DEF SlaveSilent
  <1> QED
    BY <1>1, <1>2, <1>3, <1>4, <1>5, <1>6, <1>7, <1>8, <1>9, <1>10, <1>11, <1>12,
       <1>13, <1>14, <1>15
       DEF NameOverrun, Next, Daemon, Work, Environment, Recv, Stop, NullItem, Refuse, IgnoreRtu,
           mbtcp_set_response_timeout, FindHandle, NoContext, TooMany, Overrun,
           ResponseTimeout, Interrupt, ClientPublish

\* ... those of the clients,
LEMMA ClientsStep ==
    ASSUME TypeOK, [Next]_vars
    PROVE  ClientsOK' /\ interrupted' \in BOOLEAN
  <1> USE DEF TypeOK, ClientsOK
  <1>1. CASE UNCHANGED clients
    BY <1>1 DEF clients
  <1>2. ASSUME NEW r \in Request, ClientPublish(r) PROVE ClientsOK' /\ UNCHANGED interrupted
    BY <1>2 DEF ClientPublish
  <1>3. CASE Interrupt
    <2>1. ClientsOK'
      BY <1>3 DEF Interrupt
    <2>2. interrupted' \in BOOLEAN
      BY <1>3 DEF Interrupt
    <2> QED BY <2>1, <2>2
  <1>4. CASE UNCHANGED vars
    BY <1>1, <1>4 DEF vars
  <1>5. ASSUME NEW h \in Key, LinkFault(h) \/ SlaveReturn(h) \/ KernelGivesUp(h)
        PROVE  UNCHANGED clients
    BY <1>5 DEF LinkFault, SlaveReturn, KernelGivesUp
  <1> QED
    BY <1>1, <1>2, <1>3, <1>4, <1>5
       DEF Next, Daemon, Work, Environment, Recv, Stop, NullItem, Refuse, IgnoreRtu,
           mbtcp_set_response_timeout, FindHandle, mbtcp_init_handle, NoContext,
           FirstConnect, lazy_mbtcp_connect, TooMany, Overrun, SendBroken, Send,
           Receive, ConnectionReset, ResponseTimeout, SlaveAnswer, SlaveSilent, NameOverrun

\* ... and those of the slaves.
LEMMA SlavesStep ==
    ASSUME TypeOK, [Next]_vars
    PROVE  SlavesOK'
  <1> USE DEF TypeOK, SlavesOK
  <1>1. CASE UNCHANGED slaves
    BY <1>1 DEF slaves
  <1>2. CASE Send
    <2>1. Pdu(ptr_handle) \in PduType
      BY <1>2 DEF Send, At, Pdu, PduType, UnitType, modbus_set_slave, Handle,
                  DaemonOK, ContextOK, InUseOK
    <2> QED BY <1>2, <2>1 DEF Send, At, InUseOK
  <1>3. ASSUME NEW h \in Key, NEW m \in wire[h], NEW s \in Confirmation,
               SlaveAnswer(h, m, s)
        PROVE  SlavesOK'
    <2>1. [id |-> m.id, slave |-> m.slave] \in EffectType
      BY DEF PduType, EffectType
    <2>2. Append(executed[h], [id |-> m.id, slave |-> m.slave]) \in Seq(EffectType)
      BY <2>1
    <2>3. executed' \in [Key -> Seq(EffectType)]
      BY <1>3, <2>2 DEF SlaveAnswer
    <2> QED BY <1>3, <2>3 DEF SlaveAnswer
  <1>4. ASSUME NEW h \in Key, LinkFault(h) PROVE SlavesOK'
    <2>1. up' \in [Key -> BOOLEAN]
      BY <1>4 DEF LinkFault
    <2> QED BY <1>4, <2>1 DEF LinkFault
  <1>5. ASSUME NEW h \in Key, SlaveReturn(h) PROVE SlavesOK'
    <2>1. up' \in [Key -> BOOLEAN]
      BY <1>5 DEF SlaveReturn
    <2> QED BY <1>5, <2>1 DEF SlaveReturn
  <1>6. ASSUME NEW h \in Key, KernelGivesUp(h) PROVE SlavesOK'
    BY <1>1, <1>6 DEF KernelGivesUp
  <1>7. CASE UNCHANGED vars
    BY <1>1, <1>7 DEF vars
  <1>8. ASSUME NEW h \in Key, NEW m \in wire[h], NEW did, SlaveSilent(h, m, did)
        PROVE  SlavesOK'
    <2>1. [id |-> m.id, slave |-> m.slave] \in EffectType /\ m.id \in Nat
      BY DEF PduType, EffectType
    <2>2. Append(executed[h], [id |-> m.id, slave |-> m.slave]) \in Seq(EffectType)
      BY <2>1
    <2>3. executed' \in [Key -> Seq(EffectType)]
      BY <1>8, <2>2 DEF SlaveSilent
    <2>4. silent' \in [Key -> SUBSET Nat]
      BY <1>8, <2>1 DEF SlaveSilent
    <2> QED BY <1>8, <2>3, <2>4 DEF SlaveSilent
  <1> QED
    BY <1>1, <1>2, <1>3, <1>4, <1>5, <1>6, <1>7, <1>8
       DEF Next, Daemon, Work, Environment, Recv, Stop, NullItem, Refuse, IgnoreRtu,
           mbtcp_set_response_timeout, FindHandle, mbtcp_init_handle, NoContext,
           FirstConnect, lazy_mbtcp_connect, TooMany, Overrun, SendBroken,
           Receive, ConnectionReset, ResponseTimeout, Interrupt, ClientPublish, NameOverrun

\* What an answer adds to the outbox, and where it leaves main().
LEMMA AnswerStep ==
    ASSUME TypeOK, taken > 0, NEW status \in Status, NEW from \in Nat,
           Answer(status, from)
    PROVE  outbox' \in Seq(AnswerType) /\ pc' \in {"recv", "stopped"}
  <1>1. cur.tid \in Nat
    BY CurType DEF RequestType
  <1>2. [id |-> taken, tid |-> cur.tid, status |-> status, from |-> from] \in AnswerType
    BY <1>1 DEF AnswerType, TypeOK, DaemonOK
  <1> QED BY <1>2 DEF Answer, TypeOK, DaemonOK

\* What the handlers do to a handle leaves a handle.
LEMMA HandleClosed ==
    ASSUME NEW h \in Handle
    PROVE  /\ \A slave : modbus_set_slave(h, slave) \in Handle
           /\ \A errno : set_modbus_errno_resp(h, errno) \in Handle
           /\ [h EXCEPT !.connected = TRUE] \in Handle
  BY DEF Handle, modbus_set_slave, set_modbus_errno_resp

\* A fresh handle is one, whatever the timeout asked for.
LEMMA NewHandleType ==
    ASSUME NEW e \in Endpoint, NEW usec \in Nat
    PROVE  NewHandle(e, usec) \in Handle
  <1>1. ASSUME NEW t \in Nat, NEW c \in BOOLEAN
        PROVE  [ctx |-> e, connected |-> c, slave |-> MODBUS_TCP_SLAVE, timeout |-> t] \in Handle
    BY Zenon DEF Handle
  <1>2. (IF Accepted(usec) THEN usec ELSE LibraryTimeout) \in Nat
    BY SMT DEF LibraryTimeout
  <1>3. Smeared(e) \in BOOLEAN
    BY DEF Smeared
  <1> QED BY <1>1, <1>2, <1>3, Zenon DEF NewHandle

\* Replacing the handle at one key leaves a table.
LEMMA TableClosed ==
    ASSUME mbtcp_htable \in [Key -> Handle \cup {NoHandle}],
           NEW k \in Key, NEW h \in Handle,
           mbtcp_htable' = [mbtcp_htable EXCEPT ![k] = h]
    PROVE  mbtcp_htable' \in [Key -> Handle \cup {NoHandle}] /\ mbtcp_htable'[k] \in Handle
  OBVIOUS

\* A connection attempt, successful or not, leaves a handle in its place.
LEMMA ConnectStep ==
    ASSUME TypeOK, NEW h \in Key, mbtcp_htable[h] \in Handle,
           modbus_connect(h) \/ ConnectFailed(h)
    PROVE  mbtcp_htable' \in [Key -> Handle \cup {NoHandle}] /\ mbtcp_htable'[h] \in Handle
  <1>1. CASE modbus_connect(h)
    <2>1. mbtcp_htable' = [mbtcp_htable EXCEPT ![h] = [mbtcp_htable[h] EXCEPT !.connected = TRUE]]
      BY <1>1 DEF modbus_connect, Connected, ConnectKeepsOld
    <2> QED BY <2>1, HandleClosed, TableClosed DEF TypeOK, DaemonOK
  <1>2. CASE ConnectFailed(h)
    BY <1>2 DEF ConnectFailed, TypeOK, DaemonOK
  <1> QED BY <1>1, <1>2

\* An answer to a failed receive leaves the daemon's variables in their types.
LEMMA FailStep ==
    ASSUME TypeOK, pc = "wait", NEW errno \in Errno, NEW from \in Nat, Fail(errno, from)
    PROVE  /\ mbtcp_htable' \in [Key -> Handle \cup {NoHandle}]
           /\ outbox' \in Seq(AnswerType) /\ pc' \in {"recv", "stopped"}
  <1>1. taken > 0 /\ ptr_handle \in Key /\ mbtcp_htable[ptr_handle] \in Handle
    BY DEF TypeOK, InUseOK
  <1>2. errno \in Status
    BY DEF Status
  <1> QED BY <1>1, <1>2, AnswerStep, HandleClosed, TableClosed DEF Fail, TypeOK, DaemonOK

\* The daemon's variables and what it holds, over its own steps.
LEMMA DaemonStep ==
    ASSUME TypeOK, Daemon
    PROVE  DaemonOK' /\ InUseOK'
  <1> USE DEF TypeOK, DaemonOK, InUseOK
  <1>1. CASE Recv
    BY <1>1 DEF Recv, clients
  <1>2. CASE Stop \/ NullItem \/ IgnoreRtu \/ Overrun \/ NameOverrun
    BY <1>2 DEF Stop, NullItem, IgnoreRtu, Overrun, NameOverrun, At, clients
  <1>3. CASE Refuse
    <2>1. taken > 0 /\ \E s \in Status : Answer(s, 0)
      BY <1>3 DEF Refuse, At, Status
    <2>2. outbox' \in Seq(AnswerType) /\ pc' \in {"recv", "stopped"}
      BY <2>1, AnswerStep
    <2> QED BY <1>3, <2>1, <2>2 DEF Refuse, clients
  <1>4. CASE mbtcp_set_response_timeout
    <2>1. taken > 0 /\ "ok" \in Status /\ Answer("ok", taken)
      BY <1>4 DEF mbtcp_set_response_timeout, At, Status
    <2>2. outbox' \in Seq(AnswerType) /\ pc' \in {"recv", "stopped"}
      BY <2>1, AnswerStep
    <2>3. cur.data \in Nat
      BY <2>1, CurType DEF RequestType
    <2> QED BY <1>4, <2>1, <2>2, <2>3 DEF mbtcp_set_response_timeout, clients
  <1>5. CASE FindHandle
    <2>1. taken > 0 /\ key \in Key
      BY <1>5, CurType DEF FindHandle, At
    <2> QED BY <1>5, <2>1 DEF FindHandle, mbtcp_get_handle, clients
  <1>6. CASE mbtcp_init_handle
    <2>1. taken > 0 /\ key \in Key
      BY <1>6, CurType DEF mbtcp_init_handle, At
    <2>2. NewHandle(Server, tcp_conn_timeout_usec) \in Handle
      BY <2>1, CurType, NewHandleType
    <2>3. mbtcp_htable' \in [Key -> Handle \cup {NoHandle}] /\ mbtcp_htable'[key] \in Handle
      BY <1>6, <2>1, <2>2, TableClosed DEF mbtcp_init_handle
    <2> QED BY <1>6, <2>1, <2>3 DEF mbtcp_init_handle, clients
  <1>7. CASE NoContext
    <2>1. taken > 0 /\ "init modbus tcp handle fail" \in Status
          /\ Answer("init modbus tcp handle fail", 0)
      BY <1>7 DEF NoContext, At, Status
    <2>2. outbox' \in Seq(AnswerType) /\ pc' \in {"recv", "stopped"}
      BY <2>1, AnswerStep
    <2> QED BY <1>7, <2>1, <2>2 DEF NoContext, clients
  <1>8. CASE FirstConnect
    BY <1>8, ConnectStep DEF FirstConnect, clients
  <1>9. CASE lazy_mbtcp_connect
    <2>1. CASE pc' = "fc"
      BY <1>9, <2>1, ConnectStep DEF lazy_mbtcp_connect, clients, Answer
    <2>2. CASE Answer("Connection failed", 0) /\ ConnectFailed(ptr_handle)
      <3>1. "Connection failed" \in Status /\ taken > 0
        BY <1>9 DEF lazy_mbtcp_connect, Status
      <3>2. outbox' \in Seq(AnswerType) /\ pc' \in {"recv", "stopped"}
        BY <2>2, <3>1, AnswerStep
      <3> QED BY <1>9, <2>2, <3>1, <3>2 DEF lazy_mbtcp_connect, ConnectFailed, clients
    <2> QED BY <1>9, <2>1, <2>2 DEF lazy_mbtcp_connect
  <1>10. CASE TooMany
    <2>1. taken > 0 /\ \E s \in Status : Answer(s, 0)
      BY <1>10 DEF TooMany, At, Status, Errno
    <2>2. outbox' \in Seq(AnswerType) /\ pc' \in {"recv", "stopped"}
      BY <2>1, AnswerStep
    <2>3. mbtcp_htable' \in [Key -> Handle \cup {NoHandle}]
      BY <1>10, HandleClosed, TableClosed DEF TooMany, At, SetSlave
    <2> QED BY <1>10, <2>1, <2>2, <2>3 DEF TooMany, clients
  <1>11. CASE SendBroken
    <2>1. taken > 0 /\ \E s \in Status : Answer(s, 0)
      BY <1>11 DEF SendBroken, SendErrno, At, Status, Errno
    <2>2. outbox' \in Seq(AnswerType) /\ pc' \in {"recv", "stopped"}
      BY <2>1, AnswerStep
    <2>3. mbtcp_htable' \in [Key -> Handle \cup {NoHandle}]
      BY <1>11, HandleClosed, TableClosed DEF SendBroken, At
    <2> QED BY <1>11, <2>1, <2>2, <2>3 DEF SendBroken, clients
  <1>12. CASE Send
    <2>1. /\ mbtcp_htable' \in [Key -> Handle \cup {NoHandle}]
          /\ ptr_handle \in Key /\ mbtcp_htable'[ptr_handle] \in Handle
      BY <1>12, HandleClosed, TableClosed DEF Send, At, SetSlave
    <2> QED BY <1>12, <2>1 DEF Send, At, clients
  <1>13. ASSUME NEW m \in rx[ptr_handle], pc = "wait", Receive(m)
         PROVE  DaemonOK' /\ InUseOK'
    <2>1. m.id \in Nat /\ Outcome(m) \in Errno \cup {"ok"}
      BY <1>13 DEF ContextOK, ReplyType, Confirmation, Outcome, Errno
    <2>2. CASE Outcome(m) = "ok"
      <3>1. "ok" \in Status /\ taken > 0
        BY <1>13 DEF Status
      <3>2. outbox' \in Seq(AnswerType) /\ pc' \in {"recv", "stopped"}
        BY <1>13, <2>1, <2>2, <3>1, AnswerStep DEF Receive
      <3> QED BY <1>13, <2>2, <3>1, <3>2 DEF Receive, clients
    <2>3. CASE Outcome(m) # "ok"
      <3>1. /\ mbtcp_htable' \in [Key -> Handle \cup {NoHandle}]
            /\ outbox' \in Seq(AnswerType) /\ pc' \in {"recv", "stopped"}
        BY <1>13, <2>1, <2>3, FailStep DEF Receive
      <3> QED BY <1>13, <3>1 DEF Receive, clients
    <2> QED BY <2>2, <2>3
  <1>14. CASE ConnectionReset
    <2>1. "ECONNRESET" \in Errno
      BY DEF Errno
    <2>2. /\ mbtcp_htable' \in [Key -> Handle \cup {NoHandle}]
          /\ outbox' \in Seq(AnswerType) /\ pc' \in {"recv", "stopped"}
      BY <1>14, <2>1, FailStep DEF ConnectionReset
    <2> QED BY <1>14, <2>2 DEF ConnectionReset, clients
  <1>15. CASE ResponseTimeout
    <2>1. "ETIMEDOUT" \in Errno
      BY DEF Errno
    <2>2. /\ mbtcp_htable' \in [Key -> Handle \cup {NoHandle}]
          /\ outbox' \in Seq(AnswerType) /\ pc' \in {"recv", "stopped"}
      BY <1>15, <2>1, FailStep DEF ResponseTimeout
    <2> QED BY <1>15, <2>2 DEF ResponseTimeout, clients
  <1> QED
    BY <1>1, <1>2, <1>3, <1>4, <1>5, <1>6, <1>7, <1>8, <1>9, <1>10, <1>11, <1>12,
       <1>13, <1>14, <1>15 DEF Daemon, Work

\* ... and over everybody else's.
LEMMA DaemonUndisturbed ==
    ASSUME TypeOK, Environment \/ UNCHANGED vars
    PROVE  DaemonOK' /\ InUseOK'
  <1> USE DEF TypeOK, ClientsOK, DaemonOK, InUseOK
  <1>1. ASSUME UNCHANGED daemon, UNCHANGED published PROVE DaemonOK' /\ InUseOK'
    BY <1>1 DEF daemon
  <1>2. ASSUME NEW r \in Request, ClientPublish(r) PROVE DaemonOK' /\ InUseOK'
    BY <1>2 DEF ClientPublish, daemon
  <1> QED
    BY <1>1, <1>2
       DEF Environment, Interrupt, LinkFault, SlaveReturn, KernelGivesUp, SlaveAnswer,
           SlaveSilent, vars, clients

\* TypeOK is inductive.
LEMMA TypeStep ==
    ASSUME TypeOK, [Next]_vars
    PROVE  TypeOK'
  BY ClientsStep, DaemonStep, DaemonUndisturbed, ContextStep, SlavesStep DEF TypeOK, Next

\* Every variable has its type, and the daemon a request and a handle wherever it
\* uses them.
THEOREM TypeCorrect == Spec => []TypeOK
  <1>1. Init => TypeOK
    <2> SUFFICES ASSUME Init PROVE TypeOK
      OBVIOUS
    <2>1. interrupted = FALSE
      BY DEF Init
    <2>2. interrupted \in BOOLEAN
      BY <2>1
    <2> USE ConstantsAssumption DEF Init
    <2>3. ClientsOK
      BY DEF ClientsOK
    <2>4. DaemonOK
      BY DEF DaemonOK
    <2>5. ContextOK
      BY DEF ContextOK
    <2>6. SlavesOK
      BY DEF SlavesOK
    <2>7. InUseOK
      BY DEF InUseOK
    <2> QED BY <2>2, <2>3, <2>4, <2>5, <2>6, <2>7 DEF TypeOK
  <1>2. TypeOK /\ [Next]_vars => TypeOK'
    BY TypeStep
  <1> QED BY <1>1, <1>2, PTL DEF Spec

----------------------------------------------------------------------------
\* Handles stay.

\* Two handles of one context, as it was created.
Alike(g, h) == g.ctx = h.ctx /\ g.timeout = h.timeout

\* Nothing the handlers set in a handle is the names or the timeout of its context.
LEMMA SameHandle ==
    ASSUME NEW h \in Handle
    PROVE  /\ \A slave : Alike(modbus_set_slave(h, slave), h)
           /\ \A errno : Alike(set_modbus_errno_resp(h, errno), h)
           /\ Alike([h EXCEPT !.connected = TRUE], h)
  BY DEF Alike, Handle, modbus_set_slave, set_modbus_errno_resp

\* A step that puts a handle of the same context in the place of one.
LEMMA HandleReplaced ==
    ASSUME TypeOK, NEW p \in Key, mbtcp_htable[p] \in Handle,
           NEW h \in Handle, Alike(h, mbtcp_htable[p]),
           mbtcp_htable' = [mbtcp_htable EXCEPT ![p] = h],
           NEW k \in Key, mbtcp_htable[k] # NoHandle
    PROVE  mbtcp_htable'[k] # NoHandle /\ Alike(mbtcp_htable'[k], mbtcp_htable[k])
  BY ConstantsAssumption DEF TypeOK, DaemonOK, Alike

\* A step keeps every handle that is there, with its context.
LEMMA HandlesStay ==
    ASSUME TypeOK, [Next]_vars, NEW k \in Key, mbtcp_htable[k] # NoHandle
    PROVE  mbtcp_htable'[k] # NoHandle /\ Alike(mbtcp_htable'[k], mbtcp_htable[k])
  <1> DEFINE Stays == mbtcp_htable'[k] # NoHandle /\ Alike(mbtcp_htable'[k], mbtcp_htable[k])
  <1>1. CASE UNCHANGED mbtcp_htable
    BY <1>1 DEF Alike
  <1>2. CASE mbtcp_init_handle
    <2>1. mbtcp_htable[key] = NoHandle \/ key = NoHandle
      BY <1>2 DEF mbtcp_init_handle, mbtcp_get_handle
    <2>2. key \in Key
      BY <1>2, CurType DEF mbtcp_init_handle, At, TypeOK, InUseOK
    <2>3. key # k
      BY <2>1, <2>2, ConstantsAssumption
    <2>4. mbtcp_htable'[k] = mbtcp_htable[k]
      BY <1>2, <2>3 DEF mbtcp_init_handle, TypeOK, DaemonOK
    <2> QED BY <2>4 DEF Alike
  <1>3. ASSUME NEW p \in Key, mbtcp_htable[p] \in Handle, modbus_connect(p) PROVE Stays
    <2>1. mbtcp_htable' = [mbtcp_htable EXCEPT ![p] = [mbtcp_htable[p] EXCEPT !.connected = TRUE]]
      BY <1>3 DEF modbus_connect, Connected, ConnectKeepsOld
    <2> QED BY <1>3, <2>1, HandleClosed, SameHandle, HandleReplaced
  <1>4. CASE FirstConnect \/ lazy_mbtcp_connect
    <2>1. ptr_handle \in Key /\ mbtcp_htable[ptr_handle] \in Handle
      BY <1>4 DEF FirstConnect, lazy_mbtcp_connect, TypeOK, InUseOK
    <2>2. modbus_connect(ptr_handle) \/ UNCHANGED mbtcp_htable
      BY <1>4 DEF FirstConnect, lazy_mbtcp_connect, ConnectFailed
    <2> QED BY <1>1, <1>3, <2>1, <2>2
  <1>5. CASE TooMany \/ Send
    <2>1. ptr_handle \in Key /\ mbtcp_htable[ptr_handle] \in Handle
      BY <1>5 DEF TooMany, Send, At, TypeOK, InUseOK
    <2>2. mbtcp_htable' =
            [mbtcp_htable EXCEPT ![ptr_handle] = modbus_set_slave(mbtcp_htable[ptr_handle], cur.slave)]
      BY <1>5 DEF TooMany, Send, SetSlave
    <2> QED BY <2>1, <2>2, HandleClosed, SameHandle, HandleReplaced
  <1>6. CASE SendBroken
    <2>1. ptr_handle \in Key /\ mbtcp_htable[ptr_handle] \in Handle
      BY <1>6 DEF SendBroken, At, TypeOK, InUseOK
    <2>2. mbtcp_htable' = [mbtcp_htable EXCEPT ![ptr_handle] =
            set_modbus_errno_resp(modbus_set_slave(mbtcp_htable[ptr_handle], cur.slave), SendErrno(ptr_handle))]
      BY <1>6 DEF SendBroken
    <2>3. PICK g : g = modbus_set_slave(mbtcp_htable[ptr_handle], cur.slave)
      OBVIOUS
    <2>4. g \in Handle /\ Alike(g, mbtcp_htable[ptr_handle])
      BY <2>1, <2>3, HandleClosed, SameHandle
    <2>5. PICK h : h = set_modbus_errno_resp(g, SendErrno(ptr_handle))
      OBVIOUS
    <2>6. h \in Handle /\ Alike(h, mbtcp_htable[ptr_handle])
      BY <2>4, <2>5, HandleClosed, SameHandle DEF Alike
    <2>7. mbtcp_htable' = [mbtcp_htable EXCEPT ![ptr_handle] = h]
      BY <2>2, <2>3, <2>5
    <2> QED BY <2>1, <2>6, <2>7, HandleReplaced
  <1>7. ASSUME pc = "wait", NEW errno, NEW from, Fail(errno, from) PROVE Stays
    <2>1. ptr_handle \in Key /\ mbtcp_htable[ptr_handle] \in Handle
      BY <1>7 DEF TypeOK, InUseOK
    <2>2. mbtcp_htable' =
            [mbtcp_htable EXCEPT ![ptr_handle] = set_modbus_errno_resp(mbtcp_htable[ptr_handle], errno)]
      BY <1>7 DEF Fail
    <2> QED BY <2>1, <2>2, HandleClosed, SameHandle, HandleReplaced
  <1>8. ASSUME NEW m, Receive(m) PROVE Stays
    BY <1>1, <1>7, <1>8 DEF Receive
  <1>9. CASE ConnectionReset \/ ResponseTimeout
    BY <1>7, <1>9 DEF ConnectionReset, ResponseTimeout
  <1>10. CASE Recv \/ Stop \/ NullItem \/ Refuse \/ IgnoreRtu \/ mbtcp_set_response_timeout
              \/ FindHandle \/ NoContext \/ Overrun \/ NameOverrun
    BY <1>1, <1>10 DEF Recv, Stop, NullItem, Refuse, IgnoreRtu, mbtcp_set_response_timeout,
                       FindHandle, NoContext, Overrun, NameOverrun
  <1>11. CASE Environment \/ UNCHANGED vars
    BY <1>1, <1>11 DEF Environment, Interrupt, ClientPublish, LinkFault, SlaveReturn,
                       KernelGivesUp, SlaveAnswer, SlaveSilent, vars, daemon
  <1> QED
    BY <1>2, <1>4, <1>5, <1>6, <1>8, <1>9, <1>10, <1>11 DEF Next, Daemon, Work

\* A transaction id goes back only with a new context.
LEMMA TransactionsAdvance ==
    ASSUME TypeOK, [Next]_vars, NEW k \in Key, mbtcp_htable[k] # NoHandle
    PROVE  t_id'[k] >= t_id[k]
  <1>1. t_id \in [Key -> Nat]
    BY DEF TypeOK, ContextOK
  <1>2. CASE UNCHANGED t_id
    BY <1>1, <1>2
  <1>3. CASE mbtcp_init_handle
    <2>1. mbtcp_htable[key] = NoHandle \/ key = NoHandle
      BY <1>3 DEF mbtcp_init_handle, mbtcp_get_handle
    <2>2. key \in Key
      BY <1>3, CurType DEF mbtcp_init_handle, At, TypeOK, InUseOK
    <2>3. key # k
      BY <2>1, <2>2, ConstantsAssumption
    <2> QED BY <1>1, <1>3, <2>3 DEF mbtcp_init_handle
  <1>4. CASE SendBroken \/ Send
    BY <1>1, <1>4 DEF SendBroken, Send
  <1> QED
    BY <1>2, <1>3, <1>4
       DEF Next, Daemon, Work, Environment, Recv, Stop, NullItem, Refuse, IgnoreRtu,
           mbtcp_set_response_timeout, FindHandle, NoContext, FirstConnect, modbus_connect,
           Connected, ConnectKeepsOld, ConnectFailed, lazy_mbtcp_connect, TooMany, Overrun, Receive, ConnectionReset,
           ResponseTimeout, Interrupt, ClientPublish, LinkFault, SlaveReturn,
           KernelGivesUp, SlaveAnswer, SlaveSilent, NameOverrun, vars, context

\* No key ever loses its handle or gets another: the names and the timeout it was
\* created with and its count of transactions go on.
THEOREM HandlesAreKept == Spec => HandleKept
  <1>1. TypeOK /\ [Next]_vars =>
          [\A k \in Key : mbtcp_htable[k] # NoHandle =>
              /\ mbtcp_htable'[k] # NoHandle
              /\ mbtcp_htable'[k].ctx = mbtcp_htable[k].ctx
              /\ mbtcp_htable'[k].timeout = mbtcp_htable[k].timeout
              /\ t_id'[k] >= t_id[k]]_vars
    BY HandlesStay, TransactionsAdvance DEF Alike
  <1> QED BY <1>1, TypeCorrect, PTL DEF Spec, HandleKept

----------------------------------------------------------------------------
\* Confirmations and transactions.

\* A step that puts nothing new on the way, takes no transaction id back and
\* does not begin to wait keeps OwnConfirmation.
LEMMA NothingNewPending ==
    ASSUME TypeOK, OwnConfirmation,
           \A k \in Key : \A m \in Pending(k)' : \E n \in Pending(k) :
               m.t_id = n.t_id /\ m.id = n.id,
           \A k \in Key : t_id[k] \in Nat /\ t_id'[k] \in Nat /\ t_id[k] <= t_id'[k],
           \A k \in Key : \A n \in Pending(k) : n.t_id \in Nat,
           \A k \in Key : mbtcp_htable'[k] = NoHandle => mbtcp_htable[k] = NoHandle,
           pc' # "wait" \/ UNCHANGED <<pc, taken, ptr_handle, t_id>>
    PROVE  OwnConfirmation'
  <1>1. ASSUME NEW k \in Key, NEW m \in Pending(k)' PROVE m.t_id <= t_id'[k]
    <2>1. PICK n \in Pending(k) : m.t_id = n.t_id
      BY <1>1
    <2> QED BY <2>1 DEF OwnConfirmation
  <1>2. ASSUME NEW k \in Key, mbtcp_htable'[k] = NoHandle PROVE Pending(k)' = {}
    BY <1>2 DEF OwnConfirmation
  <1>3. ASSUME pc' = "wait", NEW m \in Pending(ptr_handle)', m.t_id = t_id'[ptr_handle']
        PROVE  m.id = taken'
    <2>1. UNCHANGED <<pc, taken, ptr_handle, t_id>> /\ ptr_handle \in Key
      BY <1>3 DEF TypeOK, InUseOK
    <2>2. PICK n \in Pending(ptr_handle) : m.t_id = n.t_id /\ m.id = n.id
      BY <1>3, <2>1
    <2> QED BY <1>3, <2>1, <2>2 DEF OwnConfirmation
  <1> QED BY <1>1, <1>2, <1>3 DEF OwnConfirmation

\* Every confirmation a slave gives takes the place of the request.
LEMMA AnswerTakesPlace ==
    ASSUME TypeOK, NEW h \in Key, NEW m \in wire[h], NEW s \in Confirmation,
           SlaveAnswer(h, m, s), NEW k \in Key, NEW a \in Pending(k)'
    PROVE  \E n \in Pending(k) : a.t_id = n.t_id /\ a.id = n.id
  <1>1. wire \in [Key -> SUBSET PduType] /\ rx \in [Key -> SUBSET ReplyType]
    BY DEF TypeOK, SlavesOK, ContextOK
  <1>2. wire'[k] \subseteq wire[k]
    BY <1>1 DEF SlaveAnswer
  <1>3. rx'[k] \subseteq rx[k] \/ (k = h /\ rx'[k] = rx[k] \cup {[id |-> m.id, t_id |-> m.t_id, status |-> s]})
    BY <1>1 DEF SlaveAnswer
  <1> QED BY <1>2, <1>3 DEF Pending

\* OwnConfirmation is kept.
LEMMA OwnConfirmationStep ==
    ASSUME TypeOK, OwnConfirmation, [Next]_vars
    PROVE  OwnConfirmation'
  <1>1. ContextOK' /\ InUseOK' /\ DaemonOK'
    BY TypeStep DEF TypeOK
  <1>2. \A k \in Key : t_id[k] \in Nat /\ t_id'[k] \in Nat
    BY <1>1 DEF TypeOK, ContextOK
  <1>3. \A k \in Key : \A n \in Pending(k) : n.t_id \in Nat
    BY DEF TypeOK, ContextOK, SlavesOK, ReplyType, PduType, Pending
  <1>4. \A k \in Key : mbtcp_htable'[k] = NoHandle => mbtcp_htable[k] = NoHandle
    BY HandlesStay
  <1>5. wire \in [Key -> SUBSET PduType] /\ rx \in [Key -> SUBSET ReplyType]
    BY DEF TypeOK, SlavesOK, ContextOK
  <1>6. ASSUME UNCHANGED t_id, \A k \in Key : wire'[k] \subseteq wire[k] /\ rx'[k] \subseteq rx[k],
               pc' # "wait" \/ UNCHANGED <<pc, taken, ptr_handle>>
        PROVE  OwnConfirmation'
    <2>1. \A k \in Key : \A m \in Pending(k)' : \E n \in Pending(k) :
            m.t_id = n.t_id /\ m.id = n.id
      BY <1>6 DEF Pending
    <2> QED BY <1>2, <1>3, <1>4, <1>6, <2>1, NothingNewPending
  <1>7. ASSUME UNCHANGED <<t_id, wire, rx>>, pc' # "wait" PROVE OwnConfirmation'
    BY <1>6, <1>7
  <1>8. ASSUME NEW status \in Status, NEW from, Answer(status, from) PROVE pc' # "wait"
    BY <1>8 DEF Answer
  <1>9. CASE Recv \/ Stop \/ NullItem \/ IgnoreRtu \/ FindHandle \/ Overrun \/ NameOverrun
    BY <1>7, <1>9 DEF Recv, Stop, NullItem, IgnoreRtu, FindHandle, Overrun, NameOverrun, context,
                      slaves
  <1>10. CASE Refuse \/ mbtcp_set_response_timeout \/ NoContext \/ TooMany \/ ResponseTimeout
    BY <1>7, <1>10 DEF Refuse, mbtcp_set_response_timeout, NoContext, TooMany,
                       ResponseTimeout, Fail, Answer, context, slaves
  <1>11. CASE mbtcp_init_handle
    <2>1. key \in Key
      BY <1>11, CurType DEF mbtcp_init_handle, At, TypeOK, InUseOK
    <2>2. mbtcp_htable[key] = NoHandle
      BY <1>11, <2>1, ConstantsAssumption DEF mbtcp_init_handle, mbtcp_get_handle
    <2>3. wire[key] = {} /\ rx[key] = {}
      BY <2>1, <2>2 DEF OwnConfirmation, Pending
    <2>4. pc' # "wait" /\ wire' = wire /\ rx' = [rx EXCEPT ![key] = {}] /\ t_id' = [t_id EXCEPT ![key] = 0]
      BY <1>11 DEF mbtcp_init_handle, slaves
    <2>5. rx' = rx
      BY <1>5, <2>1, <2>3, <2>4
    <2>6. \A k \in Key : Pending(k)' = Pending(k)
      BY <2>4, <2>5 DEF Pending
    <2>7. ASSUME NEW k \in Key, NEW m \in Pending(k)' PROVE m.t_id <= t_id'[k]
      <3>1. k # key
        BY <2>3, <2>6, <2>7 DEF Pending
      <3>2. t_id'[k] = t_id[k]
        BY <2>4, <3>1 DEF TypeOK, ContextOK
      <3> QED BY <2>6, <2>7, <3>2 DEF OwnConfirmation
    <2>8. ASSUME NEW k \in Key, mbtcp_htable'[k] = NoHandle PROVE Pending(k)' = {}
      BY <1>4, <2>6, <2>8 DEF OwnConfirmation
    <2> QED BY <2>4, <2>7, <2>8 DEF OwnConfirmation
  <1>12. ASSUME NEW h \in Key, modbus_connect(h) \/ ConnectFailed(h), UNCHANGED slaves,
                pc' # "wait"
         PROVE  OwnConfirmation'
    <2>1. UNCHANGED t_id /\ UNCHANGED wire
      BY <1>12 DEF modbus_connect, Connected, ConnectKeepsOld, ConnectFailed, context, slaves
    <2>2. \A k \in Key : rx'[k] \subseteq rx[k]
      BY <1>5, <1>12 DEF modbus_connect, Connected, ConnectKeepsOld, ConnectFailed, context
    <2> QED BY <1>6, <1>12, <2>1, <2>2
  <1>13. CASE FirstConnect \/ lazy_mbtcp_connect
    <2>1. ptr_handle \in Key /\ UNCHANGED slaves /\ pc' # "wait"
      BY <1>13 DEF FirstConnect, lazy_mbtcp_connect, TypeOK, InUseOK, Answer
    <2>2. modbus_connect(ptr_handle) \/ ConnectFailed(ptr_handle) \/ UNCHANGED context
      BY <1>13 DEF FirstConnect, lazy_mbtcp_connect
    <2> QED BY <1>7, <1>12, <2>1, <2>2 DEF context, slaves
  <1>14. CASE SendBroken
    <2>1. UNCHANGED <<wire, rx>> /\ t_id' = [t_id EXCEPT ![ptr_handle] = @ + 1] /\ pc' # "wait"
      BY <1>14 DEF SendBroken, Answer, slaves
    <2>2. \A k \in Key : t_id[k] <= t_id'[k]
      BY <1>2, <2>1 DEF TypeOK, ContextOK
    <2>3. \A k \in Key : Pending(k)' = Pending(k)
      BY <2>1 DEF Pending
    <2> QED BY <1>2, <1>3, <1>4, <2>1, <2>2, <2>3, NothingNewPending
  <1>15. CASE Send
    <2> DEFINE p == ptr_handle
    <2>1. /\ p \in Key /\ p' = p /\ taken' = taken
          /\ t_id' = [t_id EXCEPT ![p] = @ + 1] /\ rx' = rx
          /\ wire' = wire \/ wire' = [wire EXCEPT ![p] = @ \cup {Pdu(p)}]
          /\ mbtcp_htable[p] \in Handle
      BY <1>15 DEF Send, At, TypeOK, InUseOK
    <2>2. Pdu(p).t_id = t_id[p] + 1 /\ Pdu(p).id = taken
      BY DEF Pdu
    <2>3. \A k \in Key : k # p => Pending(k)' = Pending(k) /\ t_id'[k] = t_id[k]
      BY <1>5, <2>1 DEF Pending, TypeOK, ContextOK
    <2>4. Pending(p)' \subseteq Pending(p) \cup {Pdu(p)} /\ t_id'[p] = t_id[p] + 1
      BY <1>5, <2>1 DEF Pending, TypeOK, ContextOK
    <2>5. ASSUME NEW k \in Key, NEW m \in Pending(k)' PROVE m.t_id <= t_id'[k]
      <3>1. CASE k # p
        BY <2>3, <2>5, <3>1 DEF OwnConfirmation
      <3>2. CASE k = p /\ m \in Pending(p)
        BY <1>2, <1>3, <2>1, <2>4, <3>2 DEF OwnConfirmation
      <3>3. CASE k = p /\ m = Pdu(p)
        BY <1>2, <2>2, <2>4, <3>3
      <3> QED BY <2>1, <2>4, <2>5, <3>1, <3>2, <3>3
    <2>6. ASSUME NEW k \in Key, mbtcp_htable'[k] = NoHandle PROVE Pending(k)' = {}
      <3>1. mbtcp_htable[k] = NoHandle
        BY <1>4, <2>6
      <3>2. k # p
        BY <2>1, <3>1, ConstantsAssumption
      <3> QED BY <2>3, <3>1, <3>2 DEF OwnConfirmation
    <2>7. ASSUME NEW m \in Pending(p)', m.t_id = t_id'[p] PROVE m.id = taken'
      <3>1. m \notin Pending(p)
        BY <1>2, <1>3, <2>1, <2>4, <2>7 DEF OwnConfirmation
      <3> QED BY <2>1, <2>2, <2>4, <2>7, <3>1
    <2> QED BY <2>1, <2>5, <2>6, <2>7 DEF OwnConfirmation
  <1>16. ASSUME NEW m, Receive(m) PROVE OwnConfirmation'
    <2>1. UNCHANGED t_id /\ UNCHANGED wire /\ pc' # "wait"
      BY <1>16 DEF Receive, Fail, Answer, slaves
    <2>2. \A k \in Key : rx'[k] \subseteq rx[k]
      BY <1>5, <1>16 DEF Receive
    <2> QED BY <1>6, <2>1, <2>2
  <1>17. CASE ConnectionReset
    BY <1>7, <1>17 DEF ConnectionReset, Fail, Answer, slaves
  <1>18. CASE Interrupt \/ UNCHANGED vars \/ \E r \in Request : ClientPublish(r)
    BY <1>6, <1>18 DEF Interrupt, ClientPublish, vars, daemon, context, slaves
  <1>19. ASSUME NEW h \in Key, LinkFault(h) \/ SlaveReturn(h) \/ KernelGivesUp(h)
         PROVE  OwnConfirmation'
    <2>1. UNCHANGED t_id /\ UNCHANGED daemon
      BY <1>19 DEF LinkFault, SlaveReturn, KernelGivesUp
    <2>2. \A k \in Key : wire'[k] \subseteq wire[k] /\ rx'[k] \subseteq rx[k]
      BY <1>5, <1>19 DEF LinkFault, SlaveReturn, KernelGivesUp, slaves
    <2> QED BY <1>6, <2>1, <2>2 DEF daemon
  <1>20. ASSUME NEW h \in Key, NEW m \in wire[h], NEW s \in Confirmation,
                SlaveAnswer(h, m, s)
         PROVE  OwnConfirmation'
    <2>1. UNCHANGED t_id /\ UNCHANGED daemon
      BY <1>20 DEF SlaveAnswer
    <2>2. \A k \in Key : \A a \in Pending(k)' : \E n \in Pending(k) :
            a.t_id = n.t_id /\ a.id = n.id
      BY <1>20, AnswerTakesPlace
    <2> QED BY <1>2, <1>3, <1>4, <2>1, <2>2, NothingNewPending DEF daemon
  <1>21. ASSUME NEW h \in Key, NEW m, NEW did, SlaveSilent(h, m, did) PROVE OwnConfirmation'
    <2>1. UNCHANGED daemon /\ UNCHANGED context /\ wire' = [wire EXCEPT ![h] = @ \ {m}]
      BY <1>21 DEF SlaveSilent
    <2>2. \A k \in Key : wire'[k] \subseteq wire[k]
      BY <1>5, <2>1
    <2> QED BY <1>6, <2>1, <2>2 DEF daemon, context
  <1> QED
    BY <1>9, <1>10, <1>11, <1>13, <1>14, <1>15, <1>16, <1>17, <1>18, <1>19, <1>20, <1>21
       DEF Next, Daemon, Work, Environment

\* No confirmation on its way is from the future, and while the daemon waits at
\* most the one of its own request carries its transaction id.
THEOREM ConfirmationsAreOwn == Spec => []OwnConfirmation
  <1>1. Init => OwnConfirmation
    BY DEF Init, OwnConfirmation, Pending
  <1>2. TypeOK /\ OwnConfirmation /\ [Next]_vars => OwnConfirmation'
    BY OwnConfirmationStep
  <1> QED BY <1>1, <1>2, TypeCorrect, PTL DEF Spec

\* An answer given before its request was sent, or by the library, claims nothing
\* a slave said; one that does says it of the request it answers.
LEMMA AnswerIsOwn ==
    ASSUME TypeOK, AnswersOwnRequest, NEW status, NEW from, Answer(status, from),
           status \in Confirmation => from = taken
    PROVE  AnswersOwnRequest'
  <1>1. outbox \in Seq(AnswerType)
    BY DEF TypeOK, DaemonOK
  <1>2. PICK a : a = [id |-> taken, tid |-> cur.tid, status |-> status, from |-> from]
    OBVIOUS
  <1>3. outbox' = Append(outbox, a)
    BY <1>2 DEF Answer
  <1>4. ASSUME NEW i \in 1 .. Len(outbox'), outbox'[i].status \in Confirmation
        PROVE  outbox'[i].from = outbox'[i].id
    <2>1. CASE i = Len(outbox) + 1
      BY <1>1, <1>2, <1>3, <1>4, <2>1
    <2>2. CASE i # Len(outbox) + 1
      <3>1. i \in 1 .. Len(outbox) /\ outbox'[i] = outbox[i]
        BY <1>1, <1>3, <2>2
      <3> QED BY <1>4, <3>1 DEF AnswersOwnRequest, RangeOf
    <2> QED BY <2>1, <2>2
  <1> QED BY <1>4 DEF AnswersOwnRequest, RangeOf

\* A new answer quotes a slave only by a confirmation with the current id, which is
\* the request's own.
LEMMA AnswersOwnRequestStep ==
    ASSUME TypeOK, OwnConfirmation, AnswersOwnRequest, [Next]_vars
    PROVE  AnswersOwnRequest'
  <1>1. CASE UNCHANGED outbox
    BY <1>1 DEF AnswersOwnRequest
  <1>2. CASE Refuse
    <2>1. Answer("unsupport mode", 0) \/ Answer("unsupport request", 0)
      BY <1>2 DEF Refuse
    <2> QED BY <2>1, AnswerIsOwn DEF Confirmation
  <1>3. CASE mbtcp_set_response_timeout
    BY <1>3, AnswerIsOwn DEF mbtcp_set_response_timeout
  <1>4. CASE NoContext
    BY <1>4, AnswerIsOwn DEF NoContext, Confirmation
  <1>5. CASE lazy_mbtcp_connect
    BY <1>1, <1>5, AnswerIsOwn DEF lazy_mbtcp_connect, Confirmation
  <1>6. CASE TooMany
    <2>1. Answer("Too many", 0) \/ Answer("EMBMDATA", 0)
      BY <1>6 DEF TooMany
    <2> QED BY <2>1, AnswerIsOwn DEF Confirmation
  <1>7. CASE SendBroken
    BY <1>7, AnswerIsOwn DEF SendBroken, SendErrno, Confirmation
  <1>8. ASSUME NEW m \in rx[ptr_handle], pc = "wait", Receive(m) PROVE AnswersOwnRequest'
    <2>1. Answer(Outcome(m), m.id)
      BY <1>8 DEF Receive, Fail
    <2>2. ASSUME Outcome(m) \in Confirmation PROVE m.id = taken
      <3>1. m.t_id = t_id[ptr_handle]
        BY <2>2 DEF Outcome, Confirmation
      <3> QED BY <1>8, <3>1 DEF OwnConfirmation, Pending
    <2> QED BY <2>1, <2>2, AnswerIsOwn
  <1>9. CASE ConnectionReset
    BY <1>9, AnswerIsOwn DEF ConnectionReset, Fail, Confirmation
  <1>10. CASE ResponseTimeout
    BY <1>10, AnswerIsOwn DEF ResponseTimeout, Fail, Confirmation
  <1> QED
    BY <1>1, <1>2, <1>3, <1>4, <1>5, <1>6, <1>7, <1>8, <1>9, <1>10
       DEF Next, Daemon, Work, Environment, Recv, Stop, NullItem, IgnoreRtu, FindHandle,
           mbtcp_init_handle, FirstConnect, Overrun, Send, Interrupt, ClientPublish,
           LinkFault, SlaveReturn, KernelGivesUp, SlaveAnswer, SlaveSilent, NameOverrun, vars,
           daemon

\* Whatever is late, lost or given up, no answer reports what a slave said of
\* another request.
THEOREM AnswersAreOwn == Spec => []AnswersOwnRequest
  <1>1. Init => AnswersOwnRequest
    BY DEF Init, AnswersOwnRequest, RangeOf
  <1>2. TypeOK /\ OwnConfirmation /\ AnswersOwnRequest /\ [Next]_vars => AnswersOwnRequest'
    BY AnswersOwnRequestStep
  <1> QED BY <1>1, <1>2, TypeCorrect, ConfirmationsAreOwn, PTL DEF Spec

----------------------------------------------------------------------------
\* What the slaves execute and what the daemon says of it.


\* Where a request in hand has not been sent yet.
Before == {"dispatch", "init", "connect", "fc"}
\* Where the daemon works for the slave of ptr_handle.
AtSlave == {"init", "connect", "fc", "wait"}

\* The slave the daemon works for is the one the request names.
AtHome == pc \in AtSlave => ptr_handle = key /\ Transacts(taken)

\* A request or an effect is at the slave it names, at the unit it names.
Addressed(k, m) ==
    /\ m.id \in Id
    /\ KeyAt(m.id) = k
    /\ Transacts(m.id)
    /\ published[m.id].slave \in ValidSlave => m.slave = published[m.id].slave

Executions(k) == RangeOf(executed[k])
Did(k, id) == \E e \in Executions(k) : e.id = id

WireAddressed     == \A k \in Key : \A m \in wire[k] : Addressed(k, m)
ExecutedAddressed == \A k \in Key : \A e \in Executions(k) : Addressed(k, e)

\* A request is in one place: with the daemon, on the wire, or executed.
Unsent(id) ==
    \A k \in Key : ~Did(k, id) /\ \A m \in wire[k] : m.id # id
SentAfter == pc \in Before => Unsent(taken)
OnWireOnce ==
    \A k \in Key : \A m \in wire[k] :
        ~Did(k, m.id) /\ \A n \in wire[k] : m.id = n.id => m = n

\* A slave that says "ok" has executed the request.
SaidWhatItDid == \A k \in Key : \A m \in rx[k] : m.status = "ok" => Did(k, m.id)

\* Statuses of requests that were not sent.
NotSent == {"Connection failed", "Too many", "EMBMDATA", "EPIPE", "EBADF",
            "init modbus tcp handle fail", "unsupport request", "unsupport mode"}

\* Answers are given to requests that have been taken; to the one in hand none yet.
AnsweredTaken ==
    \A a \in RangeOf(outbox) : a.id \in Id /\ (pc \notin {"recv", "stopped"} => a.id # taken)
RefusedUnsent ==
    \A a \in RangeOf(outbox) : Transacts(a.id) /\ a.status \in NotSent => Unsent(a.id)
OkDid ==
    \A a \in RangeOf(outbox) :
        Transacts(a.id) /\ a.status = "ok" => Did(KeyAt(a.id), a.id)

\* What was executed before a request was answered "ok" had been taken before it.
AnsweredOk(id) == \E a \in RangeOf(outbox) : a.status = "ok" /\ a.id = id
OkAfterEarlier ==
    \A k \in Key : \A i, j \in 1 .. Len(executed[k]) :
        i < j /\ AnsweredOk(executed[k][j].id) => executed[k][i].id < executed[k][j].id

\* The inductive invariant.
ExecutionInv ==
    /\ AtHome /\ WireAddressed /\ ExecutedAddressed
    /\ SentAfter /\ OnWireOnce /\ ExecutedAtMostOnce /\ SaidWhatItDid
    /\ AnsweredTaken /\ RefusedUnsent /\ OkDid /\ OkAfterEarlier

----------------------------------------------------------------------------
\* The kinds of step there are, to what these invariants speak of.

\* Nothing is answered or executed, nothing is sent; messages may be lost.
Quiet ==
    /\ UNCHANGED <<taken, outbox, executed>>
    /\ \A k \in Key : wire'[k] \subseteq wire[k] /\ rx'[k] \subseteq rx[k]
    /\ \A id \in Id : published'[id] = published[id]
    /\ pc' \in Before => pc \in Before
    /\ pc' \notin {"recv", "stopped"} => pc \notin {"recv", "stopped"}

\* The request in hand is answered.
Answering ==
    \E status \in Status, from \in Nat :
        /\ Answer(status, from)
        /\ UNCHANGED <<published, taken, executed, wire>>
        /\ \A k \in Key : rx'[k] \subseteq rx[k]
        /\ pc \in {"dispatch", "connect", "fc", "wait"}
        /\ status \in NotSent => pc \in Before
        /\ status = "ok" =>
             \/ ~Transacts(taken)
             \/ pc = "wait" /\ \E m \in rx[ptr_handle] :
                                  m.status = "ok" /\ m.t_id = t_id[ptr_handle]

\* A slave takes a request, and executes it or not; what it says of it comes back
\* or nothing does.
SlaveTook(h, m, did) ==
    /\ UNCHANGED <<daemon, clients>>
    /\ wire' = [wire EXCEPT ![h] = @ \ {m}]
    /\ executed' = IF did
                   THEN [executed EXCEPT ![h] = Append(@, [id |-> m.id, slave |-> m.slave])]
                   ELSE executed
    /\ \A k \in Key : \A r \in rx'[k] \ rx[k] :
          k = h /\ r.id = m.id /\ (r.status = "ok" => did)

\* A receive that fails is an answer that is not ok.
LEMMA FailAnswers ==
    ASSUME TypeOK, pc = "wait", NEW errno \in Errno \ NotSent, NEW from \in Nat,
           Fail(errno, from), UNCHANGED <<published, taken, executed, wire>>,
           \A k \in Key : rx'[k] \subseteq rx[k]
    PROVE  Answering
  <1>1. errno \in Status /\ errno # "ok" /\ Answer(errno, from)
    BY DEF Fail, Status, Errno
  <1> QED BY <1>1 DEF Answering

\* With an answer or without.
LEMMA SlaveTakes ==
    ASSUME TypeOK, NEW h \in Key, NEW m \in wire[h],
           \/ \E s \in Confirmation : SlaveAnswer(h, m, s)
           \/ \E did \in BOOLEAN : SlaveSilent(h, m, did)
    PROVE  \E did \in BOOLEAN : SlaveTook(h, m, did)
  <1>1. rx \in [Key -> SUBSET ReplyType]
    BY DEF TypeOK, ContextOK
  <1>2. ASSUME NEW s \in Confirmation, SlaveAnswer(h, m, s) PROVE SlaveTook(h, m, s = "ok")
    BY <1>1, <1>2 DEF SlaveAnswer, SlaveTook
  <1>3. ASSUME NEW did \in BOOLEAN, SlaveSilent(h, m, did) PROVE SlaveTook(h, m, did)
    BY <1>3 DEF SlaveSilent, SlaveTook, context
  <1>4. \A s \in Confirmation : (s = "ok") \in BOOLEAN
    OBVIOUS
  <1> QED BY <1>2, <1>3, <1>4

\* The five kinds of steps the requests' fates depend on.
LEMMA StepKinds ==
    ASSUME TypeOK, [Next]_vars
    PROVE  \/ Quiet \/ Answering \/ Recv \/ Send
           \/ \E h \in Key : \E m \in wire[h], did \in BOOLEAN : SlaveTook(h, m, did)
  <1>1. wire \in [Key -> SUBSET PduType] /\ rx \in [Key -> SUBSET ReplyType]
        /\ taken \in Nat /\ taken <= Len(published) /\ published \in Seq(Request)
    BY DEF TypeOK, ClientsOK, DaemonOK, ContextOK, SlavesOK
  <1>2. ASSUME UNCHANGED <<taken, outbox, executed, wire, rx, published>>,
               pc' \in Before => pc \in Before,
               pc' \notin {"recv", "stopped"} => pc \notin {"recv", "stopped"}
        PROVE  Quiet
    BY <1>2 DEF Quiet
  <1>3. ASSUME NEW status \in Status, Answer(status, 0), status # "ok",
               UNCHANGED <<published, taken, executed, wire>>,
               \A k \in Key : rx'[k] \subseteq rx[k],
               pc \in {"dispatch", "connect", "fc", "wait"}, status \in NotSent => pc \in Before
        PROVE  Answering
    BY <1>3 DEF Answering
  <1>4. CASE Stop \/ NullItem \/ IgnoreRtu \/ FindHandle \/ Overrun \/ NameOverrun
    BY <1>2, <1>4 DEF Stop, NullItem, IgnoreRtu, FindHandle, Overrun, NameOverrun, At, Before,
                      clients, context, slaves
  <1>5. CASE Refuse
    <2>1. PICK status \in {"unsupport mode", "unsupport request"} : Answer(status, 0)
      BY <1>5 DEF Refuse
    <2> QED BY <1>3, <1>5, <2>1 DEF Refuse, At, Before, Status, clients, context, slaves
  <1>6. CASE mbtcp_set_response_timeout
    <2>1. ~Transacts(taken) /\ "ok" \in Status
      BY <1>6 DEF mbtcp_set_response_timeout, Transacts, cur, Status, Fc, ReadBits, ReadRegs,
                  SingleWrite, MultiWrite
    <2> QED BY <1>1, <1>6, <2>1 DEF mbtcp_set_response_timeout, At, Answering, NotSent, clients,
                                    context, slaves
  <1>7. CASE mbtcp_init_handle
    <2>1. rx' = [rx EXCEPT ![key] = {}]
      BY <1>7 DEF mbtcp_init_handle
    <2>2. \A k \in Key : rx'[k] \subseteq rx[k]
      BY <1>1, <2>1
    <2> QED BY <1>7, <2>2 DEF mbtcp_init_handle, At, Quiet, Before, clients, slaves
  <1>8. CASE NoContext
    BY <1>3, <1>8 DEF NoContext, At, Before, Status, clients, context, slaves
  <1>9. ASSUME NEW h, modbus_connect(h) \/ ConnectFailed(h)
        PROVE  \A k \in Key : rx'[k] \subseteq rx[k]
    BY <1>1, <1>9 DEF modbus_connect, Connected, ConnectKeepsOld, ConnectFailed, context
  <1>10. CASE FirstConnect
    BY <1>9, <1>10 DEF FirstConnect, Quiet, Before, clients, slaves
  <1>11. CASE lazy_mbtcp_connect
    <2>1. CASE UNCHANGED outbox /\ pc' = "fc"
      <3>1. \A k \in Key : rx'[k] \subseteq rx[k]
        BY <1>9, <1>11, <2>1 DEF lazy_mbtcp_connect, context
      <3> QED BY <1>11, <2>1, <3>1 DEF lazy_mbtcp_connect, Quiet, Before, clients, slaves
    <2>2. CASE ConnectFailed(ptr_handle) /\ Answer("Connection failed", 0)
      <3>1. \A k \in Key : rx'[k] \subseteq rx[k]
        BY <1>9, <2>2
      <3> QED BY <1>3, <1>11, <2>2, <3>1 DEF lazy_mbtcp_connect, Before, Status, clients, slaves
    <2> QED BY <1>11, <2>1, <2>2 DEF lazy_mbtcp_connect
  <1>12. CASE TooMany
    <2>1. PICK status \in {"Too many", "EMBMDATA"} : Answer(status, 0)
      BY <1>12 DEF TooMany
    <2> QED BY <1>3, <1>12, <2>1 DEF TooMany, At, Before, Status, Errno, clients, context, slaves
  <1>13. CASE SendBroken
    <2>1. PICK status \in {"ETIMEDOUT", "EPIPE", "EBADF"} : Answer(status, 0)
      BY <1>13 DEF SendBroken, SendErrno
    <2> QED BY <1>3, <1>13, <2>1 DEF SendBroken, At, Before, Status, Errno, clients, slaves
  <1>14. ASSUME NEW m \in rx[ptr_handle], pc = "wait", Receive(m) PROVE Answering
    <2>1. \A k \in Key : rx'[k] \subseteq rx[k]
      BY <1>1, <1>14 DEF Receive
    <2>2. UNCHANGED <<published, taken, executed, wire>>
      BY <1>14 DEF Receive, clients, slaves
    <2>3. ptr_handle \in Key
      BY <1>14 DEF TypeOK, InUseOK
    <2>4. m.id \in Nat /\ m.status \in Confirmation
      BY <1>1, <2>3 DEF ReplyType
    <2>5. CASE Outcome(m) = "ok"
      <3>1. m.status = "ok" /\ m.t_id = t_id[ptr_handle]
        BY <2>5 DEF Outcome
      <3>2. "ok" \in Status /\ "ok" \notin NotSent /\ Answer("ok", m.id)
        BY <1>14, <2>5 DEF Receive, Status, NotSent
      <3> QED BY <1>14, <2>1, <2>2, <2>4, <3>1, <3>2 DEF Answering
    <2>6. CASE Outcome(m) # "ok"
      <3>1. Outcome(m) \in Errno \ NotSent /\ Fail(Outcome(m), m.id)
        BY <1>14, <2>4, <2>6 DEF Receive, Outcome, Confirmation, Errno, NotSent
      <3> QED BY <1>14, <2>1, <2>2, <2>4, <3>1, FailAnswers
    <2> QED BY <2>5, <2>6
  <1>15. CASE ConnectionReset \/ ResponseTimeout
    <2>1. PICK errno \in {"ECONNRESET", "ETIMEDOUT"} : Fail(errno, 0)
      BY <1>15 DEF ConnectionReset, ResponseTimeout
    <2>2. errno \in Errno \ NotSent
      BY DEF Errno, NotSent
    <2> QED BY <1>15, <2>1, <2>2, FailAnswers DEF ConnectionReset, ResponseTimeout, clients, slaves
  <1>16. CASE Interrupt \/ UNCHANGED vars
    BY <1>2, <1>16 DEF Interrupt, vars, daemon, context, slaves, clients
  <1>17. ASSUME NEW r \in Request, ClientPublish(r) PROVE Quiet
    <2>1. \A id \in Id : published'[id] = published[id]
      BY <1>1, <1>17 DEF ClientPublish, Id
    <2> QED BY <1>17, <2>1 DEF ClientPublish, Quiet, daemon, context, slaves
  <1>18. ASSUME NEW h \in Key, LinkFault(h) \/ SlaveReturn(h) \/ KernelGivesUp(h)
         PROVE  Quiet
    <2>1. \A k \in Key : wire'[k] \subseteq wire[k] /\ rx'[k] \subseteq rx[k]
      BY <1>1, <1>18 DEF LinkFault, SlaveReturn, KernelGivesUp, slaves
    <2> QED BY <1>18, <2>1 DEF LinkFault, SlaveReturn, KernelGivesUp, Quiet, daemon, slaves,
                               clients
  <1> QED
    BY <1>4, <1>5, <1>6, <1>7, <1>8, <1>10, <1>11, <1>12, <1>13, <1>14, <1>15, <1>16, <1>17,
       <1>18, SlaveTakes DEF Next, Daemon, Work, Environment

----------------------------------------------------------------------------
\* Where the daemon is, and for which slave.

\* What has been published stays.
LEMMA PublishedStays ==
    ASSUME TypeOK, [Next]_vars
    PROVE  \A id \in Id : published'[id] = published[id]
  <1>1. CASE Quiet
    BY <1>1 DEF Quiet
  <1>2. CASE UNCHANGED published
    BY <1>2
  <1> QED
    BY <1>1, <1>2, StepKinds DEF Answering, Recv, Send, SlaveTook, clients

\* At the slave's connection the daemon is at the one its request names.
LEMMA AtHomeStep ==
    ASSUME TypeOK, AtHome, [Next]_vars
    PROVE  AtHome'
  <1>1. CASE pc' \notin AtSlave
    BY <1>1 DEF AtHome
  <1>2. ASSUME pc' \in AtSlave, taken' = taken, taken > 0, ptr_handle' = key, Transacts(taken)
        PROVE  AtHome'
    <2>1. published'[taken] = published[taken]
      BY <1>2, PublishedStays DEF Id, TypeOK, DaemonOK
    <2> QED BY <1>2, <2>1 DEF AtHome, Transacts, key, Server, cur
  <1>3. ASSUME pc \in AtSlave, UNCHANGED <<taken, ptr_handle>> PROVE AtHome'
    BY <1>1, <1>2, <1>3 DEF AtHome, AtSlave, TypeOK, InUseOK
  <1>4. CASE FindHandle \/ mbtcp_init_handle
    <2>1. taken > 0 /\ taken' = taken /\ Transacts(taken)
      BY <1>4 DEF FindHandle, mbtcp_init_handle, At, Transacts, cur, TypeOK, InUseOK
    <2>2. ptr_handle' = key
      BY <1>4 DEF FindHandle, mbtcp_init_handle, mbtcp_get_handle
    <2> QED BY <1>1, <1>2, <2>1, <2>2
  <1>5. CASE FirstConnect \/ lazy_mbtcp_connect \/ Send
    BY <1>3, <1>5 DEF FirstConnect, lazy_mbtcp_connect, Send, At, AtSlave
  <1>6. CASE UNCHANGED daemon
    BY <1>1, <1>3, <1>6 DEF daemon
  <1>7. ASSUME NEW status, NEW from, Answer(status, from) PROVE AtHome'
    BY <1>1, <1>7 DEF Answer, AtSlave
  <1>8. CASE Recv \/ Stop \/ NullItem \/ IgnoreRtu \/ Overrun \/ NameOverrun
    BY <1>1, <1>8 DEF Recv, Stop, NullItem, IgnoreRtu, Overrun, NameOverrun, AtSlave
  <1>9. ASSUME NEW m, Receive(m) PROVE AtHome'
    BY <1>7, <1>9 DEF Receive, Fail
  <1> QED
    BY <1>4, <1>5, <1>6, <1>7, <1>8, <1>9
       DEF Next, Daemon, Work, Environment, Refuse, mbtcp_set_response_timeout, NoContext,
           TooMany, SendBroken, ConnectionReset, ResponseTimeout, Fail, Interrupt,
           ClientPublish, LinkFault, SlaveReturn, KernelGivesUp, SlaveAnswer, SlaveSilent, vars

----------------------------------------------------------------------------
\* Each kind of step keeps the invariant.

\* What a sequence holds after something is appended.
LEMMA RangeAppend ==
    ASSUME NEW S, NEW seq \in Seq(S), NEW e \in S
    PROVE  RangeOf(Append(seq, e)) = RangeOf(seq) \cup {e}
  BY DEF RangeOf

\* A request that was taken names a slave.
LEMMA KeyAtType ==
    ASSUME TypeOK, NEW id \in Id
    PROVE  KeyAt(id) \in Key
  <1>1. published \in Seq(Request) /\ taken \in Nat /\ taken <= Len(published)
    BY DEF TypeOK, ClientsOK, DaemonOK
  <1>2. id \in 1 .. Len(published)
    BY <1>1 DEF Id
  <1>3. published[id] \in Request
    BY <1>1, <1>2
  <1> QED BY <1>3 DEF KeyAt, EndpointOf, Endpoint, Key

\* A request that was taken is still the one it was.
LEMMA RequestStays ==
    ASSUME TypeOK, [Next]_vars, NEW id \in Id
    PROVE  /\ id \in Id'
           /\ KeyAt(id)' = KeyAt(id) /\ EndpointOf(id)' = EndpointOf(id)
           /\ Transacts(id)' <=> Transacts(id)
           /\ published'[id].slave = published[id].slave
  <1>1. published'[id] = published[id]
    BY PublishedStays
  <1>2. taken \in Nat /\ taken' \in Nat
    BY TypeStep DEF TypeOK, DaemonOK
  <1>3. taken' = taken \/ taken' = taken + 1
    BY StepKinds DEF Quiet, Answering, Recv, Send, SlaveTook, daemon
  <1>4. id \in Id'
    BY <1>2, <1>3 DEF Id
  <1> QED BY <1>1, <1>4 DEF KeyAt, EndpointOf, Transacts

\* What was addressed stays so, as the fields it has.
LEMMA AddressedStays ==
    ASSUME TypeOK, [Next]_vars, NEW k, NEW m, Addressed(k, m)
    PROVE  Addressed(k, m)'
  <1>1. m.id \in Id /\ KeyAt(m.id) = k /\ Transacts(m.id)
    BY DEF Addressed
  <1> QED BY <1>1, RequestStays DEF Addressed, KeyAt, EndpointOf, Transacts

\* A step that at most loses messages keeps the invariant,
LEMMA QuietKeeps ==
    ASSUME TypeOK, ExecutionInv, [Next]_vars, Quiet
    PROVE  ExecutionInv'
  <1> USE DEF ExecutionInv
  <1>1. /\ UNCHANGED <<taken, outbox, executed>>
        /\ \A k \in Key : wire'[k] \subseteq wire[k] /\ rx'[k] \subseteq rx[k]
    BY DEF Quiet
  <1>2. \A k, id : Did(k, id)' <=> Did(k, id)
    BY <1>1 DEF Did, Executions
  <1>3. AtHome'
    BY AtHomeStep
  <1>4. WireAddressed'
    BY <1>1, AddressedStays DEF WireAddressed
  <1>5. ExecutedAddressed'
    BY <1>1, AddressedStays DEF ExecutedAddressed, Executions
  <1>6. \A id : Unsent(id) => Unsent(id)'
    BY <1>1, <1>2 DEF Unsent
  <1>7. SentAfter'
    BY <1>1, <1>6 DEF SentAfter, Quiet
  <1>8. OnWireOnce'
    BY <1>1, <1>2 DEF OnWireOnce
  <1>9. ExecutedAtMostOnce' /\ OkAfterEarlier'
    BY <1>1 DEF ExecutedAtMostOnce, OkAfterEarlier, AnsweredOk
  <1>10. SaidWhatItDid'
    BY <1>1, <1>2 DEF SaidWhatItDid
  <1>11. AnsweredTaken'
    BY <1>1 DEF AnsweredTaken, Quiet, Id
  <1>12. RefusedUnsent'
    BY <1>1, <1>6, RequestStays DEF RefusedUnsent, AnsweredTaken
  <1>13. OkDid'
    BY <1>1, <1>2, RequestStays DEF OkDid, AnsweredTaken
  <1> QED BY <1>3, <1>4, <1>5, <1>7, <1>8, <1>9, <1>10, <1>11, <1>12, <1>13

\* ... taking a request, which is on no wire yet,
LEMMA RecvKeeps ==
    ASSUME TypeOK, ExecutionInv, [Next]_vars, Recv
    PROVE  ExecutionInv'
  <1> USE DEF ExecutionInv
  <1>1. UNCHANGED <<published, outbox, executed, wire, rx>> /\ taken' = taken + 1 /\ taken \in Nat
    BY DEF Recv, clients, context, slaves, TypeOK, DaemonOK
  <1>2. \A k, id : Did(k, id)' <=> Did(k, id)
    BY <1>1 DEF Did, Executions
  <1>3. AtHome'
    BY AtHomeStep
  <1>4. WireAddressed'
    BY <1>1, AddressedStays DEF WireAddressed
  <1>5. ExecutedAddressed'
    BY <1>1, AddressedStays DEF ExecutedAddressed, Executions
  <1>6. \A id : Unsent(id) => Unsent(id)'
    BY <1>1, <1>2 DEF Unsent
  <1>7. taken' \notin Id
    BY <1>1 DEF Id
  <1>8. Unsent(taken')
    BY <1>7 DEF Unsent, Did, WireAddressed, ExecutedAddressed, Addressed
  <1>9. SentAfter'
    BY <1>6, <1>8 DEF SentAfter
  <1>10. OnWireOnce'
    BY <1>1, <1>2 DEF OnWireOnce
  <1>11. ExecutedAtMostOnce' /\ OkAfterEarlier'
    BY <1>1 DEF ExecutedAtMostOnce, OkAfterEarlier, AnsweredOk
  <1>12. SaidWhatItDid'
    BY <1>1, <1>2 DEF SaidWhatItDid
  <1>13. AnsweredTaken'
    BY <1>1, <1>7, RequestStays DEF AnsweredTaken
  <1>14. RefusedUnsent'
    BY <1>1, <1>6, RequestStays DEF RefusedUnsent, AnsweredTaken
  <1>15. OkDid'
    BY <1>1, <1>2, RequestStays DEF OkDid, AnsweredTaken
  <1> QED BY <1>3, <1>4, <1>5, <1>9, <1>10, <1>11, <1>12, <1>13, <1>14, <1>15

\* ... an answer, ok only for a confirmation of this very request,
LEMMA AnsweringKeeps ==
    ASSUME TypeOK, OwnConfirmation, ExecutionInv, [Next]_vars, Answering
    PROVE  ExecutionInv'
  <1> USE DEF ExecutionInv
  <1>1. PICK status \in Status, from \in Nat :
            /\ Answer(status, from)
            /\ UNCHANGED <<published, taken, executed, wire>>
            /\ \A k \in Key : rx'[k] \subseteq rx[k]
            /\ pc \in {"dispatch", "connect", "fc", "wait"}
            /\ status \in NotSent => pc \in Before
            /\ status = "ok" =>
                 \/ ~Transacts(taken)
                 \/ pc = "wait" /\ \E m \in rx[ptr_handle] :
                                      m.status = "ok" /\ m.t_id = t_id[ptr_handle]
    BY DEF Answering
  <1>2. taken \in Nat /\ taken > 0 /\ taken \in Id /\ outbox \in Seq(AnswerType)
    BY <1>1 DEF TypeOK, DaemonOK, InUseOK, Id
  <1>3. PICK a : a = [id |-> taken, tid |-> cur.tid, status |-> status, from |-> from]
    OBVIOUS
  <1>4. a \in AnswerType /\ outbox' = Append(outbox, a)
    BY <1>1, <1>2, <1>3, CurType DEF AnswerType, RequestType, Answer
  <1>5. RangeOf(outbox') = RangeOf(outbox) \cup {a}
    BY <1>2, <1>4, RangeAppend
  <1>6. pc' \in {"recv", "stopped"}
    BY <1>1 DEF Answer
  <1>7. \A k, id : Did(k, id)' <=> Did(k, id)
    BY <1>1 DEF Did, Executions
  <1>8. \A id : Unsent(id) => Unsent(id)'
    BY <1>1, <1>7 DEF Unsent
  <1>9. AtHome'
    BY AtHomeStep
  <1>10. WireAddressed'
    BY <1>1, AddressedStays DEF WireAddressed
  <1>11. ExecutedAddressed'
    BY <1>1, AddressedStays DEF ExecutedAddressed, Executions
  <1>12. SentAfter'
    BY <1>6 DEF SentAfter, Before
  <1>13. OnWireOnce'
    BY <1>1, <1>7 DEF OnWireOnce
  <1>14. ExecutedAtMostOnce'
    BY <1>1 DEF ExecutedAtMostOnce
  <1>15. SaidWhatItDid'
    BY <1>1, <1>7 DEF SaidWhatItDid
  <1>16. AnsweredTaken'
    BY <1>1, <1>2, <1>3, <1>5, <1>6 DEF AnsweredTaken, Id
  <1>17. RefusedUnsent'
    <2>1. ASSUME NEW b \in RangeOf(outbox'), Transacts(b.id)', b.status \in NotSent
          PROVE  Unsent(b.id)'
      <3>1. CASE b \in RangeOf(outbox)
        BY <1>8, <2>1, <3>1, RequestStays DEF AnsweredTaken, RefusedUnsent
      <3>2. CASE b = a
        BY <1>1, <1>3, <1>8, <2>1, <3>2 DEF SentAfter
      <3> QED BY <1>5, <2>1, <3>1, <3>2
    <2> QED BY <2>1 DEF RefusedUnsent
  <1>18. OkDid'
    <2>1. ASSUME NEW b \in RangeOf(outbox'), Transacts(b.id)', b.status = "ok"
          PROVE  \E e \in RangeOf(executed[KeyAt(b.id)]) : e.id = b.id
      <3>1. CASE b \in RangeOf(outbox)
        <4>1. Transacts(b.id)
          BY <2>1, <3>1, RequestStays DEF AnsweredTaken
        <4> QED BY <2>1, <3>1, <4>1 DEF OkDid, Did, Executions
      <3>2. CASE b = a
        <4>1. Transacts(taken)
          BY <1>2, <1>3, <2>1, <3>2, RequestStays
        <4>2. PICK m \in rx[ptr_handle] : m.status = "ok" /\ m.t_id = t_id[ptr_handle]
          BY <1>1, <1>3, <2>1, <3>2, <4>1
        <4>3. pc = "wait" /\ ptr_handle \in Key /\ ptr_handle = KeyAt(taken)
          BY <1>1, <1>3, <2>1, <3>2, <4>1
             DEF AtHome, AtSlave, key, Server, cur, KeyAt, EndpointOf, TypeOK, InUseOK
        <4>4. m.id = taken
          BY <4>2, <4>3 DEF OwnConfirmation, Pending
        <4>5. Did(KeyAt(taken), taken)
          BY <4>2, <4>3, <4>4 DEF SaidWhatItDid
        <4> QED BY <1>3, <3>2, <4>5 DEF Did, Executions
      <3> QED BY <1>5, <2>1, <3>1, <3>2
    <2>2. \A b \in RangeOf(outbox') : KeyAt(b.id)' = KeyAt(b.id)
      BY <1>1 DEF KeyAt, EndpointOf
    <2> QED BY <1>1, <2>1, <2>2 DEF OkDid, Did, Executions
  <1>19. OkAfterEarlier'
    <2>1. ASSUME NEW k \in Key, NEW i \in 1 .. Len(executed[k]), NEW j \in 1 .. Len(executed[k]),
                 i < j, AnsweredOk(executed[k][j].id)'
          PROVE  executed[k][i].id < executed[k][j].id
      <3>1. CASE AnsweredOk(executed[k][j].id)
        BY <2>1, <3>1 DEF OkAfterEarlier
      <3>2. CASE ~AnsweredOk(executed[k][j].id)
        <4>1. executed[k][j].id = taken
          BY <1>1, <1>3, <1>5, <2>1, <3>2 DEF AnsweredOk
        <4>2. executed[k][i].id \in Id
          BY <2>1 DEF ExecutedAddressed, Executions, RangeOf, Addressed
        <4>3. executed[k][i].id # taken
          BY <2>1, <4>1 DEF ExecutedAtMostOnce
        <4> QED BY <1>2, <4>1, <4>2, <4>3 DEF Id
      <3> QED BY <3>1, <3>2
    <2> QED BY <1>1, <2>1 DEF OkAfterEarlier, AnsweredOk
  <1> QED
    BY <1>9, <1>10, <1>11, <1>12, <1>13, <1>14, <1>15, <1>16, <1>17, <1>18, <1>19

\* ... a send, of a request that was nowhere before,
LEMMA SendKeeps ==
    ASSUME TypeOK, ExecutionInv, [Next]_vars, Send
    PROVE  ExecutionInv'
  <1> USE DEF ExecutionInv
  <1> DEFINE p == ptr_handle
  <1>1. /\ UNCHANGED <<published, taken, executed, rx, outbox>>
        /\ pc = "fc" /\ pc' = "wait"
        /\ wire' = wire \/ wire' = [wire EXCEPT ![p] = @ \cup {Pdu(p)}]
    BY DEF Send, At, clients
  <1>2. /\ p \in Key /\ p = KeyAt(taken) /\ Transacts(taken)
        /\ taken \in Id /\ mbtcp_htable[p] \in Handle
    BY <1>1 DEF AtHome, AtSlave, key, Server, cur, KeyAt, EndpointOf, TypeOK, InUseOK, DaemonOK, Id
  <1>3. wire \in [Key -> SUBSET PduType]
    BY DEF TypeOK, SlavesOK
  <1>4. \A k \in Key : wire'[k] \subseteq wire[k] \cup (IF k = p THEN {Pdu(p)} ELSE {})
    BY <1>1, <1>2, <1>3
  <1>5. Pdu(p).id = taken
    BY DEF Pdu
  <1>6. Addressed(p, Pdu(p))
    <2>1. published[taken].slave \in ValidSlave => Pdu(p).slave = published[taken].slave
      BY <1>2 DEF Pdu, modbus_set_slave, cur, Handle
    <2> QED BY <1>2, <1>5, <2>1 DEF Addressed
  <1>7. Unsent(taken)
    BY <1>1 DEF SentAfter, Before
  <1>8. \A k, id : Did(k, id)' <=> Did(k, id)
    BY <1>1 DEF Did, Executions
  <1>9. AtHome'
    BY AtHomeStep
  <1>10. WireAddressed'
    BY <1>4, <1>6, AddressedStays DEF WireAddressed
  <1>11. ExecutedAddressed'
    BY <1>1, AddressedStays DEF ExecutedAddressed, Executions
  <1>12. SentAfter'
    BY <1>1 DEF SentAfter, Before
  <1>13. OnWireOnce'
    BY <1>4, <1>5, <1>7, <1>8 DEF OnWireOnce, Unsent
  <1>14. ExecutedAtMostOnce' /\ OkAfterEarlier'
    BY <1>1 DEF ExecutedAtMostOnce, OkAfterEarlier, AnsweredOk
  <1>15. SaidWhatItDid'
    BY <1>1, <1>8 DEF SaidWhatItDid
  <1>16. AnsweredTaken'
    BY <1>1 DEF AnsweredTaken, Id
  <1>17. RefusedUnsent'
    <2>1. \A id : id # taken /\ Unsent(id) => Unsent(id)'
      BY <1>4, <1>5, <1>8 DEF Unsent
    <2>2. \A a \in RangeOf(outbox) : a.id \in Id /\ a.id # taken
      BY <1>1 DEF AnsweredTaken
    <2> QED BY <1>1, <2>1, <2>2, RequestStays DEF RefusedUnsent
  <1>18. OkDid'
    BY <1>1, <1>8, RequestStays DEF OkDid, AnsweredTaken
  <1> QED
    BY <1>9, <1>10, <1>11, <1>12, <1>13, <1>14, <1>15, <1>16, <1>17, <1>18

\* ... and a slave, which takes from the wire what it executes.
LEMMA SlaveTookKeeps ==
    ASSUME TypeOK, ExecutionInv, [Next]_vars,
           NEW h \in Key, NEW m \in wire[h], NEW did \in BOOLEAN, SlaveTook(h, m, did)
    PROVE  ExecutionInv'
  <1> USE DEF ExecutionInv
  <1> DEFINE e == [id |-> m.id, slave |-> m.slave]
  <1>1. /\ UNCHANGED <<published, taken, pc, outbox>>
        /\ wire' = [wire EXCEPT ![h] = @ \ {m}]
        /\ executed' = IF did THEN [executed EXCEPT ![h] = Append(@, e)] ELSE executed
        /\ \A k \in Key : \A r \in rx'[k] \ rx[k] :
              k = h /\ r.id = m.id /\ (r.status = "ok" => did)
    BY DEF SlaveTook, daemon, clients
  <1>2. /\ wire \in [Key -> SUBSET PduType]
        /\ executed \in [Key -> Seq(EffectType)]
        /\ rx \in [Key -> SUBSET ReplyType]
    BY DEF TypeOK, SlavesOK, ContextOK
  <1>3. e \in EffectType
    BY <1>2 DEF PduType, EffectType
  <1>4. /\ \A k \in Key : k # h => executed'[k] = executed[k]
        /\ executed'[h] = IF did THEN Append(executed[h], e) ELSE executed[h]
    BY <1>1, <1>2
  <1>5. \A k \in Key : wire'[k] \subseteq wire[k]
    BY <1>1, <1>2
  <1>6. m \notin wire'[h]
    BY <1>1, <1>2
  <1>7. \A k \in Key :
            Executions(k)' = Executions(k) \cup (IF k = h /\ did THEN {e} ELSE {})
    <2>1. RangeOf(Append(executed[h], e)) = RangeOf(executed[h]) \cup {e}
      BY <1>2, <1>3, RangeAppend
    <2> QED BY <1>4, <2>1 DEF Executions
  <1>8. ~Did(h, m.id) /\ Addressed(h, m)
    BY DEF OnWireOnce, WireAddressed
  <1>9. Addressed(h, e)
    BY <1>8 DEF Addressed
  <1>10. AtHome'
    BY AtHomeStep
  <1>11. WireAddressed'
    BY <1>5, AddressedStays DEF WireAddressed
  <1>12. ExecutedAddressed'
    BY <1>7, <1>9, AddressedStays DEF ExecutedAddressed
  <1>13. \A id : id # m.id /\ Unsent(id) => Unsent(id)'
    BY <1>5, <1>7 DEF Unsent, Did
  <1>14. \A id : Unsent(id) => id # m.id
    BY DEF Unsent
  <1>15. SentAfter'
    BY <1>1, <1>13, <1>14 DEF SentAfter
  <1>16. OnWireOnce'
    <2>1. ASSUME NEW k \in Key, NEW n \in wire'[k] PROVE ~Did(k, n.id)'
      <3>1. n \in wire[k] /\ ~Did(k, n.id)
        BY <1>5, <2>1 DEF OnWireOnce
      <3>2. k = h => n.id # m.id
        BY <1>6, <2>1, <3>1 DEF OnWireOnce
      <3> QED BY <1>7, <3>1, <3>2 DEF Did
    <2> QED BY <1>5, <2>1 DEF OnWireOnce
  <1>17. ExecutedAtMostOnce'
    <2>1. ASSUME NEW k \in Key, NEW i \in 1 .. Len(executed'[k]),
                 NEW j \in 1 .. Len(executed'[k]), executed'[k][i].id = executed'[k][j].id
          PROVE  i = j
      <3>1. CASE k = h /\ did
        <4>1. \A n \in 1 .. Len(executed[h]) : executed[h][n].id # m.id
          BY <1>8 DEF Did, Executions, RangeOf
        <4>2. executed'[h] = Append(executed[h], e) /\ executed[h] \in Seq(EffectType)
          BY <1>2, <1>4, <3>1
        <4>3. CASE i = Len(executed[h]) + 1
          BY <2>1, <3>1, <4>1, <4>2, <4>3
        <4>4. CASE j = Len(executed[h]) + 1
          BY <2>1, <3>1, <4>1, <4>2, <4>4
        <4>5. CASE i # Len(executed[h]) + 1 /\ j # Len(executed[h]) + 1
          <5>1. /\ i \in 1 .. Len(executed[h]) /\ j \in 1 .. Len(executed[h])
                /\ executed'[h][i] = executed[h][i] /\ executed'[h][j] = executed[h][j]
            BY <2>1, <3>1, <4>2, <4>5
          <5> QED BY <2>1, <3>1, <5>1 DEF ExecutedAtMostOnce
        <4> QED BY <4>3, <4>4, <4>5
      <3>2. CASE ~(k = h /\ did)
        BY <1>4, <2>1, <3>2 DEF ExecutedAtMostOnce
      <3> QED BY <3>1, <3>2
    <2> QED BY <2>1 DEF ExecutedAtMostOnce
  <1>18. SaidWhatItDid'
    <2>1. ASSUME NEW k \in Key, NEW r \in rx'[k], r.status = "ok" PROVE Did(k, r.id)'
      <3>1. CASE r \in rx[k]
        BY <1>7, <2>1, <3>1 DEF SaidWhatItDid, Did
      <3>2. CASE r \notin rx[k]
        <4>1. k = h /\ r.id = m.id /\ did
          BY <1>1, <2>1, <3>2
        <4>2. e \in Executions(k)' /\ e.id = r.id
          BY <1>7, <4>1
        <4> QED BY <4>2 DEF Did
      <3> QED BY <3>1, <3>2
    <2> QED BY <2>1 DEF SaidWhatItDid
  <1>19. AnsweredTaken'
    BY <1>1 DEF AnsweredTaken, Id
  <1>20. RefusedUnsent'
    BY <1>1, <1>13, <1>14, RequestStays DEF RefusedUnsent, AnsweredTaken
  <1>21. \A id : KeyAt(id)' = KeyAt(id)
    BY <1>1 DEF KeyAt, EndpointOf
  <1>22. OkDid'
    <2>1. ASSUME NEW a \in RangeOf(outbox), Transacts(a.id), a.status = "ok"
          PROVE  \E d \in Executions(KeyAt(a.id))' : d.id = a.id
      <3>1. KeyAt(a.id) \in Key
        <4>1. a.id \in Id
          BY <2>1 DEF AnsweredTaken
        <4> QED BY <4>1, KeyAtType
      <3>2. PICK d \in Executions(KeyAt(a.id)) : d.id = a.id
        BY <2>1 DEF OkDid, Did
      <3> QED BY <1>7, <1>21, <3>1, <3>2 DEF Executions
    <2>2. \A a \in RangeOf(outbox) : Transacts(a.id)' => Transacts(a.id)
      BY RequestStays DEF AnsweredTaken
    <2> QED BY <1>1, <2>1, <2>2 DEF OkDid, Did
  <1>23. OkAfterEarlier'
    <2>1. ~AnsweredOk(m.id)
      BY <1>8 DEF AnsweredOk, OkDid, Addressed
    <2>2. ASSUME NEW k \in Key, NEW i \in 1 .. Len(executed'[k]),
                 NEW j \in 1 .. Len(executed'[k]), i < j, AnsweredOk(executed'[k][j].id)
          PROVE  executed'[k][i].id < executed'[k][j].id
      <3>1. CASE k = h /\ did
        <4>1. executed'[h] = Append(executed[h], e) /\ executed[h] \in Seq(EffectType)
          BY <1>2, <1>4, <3>1
        <4>2. j # Len(executed[h]) + 1
          BY <2>1, <2>2, <3>1, <4>1
        <4>3. /\ i \in 1 .. Len(executed[h]) /\ j \in 1 .. Len(executed[h])
              /\ executed'[h][i] = executed[h][i] /\ executed'[h][j] = executed[h][j]
          BY <2>2, <3>1, <4>1, <4>2
        <4> QED BY <2>2, <3>1, <4>3 DEF OkAfterEarlier
      <3>2. CASE ~(k = h /\ did)
        BY <1>4, <2>2, <3>2 DEF OkAfterEarlier
      <3> QED BY <3>1, <3>2
    <2> QED BY <1>1, <2>2 DEF OkAfterEarlier, AnsweredOk
  <1> QED
    BY <1>10, <1>11, <1>12, <1>15, <1>16, <1>17, <1>18, <1>19, <1>20, <1>22, <1>23

\* A request is on one wire or executed at one slave, the one it names, and what
\* the answers say of it is so.
THEOREM ExecutionInvariant == Spec => []ExecutionInv
  <1>1. Init => ExecutionInv
    <2> SUFFICES ASSUME Init PROVE ExecutionInv
      OBVIOUS
    <2>1. RangeOf(<<>>) = {}
      BY DEF RangeOf
    <2>2. /\ \A k \in Key : wire[k] = {} /\ rx[k] = {} /\ executed[k] = <<>>
          /\ outbox = <<>> /\ pc = "recv"
      BY DEF Init
    <2> QED
      BY <2>1, <2>2
         DEF ExecutionInv, AtHome, AtSlave, WireAddressed, ExecutedAddressed, Executions, SentAfter,
             Before, OnWireOnce, ExecutedAtMostOnce, SaidWhatItDid, AnsweredTaken, RefusedUnsent,
             OkDid, OkAfterEarlier
  <1>2. TypeOK /\ OwnConfirmation /\ ExecutionInv /\ [Next]_vars => ExecutionInv'
    BY StepKinds, QuietKeeps, RecvKeeps, AnsweringKeeps, SendKeeps, SlaveTookKeeps
  <1> QED BY <1>1, <1>2, TypeCorrect, ConfirmationsAreOwn, PTL DEF Spec

----------------------------------------------------------------------------
\* What follows.

\* What a sequence holds at one of its places.
LEMMA OneOf ==
    ASSUME NEW S, NEW q \in Seq(S), NEW i \in 1 .. Len(q)
    PROVE  q[i] \in S
  OBVIOUS

\* A string that ends within its field is told from every other one by the bytes
\* of the field.
LEMMA FieldTells ==
    ASSUME NEW s \in Name, NEW t \in Name, NEW size \in Nat, Len(s) < size, NEW M,
           \A i \in 1 .. size : i <= Len(s) => M[i] = s[i],
           \A i \in 1 .. size : i = Len(s) + 1 => M[i] = 0,
           \A i \in 1 .. size : i <= Len(t) => M[i] = t[i],
           \A i \in 1 .. size : i = Len(t) + 1 => M[i] = 0
    PROVE  s = t
  <1>1. s \in Seq(1 .. 255) /\ t \in Seq(1 .. 255)
    BY DEF Name
  <1>2. Len(s) \in Nat /\ Len(t) \in Nat
    BY <1>1
  <1>3. ASSUME NEW u \in Seq(1 .. 255), NEW i \in 1 .. Len(u) PROVE u[i] # 0
    <2>1. u[i] \in 1 .. 255
      BY <1>3, OneOf, Zenon
    <2>2. \A b \in 1 .. 255 : b # 0
      OBVIOUS
    <2> QED BY <2>1, <2>2, Zenon
  <1>4. (\A i \in 1 .. Len(s) : s[i] # 0) /\ (\A i \in 1 .. Len(t) : t[i] # 0)
    BY <1>1, <1>3
  <1>5. ~(Len(t) < Len(s))
    BY <1>2, <1>4
  <1>6. ~(Len(s) < Len(t))
    BY <1>2, <1>4
  <1>7. Len(s) = Len(t)
    BY <1>2, <1>5, <1>6
  <1>8. \A i \in 1 .. Len(s) : s[i] = t[i]
    BY <1>2, <1>7
  <1> QED BY <1>1, <1>7, <1>8

\* Byte c of the names in a handle.
LEMMA NamedAt ==
    ASSUME NEW e, NEW c \in 1 .. HandleSize, e[1] \in Name, e[2] \in Name
    PROVE  Named(e)[c] = IF c \in IpSize + 1 .. IpSize + Len(e[2]) THEN e[2][c - IpSize]
                         ELSE IF c = IpSize + Len(e[2]) + 1 THEN 0
                         ELSE IF c \in 1 .. Len(e[1]) THEN e[1][c] ELSE 0
  <1>1. HandleSize \in Nat /\ IpSize \in Nat /\ Len(e[1]) \in Nat /\ Len(e[2]) \in Nat
    BY ConstantsAssumption DEF Name
  <1>2. PICK z : z = [i \in 1 .. HandleSize |-> 0]
    OBVIOUS
  <1>3. PICK ip : ip = strcpy(z, 0, e[1])
    OBVIOUS
  <1>4. ip = [i \in 1 .. HandleSize |->
                IF i \in 0 + 1 .. 0 + Len(e[1]) THEN e[1][i - 0]
                ELSE IF i = 0 + Len(e[1]) + 1 THEN 0 ELSE z[i]]
    BY <1>2, <1>3 DEF strcpy
  <1>5. ip[c] = IF c \in 1 .. Len(e[1]) THEN e[1][c] ELSE 0
    BY <1>1, <1>2, <1>4
  <1>6. Named(e) = strcpy(ip, IpSize, e[2])
    BY <1>2, <1>3 DEF Named
  <1>7. DOMAIN ip = 1 .. HandleSize
    BY <1>4
  <1>8. strcpy(ip, IpSize, e[2]) =
            [i \in 1 .. HandleSize |->
                IF i \in IpSize + 1 .. IpSize + Len(e[2]) THEN e[2][i - IpSize]
                ELSE IF i = IpSize + Len(e[2]) + 1 THEN 0 ELSE ip[i]]
    BY <1>7 DEF strcpy
  <1>9. Named(e)[c] = IF c \in IpSize + 1 .. IpSize + Len(e[2]) THEN e[2][c - IpSize]
                      ELSE IF c = IpSize + Len(e[2]) + 1 THEN 0 ELSE ip[c]
    BY <1>6, <1>8
  <1> QED BY <1>5, <1>9

\* So names that fit the key are told from all others by it.
LEMMA KeyTells ==
    ASSUME NEW e \in Endpoint, NEW f \in Endpoint, Fits(e), KeyOf[e] = KeyOf[f]
    PROVE  e = f
  <1>1. \A g \in Endpoint : g[1] \in Name /\ g[2] \in Name /\ g = <<g[1], g[2]>>
    BY ConstantsAssumption DEF Endpoint, RequestType
  <1>2. /\ IpSize \in Nat /\ PortSize \in Nat /\ HandleSize \in Nat
        /\ IpSize + PortSize < HandleSize
        /\ \A g \in Endpoint : Len(g[1]) \in Nat /\ Len(g[2]) \in Nat
    BY <1>1, ConstantsAssumption DEF Name
  <1>3. Len(e[1]) < IpSize /\ Len(e[2]) < PortSize
    BY DEF Fits
  <1>4. \A g \in Endpoint : KeyOf[g] = [c \in 1 .. IpSize + PortSize |-> Named(g)[c]]
    BY DEF KeyOf
  <1>5. \A g \in Endpoint, c \in 1 .. IpSize + PortSize :
            KeyOf[g][c] = IF c \in IpSize + 1 .. IpSize + Len(g[2]) THEN g[2][c - IpSize]
                          ELSE IF c = IpSize + Len(g[2]) + 1 THEN 0
                          ELSE IF c \in 1 .. Len(g[1]) THEN g[1][c] ELSE 0
    <2> SUFFICES ASSUME NEW g \in Endpoint, NEW c \in 1 .. IpSize + PortSize
                 PROVE  KeyOf[g][c] =
                          IF c \in IpSize + 1 .. IpSize + Len(g[2]) THEN g[2][c - IpSize]
                          ELSE IF c = IpSize + Len(g[2]) + 1 THEN 0
                          ELSE IF c \in 1 .. Len(g[1]) THEN g[1][c] ELSE 0
      OBVIOUS
    <2>1. c \in 1 .. HandleSize
      BY <1>2
    <2>2. KeyOf[g][c] = Named(g)[c]
      BY <1>4
    <2> QED BY <1>1, <2>1, <2>2, NamedAt
  <1>6. PICK K : K = KeyOf[e] /\ K = KeyOf[f]
    OBVIOUS
  <1>7. \A g \in {e, f} : \A i \in 1 .. IpSize :
            K[i] = IF i \in 1 .. Len(g[1]) THEN g[1][i] ELSE 0
    BY <1>2, <1>5, <1>6
  <1>8. \A g \in {e, f} : \A i \in 1 .. PortSize :
            /\ i <= Len(g[2]) => K[IpSize + i] = g[2][i]
            /\ i = Len(g[2]) + 1 => K[IpSize + i] = 0
    <2> SUFFICES ASSUME NEW g \in {e, f}, NEW i \in 1 .. PortSize
                 PROVE  /\ i <= Len(g[2]) => K[IpSize + i] = g[2][i]
                        /\ i = Len(g[2]) + 1 => K[IpSize + i] = 0
      OBVIOUS
    <2>1. PICK c \in 1 .. IpSize + PortSize : c = IpSize + i
      BY <1>2
    <2>2. c - IpSize = i /\ Len(g[2]) \in Nat
      BY <1>2, <2>1
    <2>3. /\ i <= Len(g[2]) <=> c \in IpSize + 1 .. IpSize + Len(g[2])
          /\ i = Len(g[2]) + 1 <=> c = IpSize + Len(g[2]) + 1
      BY <1>2, <2>1, <2>2
    <2>4. K[c] = KeyOf[g][c]
      BY <1>6
    <2>5. i <= Len(g[2]) => K[c] = g[2][i]
      BY <1>5, <2>2, <2>3, <2>4
    <2>6. i = Len(g[2]) + 1 => K[c] = 0
      <3>1. ~(i = Len(g[2]) + 1 /\ i <= Len(g[2]))
        BY <2>2
      <3> QED BY <1>5, <2>3, <2>4, <3>1
    <2> QED BY <2>1, <2>5, <2>6
  <1>9. e[1] = f[1]
    <2>1. \A g \in {e, f} : /\ \A i \in 1 .. IpSize : i <= Len(g[1]) => K[i] = g[1][i]
                            /\ \A i \in 1 .. IpSize : i = Len(g[1]) + 1 => K[i] = 0
      BY <1>2, <1>7
    <2> QED BY <1>1, <1>2, <1>3, <2>1, FieldTells, SMTT(30)
  <1>10. e[2] = f[2]
    <2>1. PICK M : M = [i \in 1 .. PortSize |-> K[IpSize + i]]
      OBVIOUS
    <2>2. \A g \in {e, f} : /\ \A i \in 1 .. PortSize : i <= Len(g[2]) => M[i] = g[2][i]
                            /\ \A i \in 1 .. PortSize : i = Len(g[2]) + 1 => M[i] = 0
      BY <1>8, <2>1
    <2>3. e[2] \in Name /\ f[2] \in Name /\ PortSize \in Nat /\ Len(e[2]) < PortSize
      BY <1>1, <1>2, <1>3
    <2>4. /\ \A i \in 1 .. PortSize : i <= Len(e[2]) => M[i] = e[2][i]
          /\ \A i \in 1 .. PortSize : i = Len(e[2]) + 1 => M[i] = 0
          /\ \A i \in 1 .. PortSize : i <= Len(f[2]) => M[i] = f[2][i]
          /\ \A i \in 1 .. PortSize : i = Len(f[2]) + 1 => M[i] = 0
      BY <2>2
    <2> QED BY <2>3, <2>4, FieldTells, SMTT(30)
  <1> QED BY <1>1, <1>9, <1>10

\* A handle's key is that of the names its context was created with, and what is
\* executed was sent through a handle.
ContextNamed ==
    /\ \A k \in Key : mbtcp_htable[k] # NoHandle => KeyOf[mbtcp_htable[k].ctx] = k
    /\ \A k \in Key : executed[k] # <<>> => mbtcp_htable[k] # NoHandle

LEMMA ContextNamedStep ==
    ASSUME TypeOK, OwnConfirmation, ContextNamed, [Next]_vars
    PROVE  ContextNamed'
  <1>1. /\ mbtcp_htable \in [Key -> Handle \cup {NoHandle}]
        /\ executed \in [Key -> Seq(EffectType)]
    BY DEF TypeOK, DaemonOK, SlavesOK
  <1>2. \A k \in Key : mbtcp_htable[k] # NoHandle =>
            mbtcp_htable'[k] # NoHandle /\ mbtcp_htable'[k].ctx = mbtcp_htable[k].ctx
    BY HandlesStay DEF Alike
  <1>3. ASSUME NEW k \in Key, mbtcp_htable[k] = NoHandle, mbtcp_htable'[k] # NoHandle
        PROVE  KeyOf[mbtcp_htable'[k].ctx] = k
    <2>1. CASE mbtcp_init_handle
      <3>1. key \in Key /\ mbtcp_htable' = [mbtcp_htable EXCEPT ![key] =
                                              NewHandle(Server, tcp_conn_timeout_usec)]
        BY <2>1, CurType DEF mbtcp_init_handle, At, TypeOK, InUseOK
      <3>2. k = key /\ mbtcp_htable'[k] = NewHandle(Server, tcp_conn_timeout_usec)
        BY <1>1, <1>3, <3>1
      <3> QED BY <3>2 DEF NewHandle, key
    <2>2. ASSUME NEW p \in Key, mbtcp_htable[p] \in Handle, NEW h,
                 mbtcp_htable' = [mbtcp_htable EXCEPT ![p] = h]
          PROVE  FALSE
      BY <1>1, <1>3, <2>2, ConstantsAssumption
    <2>3. mbtcp_htable' # mbtcp_htable
      BY <1>3
    <2>4. CASE pc \in {"init", "connect", "fc", "wait"}
      <3>1. ptr_handle \in Key /\ mbtcp_htable[ptr_handle] \in Handle
        BY <2>4 DEF TypeOK, InUseOK
      <3>2. \/ mbtcp_htable' = mbtcp_htable
            \/ \E h : mbtcp_htable' = [mbtcp_htable EXCEPT ![ptr_handle] = h]
        BY <2>4
           DEF Next, Daemon, Work, Environment, Recv, Stop, NullItem, Refuse, IgnoreRtu,
               mbtcp_set_response_timeout, NameOverrun, FindHandle, mbtcp_init_handle, NoContext,
               FirstConnect, lazy_mbtcp_connect, modbus_connect, Connected, ConnectKeepsOld,
               ConnectFailed, TooMany, SetSlave, Overrun, SendBroken, Send, Receive, Fail,
               ConnectionReset, ResponseTimeout, Interrupt, ClientPublish, LinkFault,
               SlaveReturn, KernelGivesUp, SlaveAnswer, SlaveSilent, At, vars, daemon
      <3> QED BY <2>2, <2>3, <3>1, <3>2
    <2>5. CASE pc \notin {"init", "connect", "fc", "wait"}
      BY <2>1, <2>3, <2>5
         DEF Next, Daemon, Work, Environment, Recv, Stop, NullItem, Refuse, IgnoreRtu,
             mbtcp_set_response_timeout, NameOverrun, FindHandle, NoContext,
             FirstConnect, lazy_mbtcp_connect, TooMany, Overrun, SendBroken, Send, Receive,
             ConnectionReset, ResponseTimeout, Interrupt, ClientPublish, LinkFault,
             SlaveReturn, KernelGivesUp, SlaveAnswer, SlaveSilent, At, vars, daemon
    <2> QED BY <2>4, <2>5
  <1>4. ASSUME NEW k \in Key, executed'[k] # <<>> PROVE mbtcp_htable'[k] # NoHandle
    <2>1. CASE executed'[k] = executed[k]
      BY <1>2, <1>4, <2>1 DEF ContextNamed
    <2>2. CASE executed'[k] # executed[k]
      <3>1. PICK h \in Key : \E m \in wire[h], did \in BOOLEAN : SlaveTook(h, m, did)
        BY <2>2, StepKinds DEF Quiet, Answering, Recv, Send, slaves
      <3>2. k = h
        BY <1>1, <2>2, <3>1 DEF SlaveTook
      <3>3. mbtcp_htable[k] # NoHandle
        BY <3>1, <3>2 DEF OwnConfirmation, Pending
      <3> QED BY <1>2, <3>3
    <2> QED BY <2>1, <2>2
  <1> QED BY <1>2, <1>3, <1>4 DEF ContextNamed

\* A request whose names fit the key is executed at the address and the port it
\* names, or nowhere.
THEOREM SlavesAreRight == Spec => []RightSlave
  <1>1. Init => ContextNamed
    BY DEF Init, ContextNamed
  <1>2. TypeOK /\ OwnConfirmation /\ ContextNamed /\ [Next]_vars => ContextNamed'
    BY ContextNamedStep
  <1>3. ASSUME TypeOK, ExecutionInv, ContextNamed,
               NEW k \in Key, NEW e \in RangeOf(executed[k]), Fits(EndpointOf(e.id))
        PROVE  mbtcp_htable[k].ctx = EndpointOf(e.id)
    <2>1. e.id \in Id /\ KeyAt(e.id) = k
      BY <1>3 DEF ExecutionInv, ExecutedAddressed, Executions, Addressed
    <2>2. EndpointOf(e.id) \in Endpoint
      BY <1>3, <2>1 DEF EndpointOf, Endpoint, Id, TypeOK, ClientsOK, DaemonOK
    <2>3. mbtcp_htable[k] # NoHandle
      BY <1>3 DEF ContextNamed, RangeOf
    <2>4. mbtcp_htable[k].ctx \in Endpoint /\ KeyOf[mbtcp_htable[k].ctx] = k
      BY <1>3, <2>3 DEF ContextNamed, TypeOK, DaemonOK, Handle
    <2> QED BY <1>3, <2>1, <2>2, <2>4, KeyTells DEF KeyAt
  <1>4. TypeOK /\ ExecutionInv /\ ContextNamed => RightSlave
    BY <1>3 DEF RightSlave
  <1> QED
    BY <1>1, <1>2, <1>4, TypeCorrect, ConfirmationsAreOwn, ExecutionInvariant, PTL DEF Spec

\* ... at the unit the request names, if the library takes it.
THEOREM UnitsAreRight == Spec => []RightUnit
  <1>1. ExecutionInv => RightUnit
    BY DEF ExecutionInv, ExecutedAddressed, Executions, Addressed, RightUnit
  <1> QED BY <1>1, ExecutionInvariant, PTL

\* Nothing is executed twice.
THEOREM NothingTwice == Spec => []ExecutedAtMostOnce
  <1>1. ExecutionInv => ExecutedAtMostOnce
    BY DEF ExecutionInv
  <1> QED BY <1>1, ExecutionInvariant, PTL

\* "ok" means executed, a refusal before the request was sent that it never will be.
THEOREM OkIsExecuted == Spec => []OkMeansExecuted
  <1>1. TypeOK /\ ExecutionInv => OkMeansExecuted
    <2> SUFFICES ASSUME TypeOK, ExecutionInv, NEW a \in RangeOf(outbox), Transacts(a.id)
                 PROVE  LET did == \E e \in RangeOf(executed[KeyAt(a.id)]) : e.id = a.id
                        IN  /\ a.status = "ok" => did
                            /\ a.status \in {"Connection failed", "Too many", "EMBMDATA", "EPIPE", "EBADF"} => ~did
      BY DEF OkMeansExecuted
    <2>1. KeyAt(a.id) \in Key
      BY KeyAtType DEF ExecutionInv, AnsweredTaken
    <2>2. a.status \in NotSent => ~Did(KeyAt(a.id), a.id)
      BY <2>1 DEF ExecutionInv, RefusedUnsent, Unsent
    <2>3. a.status = "ok" => Did(KeyAt(a.id), a.id)
      BY DEF ExecutionInv, OkDid
    <2> QED BY <2>2, <2>3 DEF Did, Executions, NotSent
  <1> QED BY <1>1, ExecutionInvariant, TypeCorrect, PTL

\* What is answered "ok" was executed in the order it was answered.
THEOREM OkIsInOrder == Spec => []OkInOrder
  <1>1. ExecutionInv => OkInOrder
    BY DEF ExecutionInv, OkAfterEarlier, AnsweredOk, OkInOrder
  <1> QED BY <1>1, ExecutionInvariant, PTL

----------------------------------------------------------------------------
\* What a documented request can do to the daemon.

\* It has the members the code reads.
LEMMA DocumentedHasNeeded ==
    ASSUME Documented(cur), AtHome, pc \in {"dispatch", "fc"}
    PROVE  Needed \subseteq cur.members
  <1>1. CASE pc = "dispatch"
    BY <1>1 DEF Documented, Needed
  <1>2. CASE pc = "fc"
    <2>1. cur.mode = "tcp" /\ cur.cmd \in Fc
      BY <1>2 DEF AtHome, AtSlave, Transacts, cur
    <2> QED BY <1>2, <2>1 DEF Documented, Needed
  <1> QED BY <1>1, <1>2

\* A sound one asks for no more memory than there is, and stores no more in it.
LEMMA SoundFits ==
    ASSUME TypeOK, Sound(cur), AtHome, pc = "fc"
    PROVE  ~(NegativeLen \/ TooManyWrite \/ (cur.cmd \in MultiWrite /\ cur.data > cur.len))
  <1>1. cur.mode = "tcp" /\ cur.cmd \in Fc
    BY DEF AtHome, AtSlave, Transacts, cur
  <1>2. cur.len \in Int /\ cur.data \in Nat
    BY CurType DEF TypeOK, InUseOK, RequestType
  <1>3. (ReadBits \cup ReadRegs \cup MultiWrite) \cap SingleWrite = {}
    BY DEF ReadBits, ReadRegs, MultiWrite, SingleWrite
  <1>4. "fc15" \in MultiWrite /\ "fc16" \in MultiWrite
    BY DEF MultiWrite
  <1>5. ~TooManyWrite
    BY <1>1, <1>2, <1>4 DEF Sound, TooManyWrite, MODBUS_MAX_WRITE_BITS, MODBUS_MAX_WRITE_REGISTERS
  <1> QED BY <1>1, <1>2, <1>3, <1>5 DEF Sound, NegativeLen, Fc

\* No step ends the daemon with a sound request in hand.
LEMMA SoundStep ==
    ASSUME TypeOK, AtHome, SoundNeverCrashes, [Next]_vars
    PROVE  SoundNeverCrashes'
  <1>1. CASE pc' # "crashed"
    BY <1>1 DEF SoundNeverCrashes
  <1>2. CASE UNCHANGED <<pc, taken, published>>
    BY <1>2 DEF SoundNeverCrashes, cur
  <1>3. CASE Recv
    <2>1. cur' = published[taken + 1]
      BY <1>3 DEF Recv, clients, cur
    <2> QED BY <1>3, <2>1 DEF Recv, SoundNeverCrashes, Sound, Documented
  <1>4. CASE NullItem
    <2>1. ~Sound(cur)
      BY <1>4, DocumentedHasNeeded DEF NullItem, Sound
    <2>2. cur' = cur
      BY <1>4 DEF NullItem, clients, cur
    <2> QED BY <2>1, <2>2 DEF SoundNeverCrashes
  <1>5. CASE Overrun
    <2>1. ~Sound(cur)
      BY <1>5, SoundFits DEF Overrun, At
    <2>2. cur' = cur
      BY <1>5 DEF Overrun, clients, cur
    <2> QED BY <2>1, <2>2 DEF SoundNeverCrashes
  <1>6. ASSUME NEW status, NEW from, Answer(status, from) PROVE pc' # "crashed"
    BY <1>6 DEF Answer
  <1>7. ASSUME NEW r \in Request, ClientPublish(r) PROVE pc' # "crashed"
    BY <1>7 DEF ClientPublish, Halted, daemon
  <1>8. CASE NameOverrun
    <2>1. ~Sound(cur)
      BY <1>8 DEF NameOverrun, Sound, Server
    <2>2. cur' = cur
      BY <1>8 DEF NameOverrun, clients, cur
    <2> QED BY <2>1, <2>2 DEF SoundNeverCrashes
  <1> QED
    BY <1>1, <1>2, <1>3, <1>4, <1>5, <1>6, <1>7, <1>8
       DEF Next, Daemon, Work, Environment, Stop, Refuse, IgnoreRtu, mbtcp_set_response_timeout,
           FindHandle, mbtcp_init_handle, NoContext, FirstConnect, lazy_mbtcp_connect, TooMany,
           SendBroken, Send, Receive, ConnectionReset, ResponseTimeout, Fail, Interrupt, LinkFault,
           SlaveReturn, KernelGivesUp, SlaveAnswer, SlaveSilent, vars, daemon, clients

\* Whatever earlier requests and faults have left, a documented request that fits
\* the daemon's buffers does not end it.
THEOREM SoundSurvives == Spec => []SoundNeverCrashes
  <1>1. Init => SoundNeverCrashes
    BY DEF Init, SoundNeverCrashes
  <1>2. TypeOK /\ ExecutionInv /\ SoundNeverCrashes /\ [Next]_vars => SoundNeverCrashes'
    BY SoundStep DEF ExecutionInv
  <1> QED BY <1>1, <1>2, TypeCorrect, ExecutionInvariant, PTL DEF Spec
=============================================================================
