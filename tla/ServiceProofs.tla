--------------------------- MODULE ServiceProofs ---------------------------
(***************************************************************************)
(* modbusd implements RequestService, for every choice of the constants:   *)
(* its initial states are initial states of the service, and each of its   *)
(* steps is a step of the service or none.                                 *)
(***************************************************************************)
EXTENDS ModbusdService, ConnectionProofs, SequenceTheorems

\* The variables of the service, by the names it gives them.
Served  == IF Busy THEN taken - 1 ELSE taken
Answers == [i \in DOMAIN outbox |-> Given(outbox[i])]
Effects == {id \in Id : \E k \in Key : \E e \in RangeOf(executed[k]) : e.id = id}
Alive   == pc \notin Halted

----------------------------------------------------------------------------
\* Answers.

\* To answer is to append to the answers of the service.
LEMMA GivenAppended ==
    ASSUME NEW seq \in Seq(AnswerType), NEW a \in AnswerType
    PROVE  [i \in DOMAIN Append(seq, a) |-> Given(Append(seq, a)[i])]
             = Append([i \in DOMAIN seq |-> Given(seq[i])], Given(a))
  <1> DEFINE S == [id : Nat, tid : Nat, status : Status]
             g == [i \in DOMAIN seq |-> Given(seq[i])]
             f == [i \in DOMAIN Append(seq, a) |-> Given(Append(seq, a)[i])]
  <1>1. \A b \in AnswerType : Given(b) \in S
    BY DEF Given, AnswerType
  <1>2. DOMAIN seq = 1 .. Len(seq) /\ Len(seq) \in Nat /\ DOMAIN Append(seq, a) = 1 .. Len(seq) + 1
    OBVIOUS
  <1>3. \A i \in 1 .. Len(seq) : seq[i] \in AnswerType
    OBVIOUS
  <1>4. g \in [1 .. Len(seq) -> S]
    BY <1>1, <1>2, <1>3
  <1>5. g \in Seq(S) /\ Len(g) = Len(seq)
    BY <1>2, <1>4
  <1>6. \A i \in 1 .. Len(seq) : f[i] = g[i]
    BY <1>2
  <1>7. f[Len(seq) + 1] = Given(a)
    BY <1>2
  <1> HIDE DEF f, g, S
  <1>8. Given(a) \in S
    BY <1>1
  <1>9. \A i \in 1 .. Len(seq) + 1 : Append(g, Given(a))[i] = f[i]
    BY <1>2, <1>5, <1>6, <1>7, <1>8
  <1>10. f \in Seq(S) /\ Len(f) = Len(seq) + 1
    <2>1. f \in [1 .. Len(seq) + 1 -> S]
      <3>1. \A i \in 1 .. Len(seq) + 1 : f[i] \in S
        BY <1>2, <1>4, <1>6, <1>7, <1>8
      <3>2. f = [i \in 1 .. Len(seq) + 1 |-> f[i]]
        BY <1>2 DEF f
      <3> QED BY <3>1, <3>2
    <2> QED BY <1>2, <2>1
  <1>11. Append(g, Given(a)) \in Seq(S) /\ Len(Append(g, Given(a))) = Len(seq) + 1
    BY <1>5, <1>8
  <1>12. f = Append(g, Given(a))
    BY <1>9, <1>10, <1>11, SeqEqual
  <1> QED BY <1>12 DEF f, g

\* What the daemon answers is what is said, and to whom.
LEMMA AnswerGiven ==
    ASSUME TypeOK, taken > 0, NEW status \in Status, NEW from \in Nat, Answer(status, from)
    PROVE  Answers' = Append(Answers, [id |-> taken, tid |-> published[taken].tid, status |-> status])
  <1>1. PICK a : a = [id |-> taken, tid |-> cur.tid, status |-> status, from |-> from]
    OBVIOUS
  <1>2. a \in AnswerType
    BY <1>1, CurType DEF AnswerType, RequestType, TypeOK, DaemonOK
  <1>3. outbox' = Append(outbox, a) /\ outbox \in Seq(AnswerType)
    BY <1>1 DEF Answer, TypeOK, DaemonOK
  <1>4. Given(a) = [id |-> taken, tid |-> published[taken].tid, status |-> status]
    BY <1>1 DEF Given, cur
  <1> QED BY <1>2, <1>3, <1>4, GivenAppended DEF Answers

\* A request that is answered is answered in its turn, and what the answer says of
\* its execution is so.
LEMMA AnswerServes ==
    ASSUME TypeOK, ExecutionInv, ExecutionInv', [Next]_vars, NEW status \in Status, NEW from \in Nat,
           Answer(status, from), AnsweredBy(status)
    PROVE  Service!Serve
  <1>1. /\ taken > 0 /\ taken \in Id /\ taken \in Nat /\ pc \notin {"recv", "stopped"}
        /\ pc' \in {"recv", "stopped"} /\ pc \notin Halted
    BY AnsweredInHand
       DEF Answer, AnsweredBy, Refuse, mbtcp_set_response_timeout, NoContext, lazy_mbtcp_connect,
           TooMany, SendBroken, ConnectionReset, ResponseTimeout, At, Halted, TypeOK, DaemonOK
  <1>2. UNCHANGED <<published, taken, executed>>
    BY DEF AnsweredBy, Refuse, mbtcp_set_response_timeout, NoContext, lazy_mbtcp_connect, TooMany,
           SendBroken, Receive, ConnectionReset, ResponseTimeout, clients, slaves
  <1>3. Busy /\ ~Busy' /\ Served' = taken /\ taken > Served
    BY <1>1, <1>2 DEF Busy, Served
  <1>4. Answers' = Append(Answers, [id |-> taken, tid |-> published[taken].tid, status |-> status])
    BY <1>1, AnswerGiven
  <1>5. Effects' = Effects
    BY <1>2 DEF Effects, Id
  <1>6. published[taken].mode # "rtu"
    <2>1. Transacts(taken) => published[taken].mode # "rtu"
      BY DEF Transacts
    <2>2. pc \in AtSlave => Transacts(taken)
      BY DEF ExecutionInv, AtHome
    <2> QED
      BY <2>1, <2>2
         DEF AnsweredBy, Refuse, mbtcp_set_response_timeout, NoContext, lazy_mbtcp_connect, TooMany,
             SendBroken, ConnectionReset, ResponseTimeout, At, AtSlave, cur
  <1>7. status = "ok" => taken \in Effects \/ ~Transacts(taken)
    <2>1. SUFFICES ASSUME status = "ok", Transacts(taken) PROVE taken \in Effects
      OBVIOUS
    <2>2. KeyAt(taken) \in Key
      BY <1>1, CurType DEF KeyAt, EndpointOf, cur, Server, key
    <2>3. PICK a : a = [id |-> taken, tid |-> cur.tid, status |-> status, from |-> from]
      OBVIOUS
    <2>4. a \in RangeOf(outbox')
      <3>1. a \in AnswerType
        BY <1>1, <2>3, CurType DEF AnswerType, RequestType
      <3>2. outbox' = Append(outbox, a) /\ outbox \in Seq(AnswerType)
        BY <2>3 DEF Answer, TypeOK, DaemonOK
      <3> QED BY <3>1, <3>2, RangeAppend
    <2>5. KeyOf[<<published'[taken].ip, published'[taken].port>>] = KeyAt(taken)
          /\ published'[taken] = published[taken]
      BY <1>2 DEF KeyAt, EndpointOf
    <2>6. \E e \in RangeOf(executed'[KeyAt(taken)]) : e.id = taken
      BY <2>1, <2>3, <2>4, <2>5 DEF ExecutionInv, OkDid, Did, Executions, Transacts, KeyAt, EndpointOf
    <2> QED BY <1>1, <1>2, <2>2, <2>6 DEF Effects
  <1>8. status \in NotSent => taken \notin Effects
    <2>1. SUFFICES ASSUME status \in NotSent PROVE taken \notin Effects
      OBVIOUS
    <2>2. pc \in Before
      <3>1. ASSUME pc = "wait", NEW m \in rx[ptr_handle] PROVE Outcome(m) \notin NotSent
        <4>1. m.status \in Confirmation
          BY <3>1 DEF TypeOK, InUseOK, ContextOK, ReplyType
        <4> QED BY <4>1 DEF Outcome, NotSent, Confirmation
      <3> QED
        BY <2>1, <3>1
           DEF AnsweredBy, NotSent, Refuse, mbtcp_set_response_timeout, NoContext, At,
               lazy_mbtcp_connect, TooMany, SendBroken, Before
    <2>3. Unsent(taken)
      BY <2>2 DEF ExecutionInv, SentAfter
    <2> QED BY <2>3 DEF Unsent, Did, Executions, Effects
  <1>9. (pc' \notin Halted) \in BOOLEAN
    OBVIOUS
  <1> QED
    BY <1>1, <1>2, <1>3, <1>4, <1>5, <1>6, <1>7, <1>8, <1>9
       DEF Service!Serve, Served, Answers, Effects, Transacts, NotSent

----------------------------------------------------------------------------
\* The other steps.

\* What the service does not see.
LEMMA Unseen ==
    ASSUME UNCHANGED <<published, taken, outbox, executed>>,
           Busy' <=> Busy, pc' \in Halted <=> pc \in Halted
    PROVE  UNCHANGED Service!vars
  <1>1. Served' = Served /\ Answers' = Answers /\ Effects' = Effects
    BY DEF Served, Answers, Effects, Id
  <1>2. Alive' = Alive
    BY Zenon DEF Alive
  <1> QED BY <1>1, <1>2 DEF Service!vars, Served, Answers, Effects, Alive

\* Taking a request up begins it.
LEMMA RecvBegins ==
    ASSUME TypeOK, ExecutionInv, Recv
    PROVE  Service!Begin
  <1>1. /\ pc = "recv" /\ pc' \in {"dispatch", "crashed"} /\ taken' = taken + 1 /\ taken \in Nat
        /\ taken < Len(published) /\ UNCHANGED <<published, outbox, executed>>
    BY DEF Recv, clients, slaves, TypeOK, DaemonOK
  <1>2. ~Busy /\ Busy' /\ Alive
    BY <1>1 DEF Busy, Alive, Halted
  <1>3. Served = taken /\ Served' = Served /\ Answers' = Answers
    BY <1>1, <1>2 DEF Served, Answers
  <1>4. \A k \in Key : \A e \in RangeOf(executed[k]) : e.id \in Id
    BY DEF ExecutionInv, ExecutedAddressed, Executions, Addressed
  <1>5. Effects' = Effects
    <2>1. Id \subseteq Id'
      BY <1>1 DEF Id
    <2> QED BY <1>1, <1>4, <2>1 DEF Effects
  <1>6. Alive' \in BOOLEAN
    BY DEF Alive
  <1> QED
    BY <1>1, <1>2, <1>3, <1>5, <1>6 DEF Service!Begin, Served, Answers, Effects, Alive

\* A signal or a crash ends the service between two answers.
LEMMA StopHalts ==
    ASSUME UNCHANGED <<published, taken, outbox, executed>>,
           \/ pc = "recv" /\ pc' = "stopped"
           \/ pc \in {"dispatch", "fc"} /\ pc' = "crashed"
    PROVE  Service!Halt
  <1>1. (Busy' <=> Busy) /\ Alive /\ ~Alive'
    BY DEF Busy, Alive, Halted
  <1>2. Served' = Served /\ Answers' = Answers /\ Effects' = Effects
    BY <1>1 DEF Served, Answers, Effects, Id
  <1>3. Alive' = FALSE
    BY <1>1
  <1> QED BY <1>1, <1>2, <1>3 DEF Service!Halt, Served, Answers, Effects, Alive

\* A request in rtu mode is served by silence.
LEMMA IgnoreServes ==
    ASSUME TypeOK, IgnoreRtu
    PROVE  Service!Serve
  <1>1. /\ pc = "dispatch" /\ pc' \in {"recv", "stopped"} /\ published[taken].mode = "rtu"
        /\ UNCHANGED <<published, taken, outbox, executed>> /\ taken > 0 /\ taken \in Nat
    BY DEF IgnoreRtu, At, cur, clients, slaves, TypeOK, DaemonOK, InUseOK
  <1>2. Busy /\ ~Busy' /\ Alive
    BY <1>1 DEF Busy, Alive, Halted
  <1>3. Served' = taken /\ taken > Served /\ Answers' = Answers /\ Effects' = Effects
    BY <1>1, <1>2 DEF Served, Answers, Effects, Id
  <1>4. Alive' \in BOOLEAN
    BY DEF Alive
  <1> QED
    BY <1>1, <1>2, <1>3, <1>4 DEF Service!Serve, Served, Answers, Effects, Alive

\* What a slave executes, it executes the first time and only if it was not refused.
LEMMA SlaveExecutes ==
    ASSUME TypeOK, ExecutionInv, NEW h \in Key, NEW m \in wire[h], NEW did \in BOOLEAN,
           SlaveTook(h, m, did)
    PROVE  (\E id \in 1 .. taken : Service!Execute(id)) \/ UNCHANGED Service!vars
  <1>1. UNCHANGED <<published, taken, outbox, pc>>
    BY DEF SlaveTook, daemon, clients
  <1>2. (Busy' <=> Busy) /\ Served' = Served /\ Answers' = Answers /\ Alive' = Alive
    BY <1>1 DEF Busy, Served, Answers, Alive
  <1>3. CASE ~did
    <2>1. executed' = executed
      BY <1>3 DEF SlaveTook
    <2> QED BY <1>1, <1>2, <2>1, Unseen
  <1>4. CASE did
    <2> DEFINE e == [id |-> m.id, slave |-> m.slave]
    <2>1. Addressed(h, m) /\ m.id \in Id
      BY DEF ExecutionInv, WireAddressed, Addressed
    <2>2. executed' = [executed EXCEPT ![h] = Append(executed[h], e)]
          /\ executed \in [Key -> Seq(EffectType)] /\ e \in EffectType
      <3>1. m \in PduType /\ executed \in [Key -> Seq(EffectType)]
        BY DEF TypeOK, SlavesOK
      <3>2. e \in EffectType
        BY <3>1 DEF PduType, EffectType
      <3>3. executed' = [executed EXCEPT ![h] = Append(executed[h], e)]
        BY <1>4 DEF SlaveTook
      <3> QED BY <3>1, <3>2, <3>3
    <2>3. RangeOf(executed'[h]) = RangeOf(executed[h]) \cup {e}
      BY <2>2, RangeAppend
    <2>4. \A k \in Key : k # h => executed'[k] = executed[k]
      BY <2>2
    <2>5. Effects' = Effects \cup {m.id}
      <3>1. Id' = Id
        BY <1>1 DEF Id
      <3>2. ASSUME NEW id
            PROVE  (\E k \in Key : \E d \in RangeOf(executed'[k]) : d.id = id)
                     <=> (\E k \in Key : \E d \in RangeOf(executed[k]) : d.id = id) \/ id = m.id
        <4>1. \A k \in Key :
                RangeOf(executed'[k]) = RangeOf(executed[k]) \cup (IF k = h THEN {e} ELSE {})
          BY <2>3, <2>4
        <4>2. e.id = m.id /\ e \in RangeOf(executed'[h])
          BY <2>3
        <4> HIDE DEF e
        <4> QED BY <4>1, <4>2
      <3> QED BY <2>1, <3>1, <3>2 DEF Effects
    <2>6. m.id \notin Effects
      <3>1. SUFFICES ASSUME NEW k \in Key, NEW d \in Executions(k), d.id = m.id PROVE FALSE
        BY DEF Effects, Executions
      <3>2. k = h
        BY <2>1, <3>1 DEF ExecutionInv, ExecutedAddressed, Addressed
      <3> QED BY <3>1, <3>2 DEF ExecutionInv, OnWireOnce, Did
    <2>7. ~Service!Refused(m.id)
      <3>1. SUFFICES ASSUME NEW i \in 1 .. Len(Answers), Answers[i].id = m.id,
                            Answers[i].status \in NotSent
                     PROVE  FALSE
        BY DEF Service!Refused, Answers, NotSent
      <3>2. i \in 1 .. Len(outbox) /\ outbox[i].id = m.id /\ outbox[i].status \in NotSent
        BY <3>1 DEF Answers, Given, TypeOK, DaemonOK
      <3>3. Unsent(m.id)
        BY <2>1, <3>2 DEF ExecutionInv, RefusedUnsent, RangeOf, Addressed
      <3> QED BY <3>3 DEF Unsent
    <2>8. published[m.id].mode = "tcp" /\ published[m.id].cmd \in Fc
      BY <2>1 DEF Addressed, Transacts
    <2>9. Service!Execute(m.id)
      BY <1>1, <1>2, <2>1, <2>5, <2>6, <2>7, <2>8
         DEF Service!Execute, Served, Answers, Effects, Alive, Id
    <2> QED BY <2>1, <2>9 DEF Id
  <1> QED BY <1>3, <1>4

----------------------------------------------------------------------------
\* The refinement.

\* The daemon starts as the service does.
LEMMA ServiceInit ==
    ASSUME Init
    PROVE  Service!Init
  <1>1. taken = 0 /\ outbox = <<>> /\ published = <<>> /\ pc = "recv"
    BY DEF Init
  <1> QED BY <1>1 DEF Service!Init, Busy, Halted, Id

\* Every step of the daemon is one of the service or unseen there.
LEMMA ServiceStep ==
    ASSUME TypeOK, ExecutionInv, ExecutionInv', [Next]_vars
    PROVE  Service!Next \/ UNCHANGED Service!vars
  <1>1. CASE outbox' # outbox
    <2>1. PICK status \in Status, from \in Nat : Answer(status, from) /\ AnsweredBy(status)
      BY <1>1, AnswerKinds
    <2> QED BY <2>1, AnswerServes DEF Service!Next
  <1>2. ASSUME NEW status, NEW from, Answer(status, from) PROVE outbox' # outbox
    BY <1>2 DEF Answer, TypeOK, DaemonOK
  <1>3. CASE Recv
    BY <1>3, RecvBegins DEF Service!Next
  <1>4. CASE Stop \/ NullItem \/ NameOverrun \/ Overrun
    <2>1. Service!Halt
      BY <1>4, StopHalts DEF Stop, NullItem, NameOverrun, Overrun, At, clients, slaves
    <2> QED BY <2>1 DEF Service!Next
  <1>5. CASE IgnoreRtu
    BY <1>5, IgnoreServes DEF Service!Next
  <1>6. CASE /\ outbox' = outbox
             /\ \/ FindHandle \/ mbtcp_init_handle \/ FirstConnect \/ lazy_mbtcp_connect \/ Send
                \/ Interrupt \/ UNCHANGED vars
    <2>1. UNCHANGED <<published, taken, executed>> /\ (Busy' <=> Busy)
          /\ (pc' \in Halted <=> pc \in Halted)
      BY <1>2, <1>6
         DEF FindHandle, mbtcp_init_handle, FirstConnect, lazy_mbtcp_connect, Send, Interrupt, vars,
             At, Busy, Halted, clients, slaves, daemon
    <2> QED BY <1>6, <2>1, Unseen
  <1>7. ASSUME NEW r \in Request, ClientPublish(r) PROVE Service!Submit(r)
    <2>1. /\ Alive /\ published' = Append(published, r)
          /\ UNCHANGED <<taken, outbox, executed, pc>>
      BY <1>7 DEF ClientPublish, Alive, daemon, slaves
    <2>2. Served' = Served /\ Answers' = Answers /\ Effects' = Effects /\ Alive' = Alive
      BY <2>1 DEF Served, Answers, Effects, Alive, Busy, Id
    <2> QED BY <2>1, <2>2 DEF Service!Submit, Served, Answers, Effects, Alive
  <1>8. ASSUME NEW h \in Key, LinkFault(h) \/ SlaveReturn(h) \/ KernelGivesUp(h)
        PROVE  UNCHANGED Service!vars
    <2>1. UNCHANGED <<published, taken, outbox, executed, pc>>
      BY <1>8 DEF LinkFault, SlaveReturn, KernelGivesUp, daemon, clients, slaves
    <2> QED BY <2>1, Unseen DEF Busy
  <1>9. ASSUME NEW h \in Key, NEW m \in wire[h],
               \/ \E s \in Confirmation : SlaveAnswer(h, m, s)
               \/ \E did \in BOOLEAN : SlaveSilent(h, m, did)
        PROVE  Service!Next \/ UNCHANGED Service!vars
    <2>1. \E did \in BOOLEAN : SlaveTook(h, m, did)
      BY <1>9, SlaveTakes
    <2> QED BY <2>1, SlaveExecutes DEF Service!Next
  <1>10. CASE \/ Refuse \/ mbtcp_set_response_timeout \/ NoContext \/ TooMany \/ SendBroken
              \/ ConnectionReset \/ ResponseTimeout \/ \E m \in rx[ptr_handle] : Receive(m)
    BY <1>1, <1>2, <1>10
       DEF Refuse, mbtcp_set_response_timeout, NoContext, TooMany, SendBroken, ConnectionReset,
           ResponseTimeout, Receive, Fail
  <1> QED
    BY <1>1, <1>3, <1>4, <1>5, <1>6, <1>7, <1>8, <1>9, <1>10
       DEF Next, Daemon, Work, Environment, Service!Next

\* First come first served, one answer each under its own tid, no execution
\* repeated and none before its turn, "ok" only after it, a refusal only without it.
THEOREM DaemonServes == Spec => ImplementsService
  <1>1. Init => Service!Init
    BY ServiceInit
  <1>2. TypeOK /\ ExecutionInv /\ ExecutionInv' /\ [Next]_vars => [Service!Next]_(Service!vars)
    BY ServiceStep
  <1> QED
    BY <1>1, <1>2, TypeCorrect, ExecutionInvariant, PTL DEF Spec, ImplementsService, Service!Safety
=============================================================================
