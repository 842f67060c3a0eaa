-------------------------- MODULE RequestService --------------------------
(***************************************************************************)
(* What modbusd promises its clients, whatever happens behind it: requests *)
(* are answered one at a time in the order they reached it, each once and  *)
(* under its own id; the slaves execute a request at most once and never   *)
(* before it is taken up; "ok" means that it was executed, a refusal that  *)
(* it never will be.  The service may halt.                                *)
(***************************************************************************)
EXTENDS Naturals, Sequences

CONSTANTS
    Request,          \* requests, with what they ask for:
    Silent(_),        \* ... no answer is due
    Local(_),         \* ... no slave is involved
    Status, Refusal   \* every status of an answer; those that rule execution out

VARIABLES
    requests,   \* every request received
    begun,      \* how many the service has taken up
    served,     \* how many it has done with
    answers,    \* every answer given
    effects,    \* ids of the requests a slave has executed
    alive

vars == <<requests, begun, served, answers, effects, alive>>

Init ==
    /\ requests = <<>> /\ answers = <<>>
    /\ begun = 0 /\ served = 0
    /\ effects = {}
    /\ alive = TRUE

Submit(r) ==
    /\ alive
    /\ requests' = Append(requests, r)
    /\ UNCHANGED <<begun, served, answers, effects, alive>>

Begin ==
    /\ alive
    /\ begun = served /\ served < Len(requests)
    /\ begun' = begun + 1
    /\ alive' \in BOOLEAN        \* a request may be the end of the service
    /\ UNCHANGED <<requests, served, answers, effects>>

Refused(id) == \E i \in 1 .. Len(answers) : answers[i].id = id /\ answers[i].status \in Refusal

\* Also after the answer, if that left the outcome open.
Execute(id) ==
    /\ id \in 1 .. begun
    /\ id \notin effects /\ ~Refused(id)
    /\ ~Silent(requests[id]) /\ ~Local(requests[id])
    /\ effects' = effects \cup {id}
    /\ UNCHANGED <<requests, begun, served, answers, alive>>

Serve ==
    /\ alive
    /\ begun > served
    /\ served' = begun
    /\ IF Silent(requests[begun])
       THEN UNCHANGED answers
       ELSE \E s \in Status :
              /\ s = "ok" => begun \in effects \/ Local(requests[begun])
              /\ s \in Refusal => begun \notin effects
              /\ answers' = Append(answers, [id |-> begun, tid |-> requests[begun].tid,
                                             status |-> s])
    /\ alive' \in BOOLEAN        \* the last answer before the service halts
    /\ UNCHANGED <<requests, begun, effects>>

Halt == alive /\ alive' = FALSE /\ UNCHANGED <<requests, begun, served, answers, effects>>

Next ==
    \/ \E r \in Request : Submit(r)
    \/ Begin
    \/ \E id \in 1 .. begun : Execute(id)
    \/ Serve
    \/ Halt

\* What it never does, and what it does not put off for ever.
Safety   == Init /\ [][Next]_vars
Progress == WF_vars(Begin \/ Serve)

Spec == Safety /\ Progress
=============================================================================
