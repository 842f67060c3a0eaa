----------------------------- MODULE Lifecycle -----------------------------
(***************************************************************************)
(* modbusd from start to end: the service script (config/service.sh) and   *)
(* its pid file, the daemons it starts, each loading the configuration     *)
(* file at its start and rewriting it at its end (main.c, json.c), the     *)
(* operator who edits that file, signals and crashes.                      *)
(*                                                                         *)
(* The text of a configuration, shorter than a stdio buffer, is written in *)
(* one go when the file is closed, from where the process that opened it   *)
(* stands: the beginning.  Of a longer text that came into the file since  *)
(* it was opened the end stays.  cJSON_Parse looks at the first value of a *)
(* text only, so the file still reads as the configuration written last.   *)
(* Requests are only counted: what is done with one is Modbusd's.          *)
(***************************************************************************)
EXTENDS Naturals

CONSTANTS
    MaxProcesses, \* bound: daemons started
    Config,       \* the configurations an operator may write
    Empty, Absent, \* what else the file may be
    Size,         \* lengths of a text
    PrintedSize,  \* configuration -> ... of the one cJSON_Print makes of it
    MaxEdits, MaxCrashes, MaxMessages   \* bounds

Process == 1 .. MaxProcesses            \* pids, in the order they are given
NoPid   == 0

ASSUME LifecycleAssumption ==
    /\ Empty \notin Config /\ Absent \notin Config /\ Empty # Absent
    /\ Size \subseteq Nat \ {0} /\ PrintedSize \in [Config -> Size]
    /\ {MaxProcesses, MaxEdits, MaxCrashes, MaxMessages} \subseteq Nat

VARIABLES
    file,        \* modbusd.json: the configuration it begins with
    size,        \* ... its length
    tail,        \* ... whether the end of another text follows
    pidfile,     \* the process /var/run/modbusd.pid names
    proc,        \* process -> where it is
    config,      \* process -> config_json
    signalled,   \* process -> zctx_interrupted
    queue,       \* process -> messages waiting in its SUB socket
    messages,    \* messages so far
    edit,        \* the last configuration the operator wrote
    offline,     \* ... while no daemon was alive
    edits, crashes

text     == <<file, size, tail>>
operator == <<edit, offline, edits>>
vars     == <<text, pidfile, proc, config, signalled, queue, messages, operator, crashes>>

Alive(p) == proc[p] \notin {"none", "ended", "crashed"}
PidAlive == IF pidfile = NoPid THEN FALSE ELSE Alive(pidfile)   \* kill -0
Running == \E p \in Process : Alive(p)
Bound == {"loop", "enter", "recv", "busy"}          \* the sockets are there
Catches == Bound \cup {"cleanup", "saving"}         \* ... the signal handlers

Init ==
    /\ \/ file \in Config /\ size \in Size
       \/ file = Absent /\ size = 0
    /\ tail = FALSE
    /\ pidfile = NoPid
    /\ proc = [p \in Process |-> "none"]
    /\ config = [p \in Process |-> Empty]
    /\ signalled = [p \in Process |-> FALSE]
    /\ queue = [p \in Process |-> 0] /\ messages = 0
    /\ edit = file /\ offline = TRUE
    /\ edits = 0 /\ crashes = 0

----------------------------------------------------------------------------
\* service.sh

\* PIDNAME is not set, and /var/run/ is not a file: never refused.  The shell
\* empties the pid file before the new pid is in it, which nobody reads then.
Start(p) ==
    /\ \A q \in Process : proc[q] = "none" <=> q >= p
    /\ proc' = [proc EXCEPT ![p] = "load"]
    /\ pidfile' = p
    /\ UNCHANGED <<text, config, signalled, queue, messages, operator, crashes>>

\* SIGTERM before zctx_new has installed the handlers ends the process; after, it
\* cuts a zmsg_recv that blocks short and is otherwise only noted.
Signal(p) ==
    IF proc[p] \in Catches
    THEN /\ signalled' = [signalled EXCEPT ![p] = TRUE]
         /\ proc' = [proc EXCEPT ![p] = IF @ = "recv" THEN "loop" ELSE @]
    ELSE /\ proc' = [proc EXCEPT ![p] = "ended"]
         /\ UNCHANGED signalled

\* kill -15, and the pid file goes at once.
Stop ==
    /\ PidAlive
    /\ Signal(pidfile)
    /\ pidfile' = NoPid
    /\ UNCHANGED <<text, config, queue, messages, operator, crashes>>

----------------------------------------------------------------------------
\* main(): load, loop, save.

Goes(p, from, to) == proc[p] = from /\ proc' = [proc EXCEPT ![p] = to]

\* Mutant: a text that does not parse is taken for a configuration.
LoadUnchecked(p) ==
    /\ Goes(p, "load", "setup")
    /\ config' = [config EXCEPT ![p] = file]
    /\ UNCHANGED <<text, pidfile, signalled, queue, messages, operator, crashes>>

\* file_to_json returns -1 for a missing file, and success for one that does not
\* parse.  (The text is not terminated; what follows a configuration is not looked
\* at, and what follows an empty text is none.)
file_to_json == IF file = Absent THEN "none" ELSE IF file \in Config THEN "json" ELSE "NULL"

\* load_config: exits with a message in the first case, dereferences the NULL.
Load(p) ==
    /\ \/ /\ file_to_json = "json"
          /\ Goes(p, "load", "setup")
          /\ config' = [config EXCEPT ![p] = file]
       \/ file_to_json = "none" /\ Goes(p, "load", "ended") /\ UNCHANGED config
       \/ file_to_json = "NULL" /\ Goes(p, "load", "crashed") /\ UNCHANGED config
    /\ UNCHANGED <<text, pidfile, signalled, queue, messages, operator, crashes>>

\* zctx_new and the two sockets.
Setup(p) ==
    /\ Goes(p, "setup", "loop")
    /\ UNCHANGED <<text, pidfile, config, signalled, queue, messages, operator, crashes>>

\* while (!zctx_interrupted)
Loop(p) ==
    /\ Goes(p, "loop", IF signalled[p] THEN "cleanup" ELSE "enter")
    /\ UNCHANGED <<text, pidfile, config, signalled, queue, messages, operator, crashes>>

\* zmsg_recv begins to block; a signal since the test does not cut it short.
Enter(p) ==
    /\ Goes(p, "enter", "recv")
    /\ UNCHANGED <<text, pidfile, config, signalled, queue, messages, operator, crashes>>

Recv(p) ==
    /\ queue[p] > 0
    /\ Goes(p, "recv", "busy")
    /\ queue' = [queue EXCEPT ![p] = @ - 1]
    /\ UNCHANGED <<text, pidfile, config, signalled, messages, operator, crashes>>

\* The handler of the request has returned.
Handled(p) ==
    /\ Goes(p, "busy", "loop")
    /\ UNCHANGED <<text, pidfile, config, signalled, queue, messages, operator, crashes>>

\* Mutant: zctx_destroy waits for the messages in the sockets.
TruncateLingers(p) ==
    /\ queue[p] = 0
    /\ Goes(p, "cleanup", "saving")
    /\ file' = Empty /\ size' = 0 /\ tail' = FALSE
    /\ UNCHANGED <<pidfile, config, signalled, queue, messages, operator, crashes>>

\* Mutant: the file is opened with "r+".
OpenOver(p) ==
    /\ Goes(p, "cleanup", "saving")
    /\ UNCHANGED <<text, pidfile, config, signalled, queue, messages, operator, crashes>>

\* zctx_destroy, then fopen(fname, "w"), which empties the file whoever is at it.
Truncate(p) ==
    /\ Goes(p, "cleanup", "saving")
    /\ file' = Empty /\ size' = 0 /\ tail' = FALSE
    /\ UNCHANGED <<pidfile, config, signalled, queue, messages, operator, crashes>>

\* Mutant: the file is not closed by a process that ends with _exit.
SaveUnclosed(p) ==
    /\ Goes(p, "saving", "ended")
    /\ UNCHANGED <<text, pidfile, config, signalled, queue, messages, operator, crashes>>

\* fprintf and fclose, from the beginning of the file.
Save(p) ==
    LET printed == PrintedSize[config[p]]
    IN  /\ Goes(p, "saving", "ended")
        /\ file' = config[p]
        /\ tail' = (size > printed)
        /\ size' = IF size > printed THEN size ELSE printed
        /\ UNCHANGED <<pidfile, config, signalled, queue, messages, operator, crashes>>

----------------------------------------------------------------------------
\* Operator, clients, misfortune.

\* The operator writes a text of length n for c into the same file.
Edit(c, n) ==
    /\ edits < MaxEdits
    /\ file' = c /\ size' = n /\ tail' = FALSE
    /\ edit' = c /\ offline' = ~Running
    /\ edits' = edits + 1
    /\ UNCHANGED <<pidfile, proc, config, signalled, queue, messages, crashes>>

Publish(p) ==
    /\ messages < MaxMessages
    /\ proc[p] \in Bound
    /\ queue' = [queue EXCEPT ![p] = @ + 1]
    /\ messages' = messages + 1
    /\ UNCHANGED <<text, pidfile, proc, config, signalled, operator, crashes>>

Crash(p) ==
    /\ crashes < MaxCrashes
    /\ Alive(p)
    /\ proc' = [proc EXCEPT ![p] = "crashed"]
    /\ crashes' = crashes + 1
    /\ UNCHANGED <<text, pidfile, config, signalled, queue, messages, operator>>

----------------------------------------------------------------------------
Progress(p) ==
    \/ Load(p) \/ Setup(p) \/ Loop(p) \/ Enter(p) \/ Recv(p) \/ Handled(p)
    \/ Truncate(p) \/ Save(p)

Next ==
    \/ Stop
    \/ \E c \in Config, n \in Size : Edit(c, n)
    \/ \E p \in Process : Start(p) \/ Progress(p) \/ Publish(p) \/ Crash(p)

\* A process that can go on does; a request is handled in bounded time.
Spec == Init /\ [][Next]_vars /\ \A p \in Process : WF_vars(Progress(p))

----------------------------------------------------------------------------
\* Properties.

Where  == {"none", "load", "setup", "loop", "enter", "recv", "busy", "cleanup", "saving",
           "ended", "crashed"}
Loaded == {"setup"} \cup Catches

\* The type of every variable, and that a process that has loaded the file holds a
\* configuration, to write back at its end.
TypeOK ==
    /\ file \in Config \cup {Empty, Absent}
    /\ size \in Size \cup {0} /\ tail \in BOOLEAN
    /\ pidfile \in Process \cup {NoPid}
    /\ proc \in [Process -> Where]
    /\ config \in [Process -> Config \cup {Empty}]
    /\ \A p \in Process : proc[p] \in Loaded => config[p] \in Config
    /\ signalled \in [Process -> BOOLEAN]
    /\ queue \in [Process -> Nat] /\ messages \in Nat
    /\ edit \in Config \cup {Absent} /\ offline \in BOOLEAN
    /\ edits \in Nat /\ crashes \in Nat

\* Once every daemon has ended the file begins with a configuration the next one
\* can load, if nothing but the daemons themselves failed: a daemon that meets the
\* file another one is rewriting dies of it and does not write what it read.  (The
\* end of another text may follow, where an edit and two savers met.)
QuietMeansReadable == ~Running /\ crashes = 0 => file # Empty

\* What the operator wrote while no daemon was alive is there, and nothing after
\* it, when all have ended, through any number of starts and stops, overlapping
\* ones too.
OfflineEditSurvives == ~Running /\ crashes = 0 /\ offline => file = edit /\ ~tail

\* A daemon that was signalled ends, unless it blocks in zmsg_recv with nothing to
\* receive.
SignalNoticed ==
    \A p \in Process : signalled[p] ~> ~Alive(p) \/ (proc[p] = "recv" /\ queue[p] = 0)
=============================================================================
