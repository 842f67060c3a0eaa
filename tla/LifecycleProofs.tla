-------------------------- MODULE LifecycleProofs --------------------------
(***************************************************************************)
(* The configuration file, for any number of processes, edits and crashes. *)
(***************************************************************************)
EXTENDS Lifecycle, TLAPS

\* A signal ends a process or leaves it where it was loaded.
LEMMA SignalType ==
    ASSUME TypeOK, NEW p \in Process, Signal(p)
    PROVE  /\ proc' \in [Process -> Where]
           /\ signalled' \in [Process -> BOOLEAN]
           /\ \A q \in Process : proc'[q] \in Loaded => proc[q] \in Loaded
           /\ \A q \in Process : proc'[q] = "saving" <=> proc[q] = "saving"
  BY DEF TypeOK, Signal, Where, Loaded, Catches, Bound

\* Stop signals a process that was started.
LEMMA StopsLiving ==
    ASSUME TypeOK, Stop
    PROVE  pidfile \in Process
  BY DEF TypeOK, Stop, PidAlive

\* Nobody comes to hold a configuration but by loading the file; nobody enters the
\* middle of a save but by opening the file, or leaves it but by ending it or by a
\* crash.
LoadedBefore == \A q \in Process : proc'[q] \in Loaded => proc[q] \in Loaded /\ config'[q] = config[q]
SavesGoOn == \A q \in Process : proc'[q] = "saving" <=> proc[q] = "saving"

\* The initial state is typed.
LEMMA TypeInit == Init => TypeOK
  <1> SUFFICES ASSUME Init PROVE TypeOK
    OBVIOUS
  <1>1. /\ file \in Config \cup {Empty, Absent} /\ edit \in Config \cup {Absent}
        /\ size \in Size \cup {0} /\ tail \in BOOLEAN
    BY DEF Init
  <1>2. \A p \in Process : proc[p] \notin Loaded
    BY DEF Init, Loaded, Catches, Bound
  <1> QED BY <1>1, <1>2 DEF Init, TypeOK, Where

\* A start gives a new process a place, before it has read anything.
LEMMA StartStep ==
    ASSUME TypeOK, NEW p \in Process, Start(p)
    PROVE  TypeOK' /\ LoadedBefore /\ SavesGoOn
  <1>1. proc[p] = "none"
    BY DEF Start, Process
  <1> QED BY <1>1 DEF Start, TypeOK, Where, Loaded, Catches, Bound, operator, text,
                      LoadedBefore, SavesGoOn

\* A stop changes nobody's configuration and interrupts no save.
LEMMA StopStep ==
    ASSUME TypeOK, Stop
    PROVE  TypeOK' /\ LoadedBefore /\ SavesGoOn
  <1>1. Signal(pidfile)
    BY DEF Stop
  <1> QED BY <1>1, SignalType, StopsLiving
          DEF Stop, TypeOK, operator, text, LoadedBefore, SavesGoOn

\* Who has loaded the file holds what it was then.
LEMMA LoadStep ==
    ASSUME TypeOK, NEW p \in Process, Load(p)
    PROVE  /\ TypeOK' /\ SavesGoOn /\ UNCHANGED text
           /\ \A q \in Process : proc'[q] \in Loaded =>
                \/ q = p /\ file \in Config /\ config'[q] = file
                \/ proc[q] \in Loaded /\ config'[q] = config[q]
  BY LifecycleAssumption
     DEF Load, file_to_json, Goes, TypeOK, Where, Loaded, Catches, Bound, operator, text, SavesGoOn

\* The steps between loading and truncating the file.
Between(p) == Setup(p) \/ Loop(p) \/ Enter(p) \/ Recv(p) \/ Handled(p)

\* Between loading and truncating, nothing touches the file.
LEMMA BetweenStep ==
    ASSUME TypeOK, NEW p \in Process, Between(p)
    PROVE  TypeOK' /\ LoadedBefore /\ SavesGoOn /\ UNCHANGED <<text, edit, offline, crashes>>
  BY DEF Between, Setup, Loop, Enter, Recv, Handled, Goes, TypeOK, Where, Loaded,
         Catches, Bound, operator, text, LoadedBefore, SavesGoOn

\* Who empties the file is saving.
LEMMA TruncateStep ==
    ASSUME TypeOK, NEW p \in Process, Truncate(p)
    PROVE  TypeOK' /\ LoadedBefore /\ proc'[p] = "saving"
  BY DEF Truncate, Goes, TypeOK, Where, Loaded, Catches, Bound, operator, text, LoadedBefore

\* Lengths are numbers.
LEMMA SizesAreNaturals == \A n \in Size \cup {0} : n \in Nat /\ 0 <= n
  BY LifecycleAssumption

\* Who saves writes what it has loaded, and nothing that was not longer is left.
LEMMA SaveStep ==
    ASSUME TypeOK, NEW p \in Process, Save(p)
    PROVE  /\ TypeOK' /\ LoadedBefore
           /\ proc[p] \in Loaded /\ file' = config[p] /\ file' \in Config
           /\ size <= PrintedSize[file'] => size' = PrintedSize[file'] /\ ~tail'
  <1>1. /\ proc[p] \in Loaded /\ file' = config[p] /\ file' \in Config
        /\ PrintedSize[file'] \in Size
    BY LifecycleAssumption DEF Save, Goes, TypeOK, Loaded, Catches, Bound
  <1>2. /\ size' \in Size \cup {0} /\ tail' \in BOOLEAN
        /\ size <= PrintedSize[file'] => size' = PrintedSize[file'] /\ ~tail'
    <2> DEFINE printed == PrintedSize[config[p]]
    <2>1. size \in Size \cup {0} /\ printed \in Size /\ file' = config[p]
      BY <1>1 DEF TypeOK
    <2>2. tail' = (size > printed) /\ size' = IF size > printed THEN size ELSE printed
      BY DEF Save
    <2>3. size \in Nat /\ printed \in Nat
      BY <2>1, SizesAreNaturals
    <2> HIDE DEF printed
    <2>4. size' \in Size \cup {0} /\ tail' \in BOOLEAN
      BY <2>1, <2>2
    <2>5. size <= printed => ~(size > printed)
      BY <2>3
    <2>6. size <= printed => size' = printed /\ ~tail'
      BY <2>2, <2>5
    <2> QED BY <2>1, <2>4, <2>6 DEF printed
  <1> QED BY <1>1, <1>2 DEF Save, Goes, TypeOK, Where, Loaded, Catches, Bound, operator, LoadedBefore

\* A crash is counted.
LEMMA CrashStep ==
    ASSUME TypeOK, NEW p \in Process, Crash(p)
    PROVE  /\ TypeOK' /\ LoadedBefore /\ crashes' > 0
           /\ \A q \in Process : proc'[q] = "saving" => proc[q] = "saving"
  BY DEF Crash, TypeOK, Where, Loaded, Catches, Bound, operator, text, LoadedBefore

\* An edit touches no process.
LEMMA EditStep ==
    ASSUME TypeOK, NEW c \in Config, NEW n \in Size, Edit(c, n)
    PROVE  TypeOK' /\ LoadedBefore /\ SavesGoOn
  <1>1. offline' \in BOOLEAN /\ tail' \in BOOLEAN
    BY DEF Edit, Running, Alive
  <1>2. /\ file' \in Config /\ size' \in Size /\ edit' \in Config /\ edits' \in Nat
        /\ UNCHANGED <<pidfile, proc, config, signalled, queue, messages, crashes>>
    BY DEF Edit, TypeOK
  <1> QED BY <1>1, <1>2 DEF TypeOK, LoadedBefore, SavesGoOn

\* A message touches no file.
LEMMA PublishStep ==
    ASSUME TypeOK, NEW p \in Process, Publish(p)
    PROVE  TypeOK' /\ LoadedBefore /\ SavesGoOn /\ UNCHANGED <<text, edit, offline, crashes>>
  BY DEF Publish, TypeOK, operator, text, LoadedBefore, SavesGoOn

\* Nor does nothing.
LEMMA IdleStep ==
    ASSUME TypeOK, UNCHANGED vars
    PROVE  TypeOK' /\ LoadedBefore /\ SavesGoOn /\ UNCHANGED <<text, edit, offline, crashes>>
  BY DEF vars, operator, text, TypeOK, LoadedBefore, SavesGoOn

\* The steps there are.
LEMMA NextCases ==
    ASSUME [Next]_vars
    PROVE  \/ Stop
           \/ \E c \in Config, n \in Size : Edit(c, n)
           \/ \E p \in Process :
                Start(p) \/ Load(p) \/ Between(p) \/ Truncate(p) \/ Save(p)
                \/ Publish(p) \/ Crash(p)
           \/ UNCHANGED vars
  BY DEF Next, Progress, Between

\* Every variable has its type, and every process that has loaded the file holds a
\* configuration to write back (main.c:237).
THEOREM TypeCorrect == Spec => []TypeOK
  <1>1. ASSUME TypeOK, [Next]_vars PROVE TypeOK'
    BY <1>1, NextCases, StartStep, StopStep, LoadStep, BetweenStep, TruncateStep,
       SaveStep, CrashStep, EditStep, PublishStep, IdleStep
  <1> QED BY <1>1, TypeInit, PTL DEF Spec

\* The file is empty only while a daemon saves, or after a crash.
EmptyForSaving ==
    file = Empty => crashes > 0 \/ \E p \in Process : proc[p] = "saving"

\* EmptyForSaving is kept.
LEMMA EmptyStep ==
    ASSUME TypeOK, EmptyForSaving, [Next]_vars
    PROVE  EmptyForSaving'
  <1>1. CASE SavesGoOn /\ UNCHANGED <<text, crashes>>
    BY <1>1 DEF EmptyForSaving, SavesGoOn, text
  <1>2. CASE Stop
    BY <1>1, <1>2, StopStep DEF Stop
  <1>3. ASSUME NEW c \in Config, NEW n \in Size, Edit(c, n) PROVE EmptyForSaving'
    BY <1>3, LifecycleAssumption DEF Edit, EmptyForSaving, text
  <1>4. ASSUME NEW p \in Process, Start(p) PROVE EmptyForSaving'
    BY <1>1, <1>4, StartStep DEF Start
  <1>5. ASSUME NEW p \in Process, Load(p) PROVE EmptyForSaving'
    BY <1>1, <1>5, LoadStep DEF Load
  <1>6. ASSUME NEW p \in Process, Between(p) PROVE EmptyForSaving'
    BY <1>1, <1>6, BetweenStep
  <1>7. ASSUME NEW p \in Process, Truncate(p) PROVE EmptyForSaving'
    BY <1>7, TruncateStep DEF EmptyForSaving
  <1>8. ASSUME NEW p \in Process, Save(p) PROVE EmptyForSaving'
    BY <1>8, SaveStep, LifecycleAssumption DEF EmptyForSaving
  <1>9. ASSUME NEW p \in Process, Publish(p) PROVE EmptyForSaving'
    BY <1>1, <1>9, PublishStep
  <1>10. ASSUME NEW p \in Process, Crash(p) PROVE EmptyForSaving'
    BY <1>10, CrashStep DEF EmptyForSaving
  <1>11. CASE UNCHANGED vars
    BY <1>1, <1>11, IdleStep
  <1> QED BY <1>2, <1>3, <1>4, <1>5, <1>6, <1>7, <1>8, <1>9, <1>10, <1>11, NextCases

\* EmptyForSaving is an invariant.
LEMMA EmptyInvariant == Spec => [](TypeOK /\ EmptyForSaving)
  <1>1. Init => EmptyForSaving
    BY LifecycleAssumption DEF Init, EmptyForSaving
  <1> QED BY <1>1, TypeCorrect, EmptyStep, PTL DEF Spec

\* However many daemons overlap, each truncating the file the others read and
\* writing its own text over theirs, the file begins with a configuration when the
\* last has ended, unless one was killed.
THEOREM FileEndsReadable == Spec => []QuietMeansReadable
  <1>1. ASSUME TypeOK, EmptyForSaving PROVE QuietMeansReadable
    <2>1. ASSUME NEW p \in Process, proc[p] = "saving" PROVE Running
      BY <2>1 DEF Running, Alive
    <2> QED BY <1>1, <2>1 DEF EmptyForSaving, QuietMeansReadable
  <1> QED BY <1>1, EmptyInvariant, PTL

\* After an edit made while nobody ran, the file is that edit or being rewritten,
\* whoever has read it since read the edit, and whoever writes it back finds nothing
\* longer there, so that no end of it stays.
EditKept ==
    offline =>
        /\ file \in {edit, Empty} /\ ~tail
        /\ \A p \in Process :
              /\ proc[p] \in Loaded => config[p] = edit
              /\ proc[p] = "saving" => size <= PrintedSize[edit]

\* An empty file is not longer than anything printed.
LEMMA EmptyShort ==
    ASSUME TypeOK, NEW p \in Process, proc[p] \in Loaded
    PROVE  0 <= PrintedSize[config[p]]
  BY LifecycleAssumption, SizesAreNaturals DEF TypeOK

\* EditKept is kept.
LEMMA EditKeptStep ==
    ASSUME TypeOK, EditKept, [Next]_vars
    PROVE  EditKept'
  <1>0. Loaded' = Loaded
    BY DEF Loaded, Catches, Bound
  <1>1. CASE LoadedBefore /\ SavesGoOn /\ UNCHANGED <<edit, offline, text>>
    BY <1>0, <1>1 DEF EditKept, LoadedBefore, SavesGoOn, text
  <1>2. CASE Stop
    BY <1>1, <1>2, StopStep DEF Stop, operator, text
  <1>3. ASSUME NEW c \in Config, NEW n \in Size, Edit(c, n) PROVE EditKept'
    <2>1. Running \/ \A p \in Process : proc[p] \notin Loaded /\ proc[p] # "saving"
      BY DEF Running, Alive, Loaded, Catches, Bound
    <2>2. /\ proc' = proc /\ edit' = c /\ offline' = ~Running
          /\ file' = c /\ tail' = FALSE
      BY <1>3 DEF Edit
    <2> QED BY <1>0, <2>1, <2>2 DEF EditKept
  <1>4. ASSUME NEW p \in Process, Start(p) PROVE EditKept'
    BY <1>1, <1>4, StartStep DEF Start, operator, text
  <1>5. ASSUME NEW p \in Process, Load(p) PROVE EditKept'
    BY <1>0, <1>5, LoadStep, LifecycleAssumption
       DEF Load, operator, text, EditKept, SavesGoOn
  <1>6. ASSUME NEW p \in Process, Between(p) PROVE EditKept'
    BY <1>1, <1>6, BetweenStep
  <1>7. ASSUME NEW p \in Process, Truncate(p) PROVE EditKept'
    <2>1. /\ file' = Empty /\ size' = 0 /\ ~tail' /\ UNCHANGED <<edit, offline, config>>
          /\ LoadedBefore
      BY <1>7, TruncateStep DEF Truncate, operator
    <2>2. \A q \in Process : proc'[q] = "saving" => proc[q] \in Loaded
      BY <1>7 DEF Truncate, Goes, TypeOK, Loaded, Catches, Bound
    <2>3. \A q \in Process : offline /\ proc[q] \in Loaded => 0 <= PrintedSize[edit]
      BY EmptyShort DEF EditKept
    <2> QED BY <1>0, <2>1, <2>2, <2>3 DEF EditKept, LoadedBefore
  <1>8. ASSUME NEW p \in Process, Save(p) PROVE EditKept'
    <2>1. UNCHANGED <<edit, offline>> /\ LoadedBefore /\ file' = config[p]
      BY <1>8, SaveStep DEF Save, operator
    <2>2. /\ proc[p] = "saving" /\ proc[p] \in Loaded
          /\ \A q \in Process : proc'[q] = "saving" => proc[q] = "saving"
      BY <1>8 DEF Save, Goes, TypeOK, Loaded, Catches, Bound
    <2>3. offline => file' = edit /\ ~tail' /\ size' = PrintedSize[edit]
      BY <1>8, <2>1, <2>2, SaveStep DEF EditKept
    <2>4. offline => PrintedSize[edit] \in Nat
      BY <2>2, LifecycleAssumption DEF EditKept, TypeOK
    <2>5. \A n \in Nat : n <= n
      OBVIOUS
    <2>6. offline => size' <= PrintedSize[edit]
      BY <2>3, <2>4, <2>5
    <2>7. offline => \A q \in Process : proc'[q] \in Loaded => config'[q] = edit
      BY <2>1 DEF EditKept, LoadedBefore
    <2> QED BY <1>0, <2>1, <2>3, <2>6, <2>7 DEF EditKept
  <1>9. ASSUME NEW p \in Process, Publish(p) PROVE EditKept'
    BY <1>1, <1>9, PublishStep
  <1>10. ASSUME NEW p \in Process, Crash(p) PROVE EditKept'
    BY <1>0, <1>10, CrashStep DEF Crash, operator, text, EditKept, LoadedBefore
  <1>11. CASE UNCHANGED vars
    BY <1>1, <1>11, IdleStep
  <1> QED BY <1>2, <1>3, <1>4, <1>5, <1>6, <1>7, <1>8, <1>9, <1>10, <1>11, NextCases

\* A daemon rewrites at its end what it read at its start; what an operator wrote
\* before any of the daemons now ended was started is not undone by that.
THEOREM OfflineEditStays == Spec => []OfflineEditSurvives
  <1>1. Init => EditKept
    BY DEF Init, EditKept, Loaded, Catches, Bound
  <1>2. ASSUME QuietMeansReadable, EditKept PROVE OfflineEditSurvives
    BY <1>2 DEF QuietMeansReadable, EditKept, OfflineEditSurvives
  <1> QED BY <1>1, <1>2, TypeCorrect, FileEndsReadable, EditKeptStep, PTL DEF Spec
=============================================================================
