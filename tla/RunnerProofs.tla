---------------------------- MODULE RunnerProofs ----------------------------
(***************************************************************************)
(* The PID file keeps a second vault of the account from working, and the  *)
(* runner never loses its child, for any number of process ids, releases,  *)
(* crashes, errors and starts.                                             *)
(***************************************************************************)
EXTENDS Runner, TLAPS, FiniteSetTheorems

-----------------------------------------------------------------------------
(* Types.                                                                  *)

\* The step of a vault process keeps the types of all vault processes, be it
\* the runner's child or an orphan.
LEMMA ClientTypes ==
  ASSUME ClientTypeOK, NEW p \in Pids, NEW parented,
         \/ ClientStep(p, parented) \/ MainTaskEnds(p) \/ Killed(p, parented)
         \/ Signalled(p, parented) \/ Spawn(p) \/ ForeignProcess(p)
  PROVE  ClientTypeOK'
<1> USE DEF ClientTypeOK, Stages, Starting, Remains, GoTo
<1>1. CASE Exists(p)
  BY <1>1 DEF Exists
<1>2. CASE ReadPid(p, parented)
  BY <1>2 DEF ReadPid, Parses
<1>3. CASE Probe(p, parented)
  BY <1>3 DEF Probe
<1>4. CASE CreateFile(p)
  BY <1>4 DEF CreateFile
<1>5. CASE WritePid(p)
  BY <1>5 DEF WritePid
<1>6. CASE DropPidFile(p)
  BY <1>6 DEF DropPidFile
<1>7. CASE Exit(p, parented)
  BY <1>7 DEF Exit
<1>8. CASE MainTaskEnds(p)
  BY <1>8 DEF MainTaskEnds
<1>9. CASE Killed(p, parented)
  BY <1>9, ClientProcessAssumption DEF Killed
<1>10. CASE Signalled(p, parented)
  BY <1>10 DEF Signalled
<1>11. CASE Spawn(p)
  BY <1>11 DEF Spawn
<1>12. CASE ForeignProcess(p)
  BY <1>12 DEF ForeignProcess
<1> QED BY <1>1, <1>2, <1>3, <1>4, <1>5, <1>6, <1>7, <1>8, <1>9, <1>10, <1>11, <1>12 DEF ClientStep

\* Reaping the child, if the runner has one, does too.
LEMMA ReapTypes ==
  ASSUME TypeOK, ChildExited, Reap
  PROVE  ClientTypeOK' /\ child_proc' = NoPid /\ spawned' \subseteq Pids
BY DEF ChildExited, Reap, GoTo, TypeOK, ClientTypeOK, Stages

LEMMA InitTypes == Init => TypeOK
<1> SUFFICES ASSUME Init PROVE TypeOK
  OBVIOUS
<1>1. ClientTypeOK
  <2>1. kills \in 0..MaxKills /\ proc \in [Pids -> Stages]
    BY ClientProcessAssumption DEF Init, ClientInit, Stages
  <2>2. raced \in BOOLEAN
    BY DEF Init, ClientInit
  <2> QED BY <2>1, <2>2 DEF Init, ClientInit, ClientTypeOK
<1>2. 0 \in 0..MaxReleases /\ 0 \in 0..MaxErrors /\ 0 \in 0..MaxRunners
  BY RunnerAssumption
<1> QED BY <1>1, <1>2 DEF Init, TypeOK, RunnerStages

\* What the runner does not control.
LEMMA VaultTypes ==
  ASSUME TypeOK,
         \/ NewRelease
         \/ \E p \in Pids : \/ StartByHand(p) \/ VaultStep(p) \/ VaultFails(p)
                            \/ OperatorSignals(p) \/ OtherProgram(p)
  PROVE  TypeOK'
<1>1. ASSUME NEW p \in Pids,
             StartByHand(p) \/ VaultStep(p) \/ VaultFails(p) \/ OperatorSignals(p) \/ OtherProgram(p)
      PROVE  TypeOK'
  <2>1. ClientTypeOK'
    BY <1>1, ClientTypes DEF StartByHand, VaultStep, VaultFails, OperatorSignals, OtherProgram, IsChild, TypeOK
  <2> QED BY <1>1, <2>1, RunnerAssumption
          DEF StartByHand, VaultStep, VaultFails, OperatorSignals, OtherProgram, runnerVars, bounds, TypeOK
<1>2. CASE NewRelease
  BY <1>2, RunnerAssumption DEF NewRelease, clientVars, TypeOK, ClientTypeOK
<1> QED BY <1>1, <1>2

\* The runner.
LEMMA RunnerTypes ==
  ASSUME TypeOK,
         \/ StartRunner \/ RunnerStep \/ Shutdown \/ RunnerKilled
         \/ DownloadFails \/ SpawnFails \/ PollFails \/ DeleteFails
  PROVE  TypeOK'
<1> USE RunnerAssumption DEF Continue, RunnerStages, Awaiting
<1>1. CASE \/ StartRunner \/ FirstRelease \/ OpenBinary \/ WriteBinary \/ Poll \/ Wake \/ DeleteRelease
           \/ Shutdown
  <2>1. UNCHANGED clientVars
    BY <1>1 DEF StartRunner, FirstRelease, OpenBinary, WriteBinary, Poll, Wake, DeleteRelease, Shutdown
  <2>2. ClientTypeOK'
    BY <2>1 DEF clientVars, TypeOK, ClientTypeOK
  <2>3. disk' \in Releases \cup {NoRelease, Damaged} /\ damaged' \in BOOLEAN
    BY <1>1 DEF StartRunner, FirstRelease, OpenBinary, WriteBinary, Poll, Wake, DeleteRelease,
                Shutdown, TypeOK
  <2> QED BY <1>1, <2>2, <2>3
          DEF StartRunner, FirstRelease, OpenBinary, WriteBinary, Poll, Wake, DeleteRelease, Shutdown,
              bounds, TypeOK
<1>2. CASE RunClient
  <2>1. PICK p \in Pids : Spawn(p) /\ child_proc' = p /\ spawned' = spawned \cup {p}
    BY <1>2 DEF RunClient, run_binary
  <2>2. ClientTypeOK'
    BY <2>1, ClientTypes DEF TypeOK
  <2> QED BY <1>2, <2>1, <2>2 DEF RunClient, bounds, TypeOK
<1>3. CASE CheckChild
  <2>1. ClientTypeOK' /\ child_proc' \in Pids \cup {NoPid} /\ spawned' \subseteq Pids
    BY <1>3, ReapTypes DEF CheckChild, clientVars, TypeOK, ClientTypeOK
  <2> QED BY <1>3, <2>1 DEF CheckChild, bounds, TypeOK
<1>4. CASE TerminateChild
  <2>1. UNCHANGED clientVars \/ (child_proc \in Pids /\ Signalled(child_proc, TRUE))
    BY <1>4 DEF TerminateChild, SendTerm, TypeOK
  <2>2. ClientTypeOK'
    BY <2>1, ClientTypes DEF clientVars, TypeOK, ClientTypeOK
  <2>3. child_proc' = child_proc /\ runner' \in RunnerStages
    BY <1>4 DEF TerminateChild, SendTerm
  <2> QED BY <1>4, <2>2, <2>3 DEF TerminateChild, bounds, TypeOK
<1>5. CASE WaitChild
  <2>1. ClientTypeOK' /\ child_proc' \in Pids \cup {NoPid} /\ spawned' \subseteq Pids
    BY <1>5, ReapTypes DEF WaitChild
  <2> QED BY <1>5, <2>1 DEF WaitChild, bounds, TypeOK
<1>6. CASE RunnerKilled
  <2>1. ClientTypeOK'
    BY <1>6 DEF RunnerKilled, TypeOK, ClientTypeOK, Stages
  <2>2. disk' \in Releases \cup {NoRelease, Damaged} /\ damaged' \in BOOLEAN
    BY <1>6 DEF RunnerKilled, TypeOK
  <2> QED BY <1>6, <2>1, <2>2 DEF RunnerKilled, TypeOK
<1>7. CASE DownloadFails \/ SpawnFails \/ PollFails \/ DeleteFails
  <2>1. Fails
    BY <1>7 DEF DownloadFails, SpawnFails, PollFails, DeleteFails
  <2>2. disk' \in {disk, Damaged}
    BY <1>7 DEF DownloadFails, SpawnFails, PollFails, DeleteFails
  <2>3. disk' \in Releases \cup {NoRelease, Damaged}
    BY <2>2 DEF TypeOK
  <2> QED BY <2>1, <2>3 DEF Fails, clientVars, TypeOK, ClientTypeOK
<1> QED BY <1>1, <1>2, <1>3, <1>4, <1>5, <1>6, <1>7 DEF RunnerStep

LEMMA NextTypes == TypeOK /\ [Next]_vars => TypeOK'
<1> SUFFICES ASSUME TypeOK, [Next]_vars PROVE TypeOK'
  OBVIOUS
<1>1. CASE UNCHANGED vars
  BY <1>1 DEF vars, clientVars, runnerVars, bounds, TypeOK, ClientTypeOK
<1> QED BY <1>1, VaultTypes, RunnerTypes DEF Next

\* The runner's variables and the vault processes have their types, whatever
\* the chain, the downloads, the operator and the signals do.
THEOREM RunnerTypeCorrect == Spec => []TypeOK
BY InitTypes, NextTypes, PTL DEF Spec

-----------------------------------------------------------------------------
(* The runner and its child.                                               *)

\* The runner has a child, the only process it spawned, or none.
OneChild == spawned = IF child_proc = NoPid THEN {} ELSE {child_proc}

\* Where the runner handles the binary, or starts a client, it has no child.
Childless == {"off", "fetch", "open", "download", "run", "rerun", "delete"}
NoChildThere == runner \in Childless => child_proc = NoPid

ChildInv == OneChild /\ NoChildThere

\* A vault's step does not make the runner's child disappear: it becomes a
\* zombie, which only the runner reaps.
LEMMA VaultKeepsChild ==
  ASSUME TypeOK, ChildInv, NEW p \in Pids, VaultStep(p)
  PROVE  UNCHANGED <<spawned, child_proc, runner>>
<1>1. CASE p \in spawned
  <2>1. proc'[p] # "free"
    BY <1>1 DEF VaultStep, ClientStep, Exists, ReadPid, Probe, CreateFile, WritePid, DropPidFile, Exit,
                IsChild, GoTo, Remains, TypeOK, ClientTypeOK
  <2> QED BY <1>1, <2>1 DEF VaultStep
<1>2. CASE p \notin spawned
  BY <1>2 DEF VaultStep
<1> QED BY <1>1, <1>2 DEF VaultStep

LEMMA NextChild == TypeOK /\ ChildInv /\ [Next]_vars => ChildInv'
<1> SUFFICES ASSUME TypeOK, ChildInv, [Next]_vars PROVE ChildInv'
  OBVIOUS
<1> USE ClientProcessAssumption DEF ChildInv, OneChild, NoChildThere, Childless, Continue
<1>1. CASE UNCHANGED vars
  BY <1>1 DEF vars, runnerVars
<1>2. ASSUME NEW p \in Pids, StartByHand(p) \/ VaultFails(p) \/ OperatorSignals(p) \/ OtherProgram(p)
      PROVE  ChildInv'
  BY <1>2 DEF StartByHand, VaultFails, OperatorSignals, OtherProgram, runnerVars
<1>3. ASSUME NEW p \in Pids, VaultStep(p) PROVE ChildInv'
  BY <1>3, VaultKeepsChild
<1>4. CASE \/ NewRelease \/ StartRunner \/ FirstRelease \/ OpenBinary \/ WriteBinary \/ Poll \/ Wake
           \/ DeleteRelease \/ Shutdown
  BY <1>4 DEF NewRelease, StartRunner, FirstRelease, OpenBinary, WriteBinary, Poll, Wake, DeleteRelease,
              Shutdown
<1>5. CASE RunClient
  BY <1>5 DEF RunClient, run_binary, NoPid
<1>6. CASE CheckChild \/ WaitChild
  BY <1>6 DEF CheckChild, WaitChild, ChildExited, Reap
<1>7. CASE TerminateChild
  BY <1>7 DEF TerminateChild, SendTerm
<1>8. CASE RunnerKilled
  BY <1>8 DEF RunnerKilled
<1>9. CASE DownloadFails \/ SpawnFails \/ PollFails \/ DeleteFails
  BY <1>9 DEF DownloadFails, SpawnFails, PollFails, DeleteFails, Fails
<1> QED BY <1>1, <1>2, <1>3, <1>4, <1>5, <1>6, <1>7, <1>8, <1>9 DEF Next, RunnerStep

LEMMA ChildAlways == Spec => [](TypeOK /\ ChildInv)
<1>1. Init => ChildInv
  BY DEF Init, ChildInv, OneChild, NoChildThere
<1> QED BY <1>1, InitTypes, NextTypes, NextChild, PTL DEF Spec

\* Every process the runner spawned and that still exists is its child_proc:
\* none is forgotten by a restart of the client, an update, an error or the
\* shutdown (runner.rs: run_binary, terminate_proc_and_wait).
THEOREM RunnerKeepsChild == Spec => []NoChildForgotten
<1>1. ChildInv => NoChildForgotten
  BY DEF ChildInv, OneChild, NoChildForgotten
<1> QED BY <1>1, ChildAlways, PTL

\* The binary is written, or removed, only while the runner has no child: after
\* terminate_proc_and_wait has returned, or before the first start, also if
\* the runner is killed while it downloads (runner.rs: auto_update).
THEOREM BinaryReplacedWithoutChild == Spec => BinaryChangesWithoutChild
<1>1. TypeOK /\ ChildInv /\ [Next]_vars => (disk' # disk => spawned = {})
  <2> SUFFICES ASSUME TypeOK, ChildInv, [Next]_vars, disk' # disk PROVE spawned = {}
    OBVIOUS
  <2>1. OpenBinary \/ WriteBinary \/ DeleteRelease \/ ((RunnerKilled \/ DownloadFails) /\ runner = "download")
    BY DEF Next, vars, runnerVars, bounds, NewRelease, StartRunner, RunnerStep, FirstRelease, RunClient, CheckChild,
           Poll, Wake, TerminateChild, WaitChild, Shutdown, RunnerKilled, Fails, DownloadFails, SpawnFails,
           PollFails, DeleteFails, StartByHand, VaultStep, VaultFails, OperatorSignals, OtherProgram
  <2> QED BY <2>1 DEF OpenBinary, WriteBinary, DeleteRelease, ChildInv, OneChild, NoChildThere, Childless
<1> QED BY <1>1, ChildAlways, PTL DEF Spec, BinaryChangesWithoutChild

-----------------------------------------------------------------------------
(* The PID file.                                                           *)

Serving(p) == proc[p] \in {"serve", "drop", "exit"}

\* Only a vault that serves works.
WorkingServe == \A p \in working : Serving(p)

\* One vault starts at a time, and one serves.
OneStarts == \A p, q \in Pids : proc[p] \in Starting /\ proc[q] \in Starting => p = q
OneServes == \A p, q \in Pids : Serving(p) /\ Serving(q) => p = q

\* The file names the vault that serves, until that removes it.
FileNamesServer ==
  \A q \in Pids : /\ proc[q] \in {"serve", "drop"} => pidfile = q
                  /\ proc[q] = "exit" => pidfile = NoPid

\* A vault that has read the file knows the one that serves.
ServerIsSeen == \A p, q \in Pids : proc[p] = "probe" /\ Serving(q) => seen[p] = q

\* A vault that creates the file, or writes to it, is alone.
WriterIsAlone ==
  \A p \in Pids : /\ proc[p] \in {"create", "write"} => \A q \in Pids : ~Serving(q)
                  /\ proc[p] = "write" => p \in writers /\ pidfile = Unparsable

ExclusionInv == OneStarts /\ OneServes /\ FileNamesServer /\ ServerIsSeen /\ WriterIsAlone
FileInv == WorkingServe /\ (~raced => ExclusionInv)

\* A process that ends, or dies, leaves the others alone: nothing starts, or
\* begins to serve, and the file is not touched.
LEMMA EndingKeepsFile ==
  ASSUME TypeOK, FileInv, raced' = raced, pidfile' = pidfile,
         proc' \in [Pids -> Stages], working' \subseteq working, working' \subseteq {q \in Pids : Serving(q)'},
         \A q \in Pids : \/ proc'[q] = proc[q] /\ (q \in writers => q \in writers') /\ seen'[q] = seen[q]
                         \/ proc'[q] = "drop" /\ proc[q] = "serve"
                         \/ proc'[q] \in {"free", "foreign", "zombie", "start"}
  PROVE  FileInv'
<1>1. WorkingServe'
  BY DEF WorkingServe
<1>2. \A q \in Pids : /\ Serving(q)' => Serving(q)
                      /\ proc'[q] \in Starting => proc[q] = proc'[q]
                      /\ proc'[q] \in {"serve", "drop"} => proc[q] \in {"serve", "drop"}
                      /\ proc'[q] = "exit" => proc[q] = "exit"
  BY DEF Serving, Starting
<1>3. ASSUME ExclusionInv PROVE ExclusionInv'
  <2>1. OneStarts' /\ OneServes'
    BY <1>2, <1>3 DEF ExclusionInv, OneStarts, OneServes
  <2>2. FileNamesServer'
    BY <1>2, <1>3 DEF ExclusionInv, FileNamesServer
  <2>3. ServerIsSeen'
    BY <1>2, <1>3 DEF ExclusionInv, ServerIsSeen
  <2>4. WriterIsAlone'
    BY <1>2, <1>3 DEF ExclusionInv, WriterIsAlone, Starting
  <2> QED BY <2>1, <2>2, <2>3, <2>4 DEF ExclusionInv
<1> QED BY <1>1, <1>3 DEF FileInv

\* A vault's own steps.
LEMMA ClientKeepsFile ==
  ASSUME TypeOK, FileInv, NEW p \in Pids, NEW parented, ClientStep(p, parented)
  PROVE  FileInv'
<1> USE DEF TypeOK, ClientTypeOK
<1>1. ASSUME working' \subseteq working \cup {p}, p \in working' => Serving(p)',
             \A q \in Pids \ {p} : proc'[q] = proc[q],
             ~raced' => ~raced /\ ExclusionInv'
      PROVE  FileInv'
  BY <1>1 DEF FileInv, WorkingServe, Serving
<1>2. CASE Exists(p)
  <2>1. ASSUME ~raced' PROVE ~raced /\ \A q \in Pids \ {p} : proc[q] \notin Starting \cup {"exit"}
    BY <1>2, <2>1 DEF Exists
  <2>2. ASSUME ~raced' PROVE ExclusionInv'
    <3>1. ExclusionInv /\ \A q \in Pids \ {p} : proc'[q] = proc[q] /\ proc[q] \notin Starting \cup {"exit"}
      BY <1>2, <2>1, <2>2 DEF Exists, GoTo, FileInv
    <3>2. /\ proc'[p] \in {"create", "read"} /\ (proc'[p] = "create" => pidfile = NoPid)
          /\ UNCHANGED <<seen, pidfile, writers>>
      BY <1>2 DEF Exists, GoTo
    <3>3. OneStarts' /\ OneServes' /\ FileNamesServer' /\ ServerIsSeen'
      BY <3>1, <3>2 DEF ExclusionInv, OneStarts, OneServes, FileNamesServer, ServerIsSeen, Serving, Starting
    <3>4. WriterIsAlone'
      BY <3>1, <3>2, ClientProcessAssumption
         DEF ExclusionInv, FileNamesServer, WriterIsAlone, Serving, Starting, NoPid
    <3> QED BY <3>3, <3>4 DEF ExclusionInv
  <2> QED BY <1>1, <1>2, <2>1, <2>2 DEF Exists, GoTo, FileInv, WorkingServe, Serving
<1>3. CASE ReadPid(p, parented)
  <2>1. ~raced' => ~raced
    BY <1>3 DEF ReadPid
  <2>2. ASSUME ExclusionInv PROVE ExclusionInv'
    <3>1. /\ \A q \in Pids \ {p} : proc'[q] = proc[q] /\ seen'[q] = seen[q]
          /\ proc[p] = "read" /\ UNCHANGED <<pidfile, writers>>
      BY <1>3 DEF ReadPid, GoTo
    <3>2. \/ proc'[p] = "probe" /\ seen'[p] = pidfile /\ pidfile \in Pids
          \/ proc'[p] \in {"zombie", "free"}
      BY <1>3 DEF ReadPid, GoTo, Remains, Parses
    <3>3. OneStarts' /\ OneServes' /\ FileNamesServer'
      BY <2>2, <3>1, <3>2 DEF ExclusionInv, OneStarts, OneServes, FileNamesServer, Serving, Starting
    <3>4. ServerIsSeen'
      BY <2>2, <3>1, <3>2, ClientProcessAssumption
         DEF ExclusionInv, FileNamesServer, ServerIsSeen, Serving, NoPid
    <3>5. WriterIsAlone'
      BY <2>2, <3>1, <3>2 DEF ExclusionInv, WriterIsAlone, Serving
    <3> QED BY <3>3, <3>4, <3>5 DEF ExclusionInv
  <2> QED BY <1>1, <1>3, <2>1, <2>2 DEF ReadPid, GoTo, Remains, FileInv, WorkingServe, Serving
<1>4. CASE Probe(p, parented)
  <2>1. ~raced' => ~raced
    BY <1>4 DEF Probe
  <2>2. ASSUME ExclusionInv PROVE ExclusionInv'
    <3>1. /\ \A q \in Pids \ {p} : proc'[q] = proc[q] /\ seen'[q] = seen[q]
          /\ proc[p] = "probe" /\ UNCHANGED <<pidfile, writers>>
      BY <1>4 DEF Probe, GoTo
    <3>2. \/ proc'[p] = "create" /\ proc[seen[p]] \in {"free", "foreign"}
          \/ proc'[p] \in {"zombie", "free"}
      BY <1>4 DEF Probe, GoTo, Remains, Refuses, pid_name_matches_existing_client
    <3>3. OneStarts' /\ OneServes' /\ FileNamesServer' /\ ServerIsSeen'
      BY <2>2, <3>1, <3>2 DEF ExclusionInv, OneStarts, OneServes, FileNamesServer, ServerIsSeen, Serving, Starting
    <3>4. WriterIsAlone'
      BY <2>2, <3>1, <3>2 DEF ExclusionInv, ServerIsSeen, WriterIsAlone, Serving
    <3> QED BY <3>3, <3>4 DEF ExclusionInv
  <2> QED BY <1>1, <1>4, <2>1, <2>2 DEF Probe, GoTo, Remains, FileInv, WorkingServe, Serving
<1>5. CASE CreateFile(p)
  <2>1. ~raced' => ~raced
    BY <1>5 DEF CreateFile
  <2>2. ASSUME ExclusionInv PROVE ExclusionInv'
    <3>1. /\ \A q \in Pids \ {p} : proc'[q] = proc[q]
          /\ proc[p] = "create" /\ proc'[p] = "write" /\ UNCHANGED seen
          /\ pidfile' = Unparsable /\ writers' = writers \cup {p}
      BY <1>5 DEF CreateFile, GoTo
    <3>2. \A q \in Pids : ~Serving(q) /\ ~Serving(q)'
      BY <2>2, <3>1 DEF ExclusionInv, WriterIsAlone, Serving
    <3>3. OneStarts' /\ OneServes' /\ FileNamesServer' /\ ServerIsSeen'
      BY <2>2, <3>1, <3>2 DEF ExclusionInv, OneStarts, OneServes, FileNamesServer, ServerIsSeen, Serving, Starting
    <3>4. WriterIsAlone'
      BY <2>2, <3>1, <3>2 DEF ExclusionInv, OneStarts, WriterIsAlone, Starting
    <3> QED BY <3>3, <3>4 DEF ExclusionInv
  <2> QED BY <1>1, <1>5, <2>1, <2>2 DEF CreateFile, GoTo, FileInv, WorkingServe, Serving
<1>6. CASE WritePid(p)
  <2>1. ~raced' => ~raced
    BY <1>6 DEF WritePid
  <2>2. ASSUME ExclusionInv PROVE ExclusionInv'
    <3>1. /\ \A q \in Pids \ {p} : proc'[q] = proc[q]
          /\ proc[p] = "write" /\ proc'[p] = "serve" /\ UNCHANGED seen
          /\ writers' = writers \ {p}
      BY <1>6 DEF WritePid, GoTo
    <3>2. (\A q \in Pids : ~Serving(q)) /\ pidfile' = p
      BY <1>6, <2>2, <3>1 DEF WritePid, ExclusionInv, WriterIsAlone
    <3>3. \A q \in Pids \ {p} : proc[q] \notin Starting
      BY <2>2, <3>1 DEF ExclusionInv, OneStarts, Starting
    <3> QED BY <3>1, <3>2, <3>3
            DEF ExclusionInv, OneStarts, OneServes, FileNamesServer, ServerIsSeen, WriterIsAlone,
                Serving, Starting
  <2> QED BY <1>1, <1>6, <2>1, <2>2 DEF WritePid, GoTo, FileInv, WorkingServe, Serving
<1>7. CASE DropPidFile(p)
  <2>1. ~raced' => ~raced
    BY <1>7 DEF DropPidFile
  <2>2. ASSUME ExclusionInv PROVE ExclusionInv'
    <3>1. /\ \A q \in Pids \ {p} : proc'[q] = proc[q]
          /\ proc[p] = "drop" /\ proc'[p] = "exit" /\ UNCHANGED seen /\ pidfile' = NoPid
      BY <1>7 DEF DropPidFile, GoTo
    <3>2. \A q \in Pids \ {p} : ~Serving(q) /\ proc[q] \notin {"create", "write"}
      BY <2>2, <3>1 DEF ExclusionInv, OneServes, WriterIsAlone, Serving
    <3> QED BY <2>2, <3>1, <3>2
            DEF ExclusionInv, OneStarts, OneServes, FileNamesServer, ServerIsSeen, WriterIsAlone,
                Serving, Starting
  <2> QED BY <1>1, <1>7, <2>1, <2>2 DEF DropPidFile, GoTo, FileInv, WorkingServe, Serving
<1>8. CASE Exit(p, parented)
  <2>1. proc'[p] \in {"zombie", "free"} /\ proc' \in [Pids -> Stages]
    BY <1>8 DEF Exit, GoTo, Remains, Stages
  <2> QED BY <1>8, <2>1, EndingKeepsFile DEF Exit, GoTo, FileInv, WorkingServe, Serving
<1> QED BY <1>2, <1>3, <1>4, <1>5, <1>6, <1>7, <1>8 DEF ClientStep

\* What is done to a vault: a signal, a crash, its start, and the end of its
\* main task.
LEMMA EventKeepsFile ==
  ASSUME TypeOK, FileInv, NEW p \in Pids, NEW parented,
         \/ MainTaskEnds(p) \/ Killed(p, parented) \/ Signalled(p, parented)
         \/ Spawn(p) \/ ForeignProcess(p)
  PROVE  FileInv'
<1> USE DEF TypeOK, ClientTypeOK, GoTo
<1>1. ClientTypeOK'
  BY ClientTypes
<1>2. CASE MainTaskEnds(p)
  BY <1>1, <1>2, EndingKeepsFile DEF MainTaskEnds, FileInv, WorkingServe, Serving
<1>3. CASE Killed(p, parented)
  <2>1. proc'[p] \in {"zombie", "free"}
    BY <1>3 DEF Killed, Remains
  <2> QED BY <1>1, <1>3, <2>1, EndingKeepsFile DEF Killed, FileInv, WorkingServe, Serving
<1>4. CASE Signalled(p, parented)
  <2>1. \/ proc[p] = "serve" /\ proc'[p] = "drop"
        \/ proc[p] \in Starting \cup {"start"} /\ proc'[p] \in {"zombie", "free"}
        \/ proc[p] \notin Starting \cup {"start", "serve"} /\ proc'[p] = proc[p]
    BY <1>4 DEF Signalled, Remains, Starting
  <2>2. \A q \in Pids \ {p} : proc'[q] = proc[q] /\ seen'[q] = seen[q] /\ (q \in writers => q \in writers')
    BY <1>4 DEF Signalled
  <2>3. \A q \in working : Serving(q)'
    BY <2>1, <2>2 DEF FileInv, WorkingServe, Serving, Starting
  <2>4. CASE proc[p] \in Starting \cup {"start", "serve"}
    BY <1>1, <1>4, <2>1, <2>2, <2>3, <2>4, EndingKeepsFile DEF Signalled, Starting
  <2>5. CASE proc[p] \notin Starting \cup {"start", "serve"}
    \* The signal has no effect on the invariant: a vault that does not start has
    \* neither seen a pid nor opened the file.
    <3>1. proc' = proc /\ UNCHANGED <<working, pidfile, raced>>
      BY <1>1, <1>4, <2>1, <2>2, <2>5 DEF Signalled
    <3>2. ExclusionInv => ExclusionInv'
      BY <2>2, <2>5, <3>1
         DEF ExclusionInv, OneStarts, OneServes, FileNamesServer, ServerIsSeen, WriterIsAlone, Serving, Starting
    <3> QED BY <2>3, <3>1, <3>2 DEF FileInv, WorkingServe
  <2> QED BY <2>4, <2>5
<1>5. CASE Spawn(p) \/ ForeignProcess(p)
  BY <1>1, <1>5, EndingKeepsFile DEF Spawn, ForeignProcess, FileInv, WorkingServe, Serving
<1> QED BY <1>2, <1>3, <1>4, <1>5

\* What the runner does to the vaults: it starts, signals and reaps one, and
\* its zombies disappear with it.
LEMMA RunnerKeepsFile ==
  ASSUME TypeOK, FileInv,
         \/ StartRunner \/ RunnerStep \/ Shutdown \/ RunnerKilled
         \/ DownloadFails \/ SpawnFails \/ PollFails \/ DeleteFails
  PROVE  FileInv'
<1> USE DEF TypeOK, ClientTypeOK
<1>1. ClientTypeOK'
  BY RunnerTypes DEF TypeOK
<1>2. ASSUME UNCHANGED clientVars PROVE FileInv'
  BY <1>2 DEF clientVars, FileInv, WorkingServe, Serving, ExclusionInv, OneStarts, OneServes,
              FileNamesServer, ServerIsSeen, WriterIsAlone
<1>3. ASSUME ChildExited, Reap PROVE FileInv'
  BY <1>1, <1>3, EndingKeepsFile DEF ChildExited, Reap, GoTo, FileInv, WorkingServe, Serving
<1>4. CASE RunClient
  BY <1>4, EventKeepsFile DEF RunClient, run_binary
<1>5. CASE CheckChild \/ WaitChild
  BY <1>2, <1>3, <1>5 DEF CheckChild, WaitChild
<1>6. CASE TerminateChild
  BY <1>2, <1>6, EventKeepsFile DEF TerminateChild, SendTerm
<1>7. CASE RunnerKilled
  BY <1>1, <1>7, EndingKeepsFile DEF RunnerKilled, FileInv, WorkingServe, Serving
<1>8. CASE \/ StartRunner \/ FirstRelease \/ OpenBinary \/ WriteBinary \/ Poll \/ Wake \/ DeleteRelease
           \/ Shutdown \/ Fails
  BY <1>2, <1>8 DEF StartRunner, FirstRelease, OpenBinary, WriteBinary, Poll, Wake, DeleteRelease, Shutdown, Fails
<1> QED BY <1>4, <1>5, <1>6, <1>7, <1>8
        DEF RunnerStep, DownloadFails, SpawnFails, PollFails, DeleteFails

LEMMA NextFile == TypeOK /\ FileInv /\ [Next]_vars => FileInv'
<1> SUFFICES ASSUME TypeOK, FileInv, [Next]_vars PROVE FileInv'
  OBVIOUS
<1>1. ASSUME UNCHANGED clientVars PROVE FileInv'
  BY <1>1 DEF clientVars, FileInv, WorkingServe, Serving, ExclusionInv, OneStarts, OneServes,
              FileNamesServer, ServerIsSeen, WriterIsAlone
<1>2. CASE UNCHANGED vars \/ NewRelease
  BY <1>1, <1>2 DEF vars, NewRelease
<1>3. ASSUME NEW p \in Pids, VaultStep(p) PROVE FileInv'
  BY <1>3, ClientKeepsFile DEF VaultStep
<1>4. ASSUME NEW p \in Pids, StartByHand(p) \/ VaultFails(p) \/ OperatorSignals(p) \/ OtherProgram(p)
      PROVE  FileInv'
  BY <1>4, EventKeepsFile DEF StartByHand, VaultFails, OperatorSignals, OtherProgram
<1> QED BY <1>2, <1>3, <1>4, RunnerKeepsFile DEF Next

\* As long as no vault starts while another starts or exits, at most one vault
\* of the account works, whatever pids are used again, whichever file a crash
\* left behind, and whether the vault was started by a runner, by its
\* predecessor or by hand (process.rs: PidFile::create).
THEOREM OneVaultWorks == Spec => []SingleService
<1>1. Init => FileInv
  BY ClientProcessAssumption
     DEF Init, ClientInit, FileInv, WorkingServe, ExclusionInv, OneStarts, OneServes, FileNamesServer,
         ServerIsSeen, WriterIsAlone, Serving, Starting
<1>2. TypeOK /\ FileInv => SingleService
  <2> SUFFICES ASSUME TypeOK, FileInv, ~raced PROVE Cardinality(working) <= 1
    BY DEF SingleService
  <2>1. \A p, q \in working : p = q
    BY DEF FileInv, WorkingServe, ExclusionInv, OneServes, TypeOK, ClientTypeOK
  <2>2. CASE working = {}
    <3>1. Cardinality(working) = 0
      BY <2>2, FS_EmptySet
    <3> QED BY <3>1
  <2>3. ASSUME NEW p \in working PROVE Cardinality(working) <= 1
    <3>1. working = {p}
      BY <2>1
    <3>2. Cardinality(working) = 1
      BY <3>1, FS_Singleton
    <3> QED BY <3>2
  <2> QED BY <2>2, <2>3
<1> QED BY <1>1, <1>2, InitTypes, NextTypes, NextFile, PTL DEF Spec

=============================================================================
