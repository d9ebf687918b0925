--------------------------- MODULE ClientProcess ----------------------------
(***************************************************************************)
(* A vault process from its start to its exit (vault/src/main.rs) and the  *)
(* PID file that keeps a second vault of the same account from starting    *)
(* (vault/src/process.rs).                                                 *)
(*                                                                         *)
(* A starting process looks whether the file exists, reads it, looks up    *)
(* the process it names, creates (truncates) the file and writes its own   *)
(* pid: five system calls, between which other processes run.  The file    *)
(* is removed when `_pidfile' is dropped, before the process exits: the    *)
(* spawned main task still runs until then.  Termination signals are       *)
(* caught only once the file is written; a process that is killed, or      *)
(* signalled before, leaves its file behind.                               *)
(*                                                                         *)
(* All vaults are assumed to run under one process name, and every other   *)
(* program under another.                                                  *)
(***************************************************************************)
EXTENDS Integers, FiniteSets

CONSTANTS
  Pids,            \* process ids, reused once a process is gone
  MaxKills         \* bound: processes that crash or are killed

ASSUME ClientProcessAssumption == Pids \subseteq Nat \ {0} /\ MaxKills \in Nat

NoPid == 0         \* no such file, or no such process
Unparsable == -1   \* the content of a file that is created and not yet written

VARIABLES
  proc,            \* where each process is
  seen,            \* the pid a starting process read from the file
  working,         \* processes whose main task (the vault service) runs
  pidfile,         \* content of the PID file
  writers,         \* processes that have the present file open for writing
  raced,           \* history: has a start overlapped another start, or an exit?
  kills

clientVars == <<proc, seen, working, pidfile, writers, raced, kills>>

\* "free" and "foreign" are not vaults; a "zombie" is dead but not yet waited for.
Starting == {"read", "probe", "create", "write"}
Stages == {"free", "foreign", "zombie", "start", "serve", "drop", "exit"} \cup Starting

Alive(p) == proc[p] \notin {"free", "foreign", "zombie"}

ClientTypeOK ==
  /\ proc \in [Pids -> Stages]
  /\ seen \in [Pids -> Pids \cup {NoPid}]
  /\ working \subseteq Pids /\ writers \subseteq Pids
  /\ pidfile \in Pids \cup {NoPid, Unparsable}
  /\ raced \in BOOLEAN
  /\ kills \in 0..MaxKills

ClientInit ==
  /\ proc = [p \in Pids |-> "free"]
  /\ seen = [p \in Pids |-> NoPid]
  /\ working = {} /\ writers = {}
  /\ pidfile = NoPid
  /\ raced = FALSE
  /\ kills = 0

-----------------------------------------------------------------------------

GoTo(p, stage) == proc' = [proc EXCEPT ![p] = stage]

\* What is left of a process that ended: its parent reaps it, an orphan is gone.
Remains(p, parented) == IF parented THEN "zombie" ELSE "free"

\* The pids of dead processes that the file or a starting vault still mentions
\* may be used again; among all others the choice makes no difference.
Mentioned(p) == p = pidfile \/ \E q \in Pids : seen[q] = p
NextPid(p) == Mentioned(p) \/ \A q \in Pids : q < p => (proc[q] # "free" \/ Mentioned(q))

\* The operating system starts a vault.
Spawn(p) ==
  /\ proc[p] = "free" /\ NextPid(p) /\ GoTo(p, "start")
  /\ UNCHANGED <<seen, working, pidfile, writers, raced, kills>>

\* The pid of a dead vault is used again by a program of another name, which
\* matters while the file holds it.  There is always an unused pid.
ForeignProcess(p) ==
  /\ \/ proc[p] = "free" /\ pidfile = p /\ GoTo(p, "foreign")
        /\ \E q \in Pids \ {p} : proc[q] = "free"
     \/ proc[p] = "foreign" /\ GoTo(p, "free")
  /\ UNCHANGED <<seen, working, pidfile, writers, raced, kills>>

\* path.exists() of PidFile::create.
Exists(p) ==
  /\ proc[p] = "start"
  /\ GoTo(p, IF pidfile = NoPid THEN "create" ELSE "read")
  /\ raced' = (raced \/ \E q \in Pids \ {p} : proc[q] \in Starting \cup {"exit"})
  /\ UNCHANGED <<seen, working, pidfile, writers, kills>>

\* Mutant: an empty file is taken for a pid.
ParsesEmpty(content) == content # NoPid

\* PidFile::pid: a file that is gone, or does not hold a number, ends the start.
Parses(content) == content \in Pids

ReadPid(p, parented) ==
  /\ proc[p] = "read"
  /\ IF Parses(pidfile)
       THEN GoTo(p, "probe") /\ seen' = [seen EXCEPT ![p] = pidfile]
       ELSE GoTo(p, Remains(p, parented)) /\ UNCHANGED seen
  /\ UNCHANGED <<working, pidfile, writers, raced, kills>>

\* Mutant: a process that runs for long is taken for one that does not exist.
MatchesOnlyStarting(q) == proc[q] \in Starting

\* refresh_process, and the name of that process equals the vault's own.
pid_name_matches_existing_client(q) == proc[q] \notin {"free", "foreign"}

\* ServiceAlreadyRunning ends the start.
Refuses(p) == proc[p] = "probe" /\ pid_name_matches_existing_client(seen[p])

Probe(p, parented) ==
  /\ proc[p] = "probe"
  /\ GoTo(p, IF Refuses(p) THEN Remains(p, parented) ELSE "create")
  /\ seen' = [seen EXCEPT ![p] = NoPid]
  /\ UNCHANGED <<working, pidfile, writers, raced, kills>>

\* set_pid: File::create truncates what is there, then the pid is written to
\* the opened file, which may have been removed from its path in between, or
\* may hold another pid, of which a longer one leaves its last digits.
CreateFile(p) ==
  /\ proc[p] = "create" /\ GoTo(p, "write")
  /\ pidfile' = Unparsable
  /\ writers' = writers \cup {p}
  /\ UNCHANGED <<seen, working, raced, kills>>

WritePid(p) ==
  /\ proc[p] = "write" /\ GoTo(p, "serve")
  /\ pidfile' \in IF p \notin writers THEN {pidfile}
                 ELSE IF pidfile = Unparsable THEN {p} ELSE {p, Unparsable}
  /\ writers' = writers \ {p}
  /\ working' = working \cup {p}
  /\ UNCHANGED <<seen, raced, kills>>

\* catch_signals: the main task returned (an error of ConnectionManager::start)
\* or a signal was caught, which leaves the main task running.
MainTaskEnds(p) ==
  /\ proc[p] = "serve" /\ GoTo(p, "drop")
  /\ working' = working \ {p}
  /\ UNCHANGED <<seen, pidfile, writers, raced, kills>>

\* A termination signal: caught while serving, deadly before, without effect after.
Signalled(p, parented) ==
  /\ proc' = [proc EXCEPT ![p] = CASE @ = "serve" -> "drop"
                                   [] @ \in Starting \cup {"start"} -> Remains(p, parented)
                                   [] OTHER -> @]
  /\ writers' = writers \ {p} /\ seen' = [seen EXCEPT ![p] = NoPid]
  /\ UNCHANGED <<working, pidfile, raced, kills>>

\* PidFile::remove by path: the process created a file, whoever wrote to it since.
DropPidFile(p) ==
  /\ proc[p] = "drop" /\ GoTo(p, "exit")
  /\ pidfile' = NoPid /\ writers' = {}
  /\ UNCHANGED <<seen, working, raced, kills>>

\* std::process::exit ends whatever task still runs.
Exit(p, parented) ==
  /\ proc[p] = "exit" /\ GoTo(p, Remains(p, parented))
  /\ working' = working \ {p} /\ writers' = writers \ {p}
  /\ UNCHANGED <<seen, pidfile, raced, kills>>

\* SIGKILL, an abort or a power cut of one process: no destructor runs.
Killed(p, parented) ==
  /\ Alive(p) /\ kills < MaxKills
  /\ kills' = kills + 1
  /\ GoTo(p, Remains(p, parented))
  /\ working' = working \ {p} /\ writers' = writers \ {p}
  /\ seen' = [seen EXCEPT ![p] = NoPid]
  /\ UNCHANGED <<pidfile, raced>>

\* One step of a vault process on its own.
ClientStep(p, parented) ==
  \/ Exists(p) \/ ReadPid(p, parented) \/ Probe(p, parented)
  \/ CreateFile(p) \/ WritePid(p) \/ DropPidFile(p) \/ Exit(p, parented)

-----------------------------------------------------------------------------

\* As long as no start overlapped another start or an exit, at most one vault
\* of the account works at a time: the PID file excludes the others, also the
\* one a killed runner left behind (process.rs: PidFile::create).
SingleService == ~raced => Cardinality(working) <= 1

=============================================================================
