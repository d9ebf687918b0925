------------------------------- MODULE Runner -------------------------------
(***************************************************************************)
(* The runner (runner/src/runner.rs, main.rs): it reads the current client *)
(* release from the parachain, downloads its binary, runs it as a child    *)
(* process, restarts it when it exits, and replaces it when the release    *)
(* changes.  Composed with the vault processes of ClientProcess.           *)
(*                                                                         *)
(* A binary stands for its checksum.  All releases have one file name, the *)
(* last segment of their URI, and so one path.                             *)
(***************************************************************************)
EXTENDS ClientProcess

CONSTANTS
  Releases,        \* client releases, each standing for its checksum
  MaxReleases,     \* bound: changes of the release on the parachain
  MaxErrors,       \* bound: operations that fail after RETRY_TIMEOUT
  MaxRunners       \* bound: starts of the runner, and of a vault by hand

ASSUME RunnerAssumption ==
  /\ Releases \cap Int = {}
  /\ {MaxReleases, MaxErrors, MaxRunners} \subseteq Nat

NoRelease == 0
Damaged == -1      \* bytes that are no release: an error page, an old file's tail, a partial write

VARIABLES
  chain,           \* CurrentClientReleases on the parachain
  runner,          \* where the runner is in auto_update, or "off"
  target,          \* the release that auto_update is about to download
  child_proc, downloaded_release,
  disk,            \* the file at the download path
  damaged,         \* history: is what the last download left not the release?
  spawned,         \* history: processes that this runner spawned and that still exist
  changes, errors, starts

runnerVars == <<chain, runner, target, child_proc, downloaded_release, disk, damaged, spawned>>
bounds == <<changes, errors, starts>>
vars == <<clientVars, runnerVars, bounds>>

Awaiting == {"fetch", "download", "poll", "sleep"}
RunnerStages == {"off", "open", "run", "rerun", "check", "kill", "wait", "delete", "stop", "reap"} \cup Awaiting

TypeOK ==
  /\ ClientTypeOK
  /\ chain \in Releases \cup {NoRelease}
  /\ runner \in RunnerStages
  /\ target \in Releases \cup {NoRelease}
  /\ child_proc \in Pids \cup {NoPid}
  /\ downloaded_release \in Releases \cup {NoRelease}
  /\ disk \in Releases \cup {NoRelease, Damaged}
  /\ damaged \in BOOLEAN /\ spawned \subseteq Pids
  /\ changes \in 0..MaxReleases /\ errors \in 0..MaxErrors /\ starts \in 0..MaxRunners

Init ==
  /\ ClientInit
  /\ chain \in Releases \cup {NoRelease}
  /\ runner = "off" /\ target = NoRelease
  /\ child_proc = NoPid /\ downloaded_release = NoRelease
  /\ disk \in Releases \cup {NoRelease, Damaged}
  /\ damaged = FALSE /\ spawned = {}
  /\ changes = 0 /\ errors = 0 /\ starts = 0

-----------------------------------------------------------------------------
(* What the runner does not control.                                       *)

NewRelease ==
  /\ changes < MaxReleases /\ changes' = changes + 1
  /\ chain' \in (Releases \cup {NoRelease}) \ {chain}
  /\ UNCHANGED <<clientVars, runner, target, child_proc, downloaded_release, disk, damaged, spawned, errors, starts>>

\* The operator starts a vault without the runner.
StartByHand(p) ==
  /\ starts < MaxRunners /\ starts' = starts + 1
  /\ Spawn(p) /\ \E q \in Pids \ {p} : proc[q] = "free"
  /\ UNCHANGED <<runnerVars, changes, errors>>

\* The steps of the vault processes.  The runner's child becomes a zombie.
IsChild(p) == p \in spawned

VaultStep(p) ==
  /\ ClientStep(p, IsChild(p))
  /\ spawned' = IF proc'[p] = "free" THEN spawned \ {p} ELSE spawned
  /\ UNCHANGED <<chain, runner, target, child_proc, downloaded_release, disk, damaged, bounds>>

VaultFails(p) ==
  /\ MainTaskEnds(p) \/ Killed(p, IsChild(p))
  /\ UNCHANGED <<runnerVars, bounds>>

OperatorSignals(p) ==
  /\ proc[p] = "serve" /\ Signalled(p, IsChild(p))
  /\ UNCHANGED <<runnerVars, bounds>>

OtherProgram(p) == ForeignProcess(p) /\ UNCHANGED <<runnerVars, bounds>>

-----------------------------------------------------------------------------
(* The runner.                                                             *)

Continue(stage) == runner' = stage

\* Any error of auto_update ends it; run then terminates the child.
Fails ==
  /\ errors < MaxErrors /\ errors' = errors + 1
  /\ Continue("stop")
  /\ UNCHANGED <<clientVars, chain, target, child_proc, downloaded_release, damaged, spawned, changes, starts>>

\* main: the connection is established, Runner::new.
StartRunner ==
  /\ runner = "off" /\ starts < MaxRunners
  /\ starts' = starts + 1
  /\ Continue("fetch")
  /\ UNCHANGED <<clientVars, chain, target, child_proc, downloaded_release, disk, damaged, spawned, changes, errors>>

\* Mutant: the checksum of the file on disk is not compared.
LoadsAnyBinary ==
  /\ runner = "fetch"
  /\ \/ /\ chain = NoRelease \/ disk = NoRelease
        /\ Continue("stop") /\ UNCHANGED downloaded_release
     \/ /\ chain # NoRelease /\ disk # NoRelease
        /\ downloaded_release' = chain /\ Continue("run")
  /\ UNCHANGED <<clientVars, chain, target, child_proc, disk, damaged, spawned, bounds>>

\* The first try_get_release, whose `expect' panics if there is no release,
\* and try_load_downloaded_binary, which compares checksums.
FirstRelease ==
  /\ runner = "fetch"
  /\ \/ /\ chain = NoRelease /\ Continue("stop")
        /\ UNCHANGED <<target, downloaded_release>>
     \/ /\ chain # NoRelease /\ disk = chain
        /\ downloaded_release' = chain /\ Continue("run")
        /\ UNCHANGED target
     \/ /\ chain # NoRelease /\ disk # chain
        /\ target' = chain /\ Continue("open")
        /\ UNCHANGED downloaded_release
  /\ UNCHANGED <<clientVars, chain, child_proc, disk, damaged, spawned, bounds>>

\* download_binary: the file is opened, created if need be, and not truncated.
OpenBinary ==
  /\ runner = "open" /\ Continue("download")
  /\ disk' = IF disk = NoRelease THEN Damaged ELSE disk
  /\ UNCHANGED <<clientVars, chain, target, child_proc, downloaded_release, damaged, spawned, bounds>>

\* The answer, which may be an error page, is written over what the file holds;
\* nobody compares the checksum of what is there now.
WriteBinary ==
  /\ runner = "download" /\ Continue("run")
  /\ disk' \in {target, Damaged} /\ damaged' = (disk' = Damaged)
  /\ downloaded_release' = target /\ target' = NoRelease
  /\ UNCHANGED <<clientVars, chain, child_proc, spawned, bounds>>

\* The file cannot be opened, or nothing, or a part, is written.
DownloadFails ==
  /\ runner \in {"open", "download"} /\ Fails
  /\ disk' \in IF runner = "download" THEN {disk, Damaged} ELSE {disk}

\* run_binary: nothing runs if there is a child or no binary; bytes that are
\* no program may fail to start, and may do something all the same.
run_binary ==
  \E p \in Pids :
    /\ child_proc = NoPid /\ downloaded_release # NoRelease
    /\ Spawn(p)
    /\ child_proc' = p /\ spawned' = spawned \cup {p}

RunClient ==
  /\ \/ runner = "run" /\ Continue("check")
     \/ runner = "rerun" /\ Continue("poll")
  /\ run_binary
  /\ UNCHANGED <<chain, target, downloaded_release, disk, damaged, bounds>>

\* check_child_proc_alive: try_wait, which reaps a child that exited.
ChildExited == child_proc # NoPid /\ proc[child_proc] = "zombie"

Reap ==
  /\ GoTo(child_proc, "free")
  /\ child_proc' = NoPid /\ spawned' = spawned \ {child_proc}
  /\ UNCHANGED <<seen, working, pidfile, writers, raced, kills>>

\* maybe_restart_client: the child is reaped, and run again.
CheckChild ==
  /\ runner = "check"
  /\ \/ /\ ChildExited /\ Reap /\ Continue("rerun")
     \/ /\ child_proc # NoPid /\ ~ChildExited /\ Continue("poll")
        /\ UNCHANGED <<clientVars, child_proc, spawned>>
  /\ UNCHANGED <<chain, target, downloaded_release, disk, damaged, bounds>>

\* run_binary fails: ChildProcessExists, NoDownloadedRelease, or the spawn.
SpawnFails == runner \in {"run", "rerun"} /\ Fails /\ UNCHANGED disk

\* Mutant: the old binary is removed while the client still runs.
PollAndDelete ==
  /\ runner = "poll"
  /\ IF chain # NoRelease /\ chain # downloaded_release
       THEN target' = chain /\ Continue("delete")
       ELSE UNCHANGED target /\ Continue("sleep")
  /\ UNCHANGED <<clientVars, chain, child_proc, downloaded_release, disk, damaged, spawned, bounds>>

\* try_get_release in the loop: another checksum than the downloaded one is an update.
Poll ==
  /\ runner = "poll"
  /\ IF chain # NoRelease /\ chain # downloaded_release
       THEN target' = chain /\ Continue("kill")
       ELSE UNCHANGED target /\ Continue("sleep")
  /\ UNCHANGED <<clientVars, chain, child_proc, downloaded_release, disk, damaged, spawned, bounds>>

PollFails == runner \in {"fetch", "poll"} /\ Fails /\ UNCHANGED disk

\* BLOCK_TIME later.
Wake ==
  /\ runner = "sleep" /\ Continue("check")
  /\ UNCHANGED <<clientVars, chain, target, child_proc, downloaded_release, disk, damaged, spawned, bounds>>

\* Mutant: the runner does not wait for the client to end.
ForgetsChild(then) ==
  /\ Continue(then[2]) /\ child_proc' = NoPid
  /\ IF child_proc = NoPid THEN UNCHANGED clientVars ELSE Signalled(child_proc, TRUE)

\* terminate_proc_and_wait, up to the wait: SIGTERM to the child, if there is one.
SendTerm(then) ==
  IF child_proc = NoPid
    THEN Continue(then[2]) /\ UNCHANGED <<clientVars, child_proc>>
    ELSE Signalled(child_proc, TRUE) /\ Continue(then[1]) /\ UNCHANGED child_proc

TerminateChild ==
  /\ \/ runner = "kill" /\ SendTerm(<<"wait", "delete">>)
     \/ runner = "stop" /\ SendTerm(<<"reap", "off">>)
  /\ downloaded_release' = IF runner' = "off" THEN NoRelease ELSE downloaded_release
  /\ target' = IF runner' = "off" THEN NoRelease ELSE target
  /\ damaged' = (damaged /\ runner' # "off")
  /\ UNCHANGED <<chain, disk, spawned, bounds>>

\* child_proc.wait() returns.
WaitChild ==
  /\ runner \in {"wait", "reap"} /\ ChildExited /\ Reap
  /\ IF runner = "wait"
       THEN Continue("delete") /\ UNCHANGED <<downloaded_release, target, damaged>>
       ELSE /\ Continue("off") /\ damaged' = FALSE
            /\ downloaded_release' = NoRelease /\ target' = NoRelease
  /\ UNCHANGED <<chain, disk, bounds>>

DeleteRelease ==
  /\ runner = "delete" /\ Continue("open")
  /\ disk' = NoRelease /\ downloaded_release' = NoRelease /\ damaged' = FALSE
  /\ UNCHANGED <<clientVars, chain, target, child_proc, spawned, bounds>>

DeleteFails == runner = "delete" /\ Fails /\ UNCHANGED disk

\* run: a termination signal is seen at an await, and drops auto_update.
Shutdown ==
  /\ runner \in Awaiting /\ Continue("stop")
  /\ UNCHANGED <<clientVars, chain, target, child_proc, downloaded_release, disk, damaged, spawned, bounds>>

\* The runner is not shut down gracefully: its child runs on as an orphan.
RunnerKilled ==
  /\ runner # "off" /\ errors < MaxErrors
  /\ errors' = errors + 1
  /\ Continue("off")
  /\ target' = NoRelease /\ child_proc' = NoPid /\ downloaded_release' = NoRelease
  /\ damaged' = FALSE
  /\ disk' \in IF runner = "download" THEN {disk, Damaged} ELSE {disk}
  /\ proc' = [p \in Pids |-> IF proc[p] = "zombie" THEN "free" ELSE proc[p]]
  /\ spawned' = {}
  /\ UNCHANGED <<seen, working, pidfile, writers, raced, kills, chain, changes, starts>>

RunnerStep ==
  \/ FirstRelease \/ OpenBinary \/ WriteBinary \/ RunClient \/ CheckChild \/ Poll
  \/ Wake \/ TerminateChild \/ WaitChild \/ DeleteRelease

Next ==
  \/ NewRelease \/ StartRunner \/ RunnerStep \/ Shutdown \/ RunnerKilled
  \/ DownloadFails \/ SpawnFails \/ PollFails \/ DeleteFails
  \/ \E p \in Pids :
       \/ StartByHand(p) \/ VaultStep(p) \/ VaultFails(p)
       \/ OperatorSignals(p) \/ OtherProgram(p)

Spec == Init /\ [][Next]_vars

\* The runner's steps and the vaults' own are not delayed for ever: awaits end
\* by their timeout, and a process is scheduled.
FairSpec == Spec /\ WF_vars(RunnerStep) /\ \A p \in Pids : WF_vars(VaultStep(p))

-----------------------------------------------------------------------------

\* Every process that this runner spawned and that still exists is its
\* child_proc: none is forgotten by a restart, an update, an error or the
\* shutdown, so that a runner that ends gracefully leaves no vault behind
\* (runner/README.md: "It is CRITICAL that the runner is shut down gracefully").
NoChildForgotten == spawned \subseteq {child_proc}

\* The binary on disk changes only while the runner has no child ("only
\* supposed to occur _after_ the client process has been killed", RunnerExt).
BinaryChangesWithoutChild == [][disk' # disk => spawned = {}]_vars

\* A vault is kept from starting: the PID file was created by one that died before
\* it wrote its pid, another vault works, or the starting vault was given the very
\* pid that the file of a dead one holds, and takes itself for that one.
Barred ==
  \/ pidfile = Unparsable /\ writers = {}
  \/ \E p \in working : p # child_proc
  \/ \E p \in Pids : proc[p] = "probe" /\ seen[p] = p

\* A release that stays on the parachain is in the end what the runner's child
\* was started from, and that vault got past the PID file: after every crash of
\* the client, whatever the file on disk held before, whichever releases were
\* skipped, and with the PID file of a dead vault, its pid used by another program or not.
\* The runner may end; its download may be damaged (download_binary compares no
\* checksum, and the next start does); and the vault may be barred.
ReleaseIsRun ==
  \A r \in Releases :
    (runner # "off" /\ chain = r)
      ~> (\/ runner \in {"off", "stop", "reap"} \/ chain # r
          \/ damaged \/ Barred
          \/ child_proc \in working /\ proc[child_proc] = "serve" /\ disk = r)

=============================================================================
