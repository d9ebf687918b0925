---------------------------- MODULE IssueProofs -----------------------------
(***************************************************************************)
(* No open issue is forgotten, and none is executed by two tasks or        *)
(* without a proof that the pallet accepts, for any number of issues,      *)
(* payments, blocks, failures and restarts.                                *)
(***************************************************************************)
EXTENDS Issue, TLAPS, FiniteSetTheorems

-----------------------------------------------------------------------------
(* The inductive invariant.                                                *)

Stages == {"check", "relay", "delay", "status", "execute"}

\* The lock is free, or one task holds it for one payment.
OneHolder == holder = Free \/ \E pc \in Stages, p \in payments : holder = Holding(pc, p)

\* Nothing of the service runs before the open issues are queried.
QuietBeforeRun ==
  /\ phase # "run" => waiting = {} /\ holder = Free /\ listening = {}
  /\ \A l \in Listeners \ listening : queue[l] = <<>>

\* The execute and cancel listeners are only told of issues that are over.
ClosedAreOver ==
  \A l \in {"execute", "cancel"} : \A n \in 1..Len(queue[l]) :
    status[queue[l][n]] \in {"Completed", "Cancelled"}

\* The issue whose payment is looked at is still watched.
CheckedIsWatched == holder.pc = "check" => \A p \in holder.of : p.issue \in issue_set

ShapeInv == TypeOK /\ OneHolder /\ QuietBeforeRun

-----------------------------------------------------------------------------
(* Operators of the model.                                                 *)

\* A set of heights has a lowest one: of the intervals 0..h one is contained
\* in all others.
LEMMA LowestOf ==
  ASSUME NEW heights \in SUBSET Nat, heights # {}
  PROVE  Lowest(heights) \in heights
<1> DEFINE R == StrictSubsetOrdering(Nat)
           T == {0..h : h \in heights}
<1>1. IsWellFoundedOn(R, FiniteSubsetsOf(Nat))
  BY FS_StrictSubsetOrderingWellFounded
<1>2. \A h \in heights : 0..h \in FiniteSubsetsOf(Nat)
  BY FS_Interval DEF FiniteSubsetsOf
<1>3. T \subseteq FiniteSubsetsOf(Nat) /\ T # {}
  BY <1>2
<1>4. \E x \in T : \A y \in T : ~ (<<y, x>> \in R)
  <2> HIDE DEF R, T
  <2> QED BY <1>1, <1>3, WFMin
<1>5. PICK h \in heights : \A g \in heights : ~ (<<0..g, 0..h>> \in R)
  BY <1>4
<1>6. \A g \in heights : g < h => <<0..g, 0..h>> \in R
  BY DEF StrictSubsetOrdering
<1>7. \A g \in heights : h <= g
  <2> HIDE DEF R
  <2>1. \A g \in heights : ~ (g < h)
    BY <1>5, <1>6
  <2> QED BY <2>1
<1> QED BY <1>7 DEF Lowest

\* A notice is added behind those a listener has not handled.
LEMMA NotifyQueue ==
  ASSUME queue \in [Listeners -> Seq(Issues)], NEW l \in Listeners, NEW i \in Issues, Notify(l, i)
  PROVE  /\ queue' \in [Listeners -> Seq(Issues)]
         /\ \A k \in Listeners \ {l} : queue'[k] = queue[k]
         /\ l \notin listening => queue' = queue
         /\ l \in listening => queue'[l] = Append(queue[l], i)
BY DEF Notify

\* One at a time is handled, from the front.
LEMMA HandleQueue ==
  ASSUME queue \in [Listeners -> Seq(Issues)], NEW l \in Listeners, Handle(l)
  PROVE  /\ queue' \in [Listeners -> Seq(Issues)]
         /\ \A k \in Listeners \ {l} : queue'[k] = queue[k]
         /\ queue[l] # <<>> /\ queue'[l] = Tail(queue[l])
         /\ Head(queue[l]) \in Issues
BY DEF Handle

-----------------------------------------------------------------------------
(* Types.                                                                  *)

LEMMA InitShape == Init => ShapeInv
BY DEF Init, ShapeInv, TypeOK, OneHolder, QuietBeforeRun, Free

\* While the lock is held, its holder has a stage and a payment.
LEMMA HolderParts ==
  ASSUME OneHolder
  PROVE  /\ holder.pc = "free" <=> holder = Free
         /\ holder # Free => \E p \in payments : holder.of = {p}
         /\ \A pc \in Stages : holder # Free =>
              \E p \in payments : [holder EXCEPT !.pc = pc] = Holding(pc, p) /\ holder.of = {p}
<1>1. \A a, b, p : [Holding(a, p) EXCEPT !.pc = b] = Holding(b, p) /\ Holding(a, p).of = {p}
  BY DEF Holding
<1>2. \A a, p : Holding(a, p).pc = a /\ Free.pc = "free"
  BY DEF Holding, Free
<1> QED BY <1>1, <1>2 DEF OneHolder, Stages

\* Steps of the parachain, its users and Bitcoin.
LEMMA EnvironmentShape == ShapeInv /\ Environment => ShapeInv'
<1> SUFFICES ASSUME ShapeInv, Environment PROVE ShapeInv'
  OBVIOUS
<1> USE DEF ShapeInv
<1>1. ASSUME NEW i \in Issues, RequestIssue(i) PROVE ShapeInv'
  <2>1. Notify("request", i)
    BY <1>1 DEF RequestIssue
  <2> QED BY <1>1, <2>1, NotifyQueue
          DEF RequestIssue, vaultVars, walletVars, bitcoinVars, TypeOK, OneHolder, QuietBeforeRun, Listeners
<1>2. ASSUME NEW i \in Issues, Expire(i) PROVE ShapeInv'
  BY <1>2 DEF Expire, Pending, vaultVars, walletVars, bitcoinVars, TypeOK, OneHolder, QuietBeforeRun
<1>3. ASSUME NEW i \in Issues, CancelIssue(i) PROVE ShapeInv'
  <2>1. Notify("cancel", i)
    BY <1>3 DEF CancelIssue
  <2> QED BY <1>3, <2>1, NotifyQueue
          DEF CancelIssue, vaultVars, walletVars, bitcoinVars, TypeOK, OneHolder, QuietBeforeRun, Listeners
<1>4. ASSUME NEW i \in Issues, ExecuteByOther(i) PROVE ShapeInv'
  <2>1. Notify("execute", i)
    BY <1>4 DEF ExecuteByOther
  <2> QED BY <1>4, <2>1, NotifyQueue
          DEF ExecuteByOther, vaultVars, walletVars, bitcoinVars, TypeOK, OneHolder, QuietBeforeRun, Listeners
<1>5. CASE NewBlock
  <2>1. payments' \subseteq Payment /\ payments \subseteq payments'
    BY <1>5 DEF NewBlock, Payment, TypeOK
  <2>2. TypeOK'
    BY <1>5, <2>1 DEF NewBlock, palletVars, TypeOK
  <2> QED BY <1>5, <2>1, <2>2 DEF NewBlock, OneHolder, QuietBeforeRun
<1>6. CASE NewRelayBlock
  BY <1>6 DEF NewRelayBlock, palletVars, vaultVars, walletVars, TypeOK, OneHolder, QuietBeforeRun
<1> QED BY <1>1, <1>2, <1>3, <1>4, <1>5, <1>6 DEF Environment

\* The start of the service.
LEMMA StartShape ==
  ShapeInv /\ (AddPastKeys \/ Rescan \/ QueryIssues \/ GetBlockCount) => ShapeInv'
<1> SUFFICES ASSUME ShapeInv, AddPastKeys \/ Rescan \/ QueryIssues \/ GetBlockCount PROVE ShapeInv'
  OBVIOUS
<1> USE DEF ShapeInv, envVars, palletVars, bitcoinVars, walletVars, taskVars
<1>1. CASE AddPastKeys
  BY <1>1 DEF AddPastKeys, get_vault_issue_requests, Fault, TypeOK, OneHolder, QuietBeforeRun
<1>2. CASE Rescan
  BY <1>2 DEF Rescan, Rescanned, FromElectrs, get_address_tx_history_full,
              TypeOK, OneHolder, QuietBeforeRun
<1>3. CASE QueryIssues
  <2>1. issue_set' \subseteq Issues
    BY <1>3 DEF QueryIssues, get_all_active_issues, Pending
  <2>2. ASSUME issue_set' # {} PROVE btc_start_height(issue_set') \in Nat
    <3> DEFINE heights == {btc_height[i] : i \in issue_set'}
    <3>1. heights \in SUBSET Nat /\ heights # {}
      BY <2>1, <2>2 DEF TypeOK
    <3> QED BY <3>1, LowestOf DEF btc_start_height
  <2> QED BY <1>3, <2>1, <2>2 DEF QueryIssues, TypeOK, OneHolder, QuietBeforeRun
<1>4. CASE GetBlockCount
  BY <1>4 DEF GetBlockCount, TypeOK, OneHolder, QuietBeforeRun
<1> QED BY <1>1, <1>2, <1>3, <1>4

\* The listeners.
LEMMA ListeningShape == ShapeInv /\ Listening => ShapeInv'
<1> SUFFICES ASSUME ShapeInv, Listening PROVE ShapeInv'
  OBVIOUS
<1> USE DEF ShapeInv, envVars, palletVars, bitcoinVars, walletVars, taskVars
<1>1. ASSUME NEW l \in Listeners, Subscribe(l) PROVE ShapeInv'
  BY <1>1 DEF Subscribe, TypeOK, OneHolder, QuietBeforeRun
<1>2. CASE HandleRequest
  <2>1. Handle("request") /\ "request" \in Listeners
    BY <1>2 DEF HandleRequest, Listeners
  <2>2. \A l \in Listeners : queue[l] = <<>> => queue'[l] = <<>>
    BY <2>1, HandleQueue DEF TypeOK
  <2>3. issue_set' \subseteq Issues /\ unwatched' \subseteq Issues /\ faults' \in Nat
        /\ keys' \subseteq Issues \ Unmanaged
    BY <1>2, <2>1, HandleQueue DEF HandleRequest, AddDepositKey, Fault, TypeOK
  <2> QED BY <2>1, <2>2, <2>3, HandleQueue DEF Handle, TypeOK, OneHolder, QuietBeforeRun
<1>3. ASSUME NEW l \in {"execute", "cancel"}, HandleClosed(l) PROVE ShapeInv'
  <2>1. Handle(l) /\ l \in Listeners
    BY <1>3 DEF HandleClosed, Listeners
  <2>2. \A k \in Listeners : queue[k] = <<>> => queue'[k] = <<>>
    BY <2>1, HandleQueue DEF TypeOK
  <2> QED BY <1>3, <2>1, <2>2, HandleQueue DEF HandleClosed, Handle, TypeOK, OneHolder, QuietBeforeRun
<1> QED BY <1>1, <1>2, <1>3 DEF Listening

\* The stream of blocks and its tasks.
LEMMA TaskShape ==
  ASSUME ShapeInv, StreamBlock \/ (\E p \in waiting : TakeLock(p)) \/ Task \/ TaskFails
  PROVE  ShapeInv'
<1> USE DEF ShapeInv, envVars, palletVars, bitcoinVars, walletVars, locals
<1>1. CASE StreamBlock
  BY <1>1 DEF StreamBlock, TypeOK, OneHolder, QuietBeforeRun
<1>2. ASSUME NEW p \in waiting, TakeLock(p) PROVE ShapeInv'
  <2>1. phase = "run" /\ p \in payments
    BY DEF QuietBeforeRun, TypeOK
  <2>2. OneHolder'
    BY <1>2, <2>1 DEF TakeLock, OneHolder, Stages
  <2> QED BY <1>2, <2>1, <2>2 DEF TakeLock, Free, Holding, TypeOK, QuietBeforeRun
<1>3. CASE CheckAmount
  <2>1. PICK p \in holder.of : IF p.sufficient
           THEN holder' = Holding("relay", p) /\ StopWatching(p.issue)
           ELSE holder' = Free /\ UNCHANGED issue_set
    BY <1>3 DEF CheckAmount
  <2>2. p \in payments /\ phase = "run"
    BY <1>3, HolderParts DEF CheckAmount, QuietBeforeRun, TypeOK, Free
  <2>3. OneHolder'
    BY <1>3, <2>1, <2>2 DEF CheckAmount, OneHolder, Stages
  <2>4. issue_set' \subseteq Issues
    BY <2>1 DEF StopWatching, TypeOK
  <2> QED BY <1>3, <2>1, <2>2, <2>3, <2>4 DEF CheckAmount, Free, Holding, TypeOK, QuietBeforeRun
<1>4. CASE RelayConfirms \/ Delay \/ CheckStatus
  <2>1. holder # Free /\ phase = "run"
    BY <1>4, HolderParts DEF RelayConfirms, Delay, CheckStatus, QuietBeforeRun, Free
  <2>2. holder' = Free \/ \E pc \in Stages : holder' = [holder EXCEPT !.pc = pc]
    BY <1>4 DEF RelayConfirms, Delay, CheckStatus, Stages
  <2>3. UNCHANGED <<status, expired, btc_height, height, payments, relayHeight, phase, listening,
                    queue, issue_set, next_height, waiting, keys, coins, faults, unwatched>>
    BY <1>4 DEF RelayConfirms, Delay, CheckStatus
  <2>4. OneHolder'
    BY <2>1, <2>2, <2>3, HolderParts DEF OneHolder
  <2>5. (holder.pc \in Stages \cup {"free"} /\ holder.of \subseteq payments)'
    BY <2>4 DEF OneHolder, Free, Holding
  <2> QED BY <2>1, <2>3, <2>4, <2>5 DEF TypeOK, QuietBeforeRun, Stages
<1>5. CASE Execute
  <2>1. status' \in [Issues -> {"None", "Pending", "Completed", "Cancelled"}]
        /\ queue' \in [Listeners -> Seq(Issues)]
        /\ \A l \in Listeners \ listening : queue'[l] = queue[l]
    <3>1. PICK p \in holder.of :
            \/ /\ status' = [status EXCEPT ![p.issue] = "Completed"] /\ Notify("execute", p.issue)
            \/ UNCHANGED <<status, queue>>
      BY <1>5 DEF Execute
    <3>2. p.issue \in Issues
      BY DEF TypeOK, Payment
    <3> QED BY <3>1, <3>2, NotifyQueue DEF TypeOK, Listeners
  <2> QED BY <1>5, <2>1 DEF Execute, Free, TypeOK, OneHolder, QuietBeforeRun
<1>6. CASE TaskFails
  <2>1. unwatched' \subseteq Issues
    BY <1>6 DEF TaskFails, TypeOK, Payment
  <2> QED BY <1>6, <2>1 DEF TaskFails, Fault, Free, TypeOK, OneHolder, QuietBeforeRun
<1> QED BY <1>1, <1>2, <1>3, <1>4, <1>5, <1>6 DEF Task

\* Restarts.
LEMMA RestartShape == ShapeInv /\ (PeriodicRestart \/ CrashRestart \/ RescanFails) => ShapeInv'
<1> SUFFICES ASSUME ShapeInv, PeriodicRestart \/ CrashRestart \/ RescanFails PROVE ShapeInv'
  OBVIOUS
<1>1. Restart /\ faults' \in Nat
  BY DEF PeriodicRestart, CrashRestart, RescanFails, Fault, ShapeInv, TypeOK
<1> QED BY <1>1 DEF Restart, envVars, palletVars, bitcoinVars, walletVars, Free,
                    ShapeInv, TypeOK, OneHolder, QuietBeforeRun

LEMMA NextShape == ShapeInv /\ [Next]_vars => ShapeInv'
<1> SUFFICES ASSUME ShapeInv, [Next]_vars PROVE ShapeInv'
  OBVIOUS
<1>1. CASE UNCHANGED vars
  BY <1>1 DEF vars, palletVars, bitcoinVars, walletVars, ShapeInv, TypeOK, OneHolder, QuietBeforeRun
<1> QED BY <1>1, EnvironmentShape, StartShape, ListeningShape, TaskShape, RestartShape DEF Next, Service

\* The state of the pallet, of Bitcoin and of the vault has its type: a task
\* that holds the lock does so for a payment that is in the chain, whatever
\* is streamed, restarted or fails (issue.rs:128-229).
THEOREM IssueTypeCorrect == Spec => []TypeOK
<1>1. Spec => []ShapeInv
  BY InitShape, NextShape, PTL DEF Spec
<1> QED BY <1>1, PTL DEF ShapeInv

-----------------------------------------------------------------------------
(* What the execute and cancel listeners are told.                         *)

\* An issue that is over stays so.
OverStays ==
  \A i \in Issues : status[i] \in {"Completed", "Cancelled"} => status'[i] \in {"Completed", "Cancelled"}

LEMMA ClosedEnvironment ==
  ASSUME ShapeInv, ClosedAreOver, Environment \/ Execute
  PROVE  ClosedAreOver'
<1> USE DEF ShapeInv
<1>1. ASSUME OverStays, queue' = queue PROVE ClosedAreOver'
  BY <1>1 DEF ClosedAreOver, OverStays, TypeOK, Listeners
<1>2. ASSUME NEW l \in Listeners, NEW i \in Issues, OverStays, Notify(l, i),
             l # "request" => status'[i] \in {"Completed", "Cancelled"}
      PROVE  ClosedAreOver'
  <2>1. CASE l \notin listening
    BY <1>1, <1>2, <2>1, NotifyQueue DEF TypeOK
  <2>2. CASE l \in listening
    <3> SUFFICES ASSUME NEW k \in {"execute", "cancel"}, NEW n \in 1..Len(queue'[k])
                 PROVE  status'[queue'[k][n]] \in {"Completed", "Cancelled"}
      BY DEF ClosedAreOver
    <3>1. CASE k # l
      BY <1>2, <3>1, NotifyQueue DEF ClosedAreOver, OverStays, TypeOK, Listeners
    <3>2. CASE k = l
      <4>1. queue'[k] = Append(queue[k], i) /\ queue[k] \in Seq(Issues)
        BY <1>2, <2>2, <3>2, NotifyQueue DEF TypeOK
      <4>2. queue'[k][n] = i \/ (n \in 1..Len(queue[k]) /\ queue'[k][n] = queue[k][n])
        BY <4>1
      <4> QED BY <1>2, <3>2, <4>1, <4>2 DEF ClosedAreOver, OverStays
    <3> QED BY <3>1, <3>2
  <2> QED BY <2>1, <2>2
<1>3. ASSUME NEW i \in Issues, RequestIssue(i) PROVE ClosedAreOver'
  BY <1>2, <1>3 DEF RequestIssue, OverStays, TypeOK, Listeners
<1>4. ASSUME NEW i \in Issues, CancelIssue(i) PROVE ClosedAreOver'
  BY <1>2, <1>4 DEF CancelIssue, OverStays, TypeOK, Listeners
<1>5. ASSUME NEW i \in Issues, ExecuteByOther(i) PROVE ClosedAreOver'
  BY <1>2, <1>5 DEF ExecuteByOther, OverStays, TypeOK, Listeners
<1>6. CASE Execute
  <2>1. PICK p \in holder.of :
          \/ /\ status' = [status EXCEPT ![p.issue] = "Completed"] /\ Notify("execute", p.issue)
          \/ UNCHANGED <<status, queue>>
    BY <1>6 DEF Execute
  <2>2. p.issue \in Issues
    BY DEF TypeOK, Payment
  <2> QED BY <1>1, <1>2, <2>1, <2>2 DEF OverStays, TypeOK, Listeners
<1>7. CASE NewBlock \/ NewRelayBlock \/ \E i \in Issues : Expire(i)
  BY <1>1, <1>7 DEF NewBlock, NewRelayBlock, Expire, palletVars, OverStays
<1> QED BY <1>3, <1>4, <1>5, <1>6, <1>7 DEF Environment

\* The service itself does not close issues before it executes one.
LEMMA ClosedService ==
  ASSUME ShapeInv, ClosedAreOver, Service \/ TaskFails \/ PeriodicRestart \/ CrashRestart, ~Execute
  PROVE  ClosedAreOver'
<1> USE DEF ShapeInv
<1>1. ASSUME UNCHANGED status,
             \A l \in Listeners : \/ queue'[l] = queue[l] \/ queue'[l] = <<>>
                                  \/ queue[l] # <<>> /\ queue'[l] = Tail(queue[l])
      PROVE  ClosedAreOver'
  <2> SUFFICES ASSUME NEW l \in {"execute", "cancel"}, NEW n \in 1..Len(queue'[l])
               PROVE  \E m \in 1..Len(queue[l]) : queue'[l][n] = queue[l][m]
    BY <1>1 DEF ClosedAreOver
  <2>1. queue[l] \in Seq(Issues) /\ l \in Listeners
    BY DEF TypeOK, Listeners
  <2>2. CASE queue'[l] = queue[l]
    BY <2>2
  <2>3. CASE queue'[l] = <<>>
    BY <2>3
  <2>4. CASE queue[l] # <<>> /\ queue'[l] = Tail(queue[l])
    <3>1. n + 1 \in 1..Len(queue[l]) /\ queue'[l][n] = queue[l][n + 1]
      BY <2>1, <2>4
    <3> QED BY <3>1
  <2> QED BY <1>1, <2>1, <2>2, <2>3, <2>4
<1>2. ASSUME NEW l \in Listeners, Handle(l) PROVE ClosedAreOver'
  BY <1>1, <1>2, HandleQueue DEF Handle, envVars, palletVars, TypeOK
<1>3. ASSUME Restart PROVE ClosedAreOver'
  BY <1>1, <1>3 DEF Restart, envVars, palletVars
<1>4. ASSUME UNCHANGED <<status, queue>> PROVE ClosedAreOver'
  BY <1>1, <1>4
<1>5. CASE AddPastKeys \/ Rescan \/ QueryIssues \/ GetBlockCount \/ \E l \in Listeners : Subscribe(l)
  BY <1>4, <1>5 DEF AddPastKeys, Rescan, QueryIssues, GetBlockCount, Subscribe, envVars, palletVars
<1>6. CASE StreamBlock \/ (\E p \in waiting : TakeLock(p)) \/ CheckAmount \/ RelayConfirms \/ Delay
           \/ CheckStatus \/ TaskFails
  BY <1>4, <1>6 DEF StreamBlock, TakeLock, CheckAmount, RelayConfirms, Delay, CheckStatus, TaskFails,
                    envVars, palletVars
<1>7. CASE HandleRequest \/ HandleClosed("execute") \/ HandleClosed("cancel")
  BY <1>2, <1>7 DEF HandleRequest, HandleClosed, Listeners
<1>8. CASE PeriodicRestart \/ CrashRestart \/ RescanFails
  BY <1>3, <1>8 DEF PeriodicRestart, CrashRestart, RescanFails
<1> QED BY <1>5, <1>6, <1>7, <1>8 DEF Service, Listening, Task

LEMMA NextClosed == ShapeInv /\ ClosedAreOver /\ [Next]_vars => ClosedAreOver'
<1> SUFFICES ASSUME ShapeInv, ClosedAreOver, [Next]_vars PROVE ClosedAreOver'
  OBVIOUS
<1>1. CASE UNCHANGED vars
  BY <1>1 DEF vars, palletVars, ClosedAreOver
<1> QED BY <1>1, ClosedEnvironment, ClosedService DEF Next

-----------------------------------------------------------------------------
(* The lock.                                                               *)

HolderInv == CheckedIsWatched /\ ExecutesOnceWithProof

\* What is proved to the relay stays proved.
LEMMA ProvableStays ==
  ASSUME ShapeInv, relayHeight' \in Nat, relayHeight <= relayHeight', NEW p \in payments, Provable(p)
  PROVE  Provable(p)'
BY IssueAssumption DEF Provable, Confirmed, ShapeInv, TypeOK, Payment

\* As long as the task holds the lock, nobody else touches the set.
LEMMA HolderUntouched ==
  ASSUME ShapeInv, HolderInv, UNCHANGED holder,
         relayHeight' \in Nat, relayHeight <= relayHeight',
         holder = Free \/ UNCHANGED issue_set
  PROVE  HolderInv'
<1>1. CASE holder = Free
  BY <1>1 DEF Free, HolderInv, CheckedIsWatched, ExecutesOnceWithProof
<1>2. CASE UNCHANGED issue_set
  <2>1. \A p \in holder.of : Provable(p) => Provable(p)'
    BY ProvableStays DEF ShapeInv, TypeOK
  <2> QED BY <1>2, <2>1 DEF HolderInv, CheckedIsWatched, ExecutesOnceWithProof
<1> QED BY <1>1, <1>2

LEMMA HolderEnvironment ==
  ASSUME ShapeInv, HolderInv, Environment
  PROVE  HolderInv'
<1>1. UNCHANGED <<holder, issue_set>>
  BY DEF Environment, RequestIssue, Expire, CancelIssue, ExecuteByOther, NewBlock, NewRelayBlock, vaultVars
<1>2. relayHeight' \in Nat /\ relayHeight <= relayHeight'
  BY DEF Environment, RequestIssue, Expire, CancelIssue, ExecuteByOther, NewBlock, NewRelayBlock,
         bitcoinVars, ShapeInv, TypeOK
<1> QED BY <1>1, <1>2, HolderUntouched

LEMMA HolderService ==
  ASSUME ShapeInv, HolderInv,
         Service \/ TaskFails \/ PeriodicRestart \/ CrashRestart
  PROVE  HolderInv'
<1> USE DEF envVars, palletVars, bitcoinVars, walletVars, taskVars, locals
<1>1. UNCHANGED relayHeight /\ relayHeight \in Nat
  BY DEF Service, Listening, Task, AddPastKeys, Rescan, RescanFails, QueryIssues, GetBlockCount, Subscribe,
         HandleRequest, HandleClosed, Handle, StreamBlock, TakeLock, CheckAmount, RelayConfirms, Delay,
         CheckStatus, Execute, TaskFails, PeriodicRestart, CrashRestart, Restart, ShapeInv, TypeOK
<1>2. ASSUME holder' = Free PROVE HolderInv'
  BY <1>2 DEF Free, HolderInv, CheckedIsWatched, ExecutesOnceWithProof
<1>3. CASE AddPastKeys \/ Rescan \/ QueryIssues \/ GetBlockCount
  BY <1>1, <1>2, <1>3 DEF AddPastKeys, Rescan, QueryIssues, GetBlockCount, ShapeInv, QuietBeforeRun
<1>4. CASE RescanFails \/ PeriodicRestart \/ CrashRestart \/ TaskFails
  BY <1>2, <1>4 DEF RescanFails, PeriodicRestart, CrashRestart, Restart, TaskFails
<1>5. CASE Listening
  BY <1>1, <1>5, HolderUntouched
     DEF Listening, Subscribe, HandleRequest, HandleClosed, Handle, LockIsFree
<1>6. CASE StreamBlock
  BY <1>1, <1>6, HolderUntouched DEF StreamBlock
<1>7. ASSUME NEW p \in waiting, TakeLock(p) PROVE HolderInv'
  BY <1>7 DEF TakeLock, Free, Holding, HolderInv, CheckedIsWatched, ExecutesOnceWithProof
<1>8. CASE CheckAmount
  BY <1>8 DEF CheckAmount, StopWatching, Free, Holding, HolderInv, CheckedIsWatched, ExecutesOnceWithProof
<1>9. CASE RelayConfirms \/ Delay \/ CheckStatus
  <2> SUFFICES ASSUME holder' # Free PROVE HolderInv'
    BY <1>2
  <2>1. holder # Free /\ holder.pc \in {"relay", "delay", "status"} /\ UNCHANGED issue_set
    BY <1>9, HolderParts DEF RelayConfirms, Delay, CheckStatus, Free
  <2>2. \E pc \in Stages : holder' = [holder EXCEPT !.pc = pc] /\ pc # "check"
    BY <1>9 DEF RelayConfirms, Delay, CheckStatus, Stages
  <2>3. PICK p \in payments : holder.of = {p}
    BY <2>1, HolderParts DEF ShapeInv
  <2>4. holder'.of = {p} /\ holder'.pc # "check"
    <3>1. PICK pc \in Stages : holder' = [holder EXCEPT !.pc = pc] /\ pc # "check"
      BY <2>2
    <3>2. \E q \in payments : [holder EXCEPT !.pc = pc] = Holding(pc, q) /\ holder.of = {q}
      BY <2>1, HolderParts DEF ShapeInv
    <3> QED BY <2>3, <3>1, <3>2 DEF Holding
  <2>5. p.issue \notin issue_set /\ p.sufficient
    BY <2>1, <2>3 DEF HolderInv, ExecutesOnceWithProof
  <2>6. Confirmed(p.height, relayHeight)
    BY <1>9, <2>1, <2>3 DEF RelayConfirms, Delay, CheckStatus, HolderInv, ExecutesOnceWithProof, Provable
  <2>7. Provable(p)'
    BY <1>1, <2>5, <2>6, ProvableStays DEF Provable
  <2> QED BY <2>1, <2>4, <2>5, <2>7 DEF HolderInv, CheckedIsWatched, ExecutesOnceWithProof
<1>10. CASE Execute
  BY <1>2, <1>10 DEF Execute
<1> QED BY <1>3, <1>4, <1>5, <1>6, <1>7, <1>8, <1>9, <1>10 DEF Service, Task

LEMMA NextHolder == ShapeInv /\ HolderInv /\ [Next]_vars => HolderInv'
<1> SUFFICES ASSUME ShapeInv, HolderInv, [Next]_vars PROVE HolderInv'
  OBVIOUS
<1>1. CASE UNCHANGED vars
  BY <1>1, HolderUntouched DEF vars, bitcoinVars, ShapeInv, TypeOK
<1> QED BY <1>1, HolderEnvironment, HolderService DEF Next

\* No two tasks execute one issue, and what is submitted is a proof that the
\* pallet accepts: the lock is held from the lookup of the address to the end
\* of the task, and no listener removes or adds an issue in between
\* (issue.rs:190-225).
THEOREM IssueExecutedOnce == Spec => []ExecutesOnceWithProof
<1>1. Init => HolderInv
  BY DEF Init, HolderInv, CheckedIsWatched, ExecutesOnceWithProof, Free
<1>2. Spec => [](ShapeInv /\ HolderInv)
  BY <1>1, InitShape, NextShape, NextHolder, PTL DEF Spec
<1> QED BY <1>2, PTL DEF HolderInv

-----------------------------------------------------------------------------
(* Nothing is forgotten.                                                   *)

Requested(i) == \E n \in 1..Len(queue["request"]) : queue["request"][n] = i
Held(i) == \E p \in holder.of : p.issue = i
Watched(i) == i \in issue_set \cup unwatched \/ Requested(i) \/ Held(i)

\* An active issue that is watched has to stay so, or to be over.
LEMMA WatchedStays ==
  ASSUME PendingIsWatched, Unqueried => Unqueried',
         \A i \in get_all_active_issues' : ~Unqueried' =>
           \/ i \in get_all_active_issues /\ (Watched(i) => Watched(i)')
           \/ Watched(i)'
  PROVE  PendingIsWatched'
BY DEF PendingIsWatched, Watched, Requested, Held

\* The parachain, its users and Bitcoin: what is opened is told the listener,
\* or the query is still to come.
LEMMA PendingEnvironment ==
  ASSUME ShapeInv, PendingIsWatched, Environment
  PROVE  PendingIsWatched'
<1> USE DEF ShapeInv
<1>1. (Unqueried <=> Unqueried') /\ UNCHANGED <<issue_set, holder>> /\ unwatched \subseteq unwatched'
  BY DEF Environment, RequestIssue, Expire, CancelIssue, ExecuteByOther, NewBlock, NewRelayBlock,
         vaultVars, Unqueried
<1>2. ASSUME get_all_active_issues' \subseteq get_all_active_issues,
             queue'["request"] = queue["request"]
      PROVE  PendingIsWatched'
  BY <1>1, <1>2, WatchedStays DEF Watched, Requested, Held
<1>3. ASSUME NEW i \in Issues, RequestIssue(i) PROVE PendingIsWatched'
  <2>1. Notify("request", i) /\ "request" \in Listeners
    BY <1>3 DEF RequestIssue, Listeners
  <2>2. get_all_active_issues' \subseteq get_all_active_issues \cup {i}
    BY <1>3 DEF RequestIssue, get_all_active_issues, Pending, TypeOK
  <2>3. \A j \in Issues : Requested(j) => Requested(j)'
    <3>1. CASE "request" \notin listening
      BY <2>1, <3>1, NotifyQueue DEF Requested, TypeOK
    <3>2. CASE "request" \in listening
      <4>1. queue'["request"] = Append(queue["request"], i) /\ queue["request"] \in Seq(Issues)
        BY <2>1, <3>2, NotifyQueue DEF TypeOK
      <4> QED BY <4>1 DEF Requested
    <3> QED BY <3>1, <3>2
  <2>4. ~Unqueried => Requested(i)' \/ i \in unwatched'
    <3>1. CASE "request" \notin listening
      BY <1>3, <3>1 DEF RequestIssue
    <3>2. CASE "request" \in listening
      <4>1. queue'["request"] = Append(queue["request"], i) /\ queue["request"] \in Seq(Issues)
        BY <2>1, <3>2, NotifyQueue DEF TypeOK
      <4>2. Len(queue'["request"]) \in 1..Len(queue'["request"])
            /\ queue'["request"][Len(queue'["request"])] = i
        BY <4>1
      <4> QED BY <4>2 DEF Requested
    <3> QED BY <3>1, <3>2
  <2>5. \A j \in get_all_active_issues : Watched(j) => Watched(j)'
    BY <1>1, <2>3 DEF Watched, Held, get_all_active_issues, Pending
  <2> QED BY <1>1, <2>2, <2>4, <2>5, WatchedStays DEF Watched
<1>4. ASSUME NEW i \in Issues, CancelIssue(i) PROVE PendingIsWatched'
  <2>1. Notify("cancel", i)
    BY <1>4 DEF CancelIssue
  <2> QED BY <1>2, <1>4, <2>1, NotifyQueue
          DEF CancelIssue, get_all_active_issues, Pending, TypeOK, Listeners
<1>5. ASSUME NEW i \in Issues, ExecuteByOther(i) PROVE PendingIsWatched'
  <2>1. Notify("execute", i)
    BY <1>5 DEF ExecuteByOther
  <2> QED BY <1>2, <1>5, <2>1, NotifyQueue
          DEF ExecuteByOther, get_all_active_issues, Pending, TypeOK, Listeners
<1>6. ASSUME NEW i \in Issues, Expire(i) PROVE PendingIsWatched'
  BY <1>2, <1>6 DEF Expire, get_all_active_issues, Pending
<1>7. CASE NewBlock \/ NewRelayBlock
  BY <1>2, <1>7 DEF NewBlock, NewRelayBlock, palletVars, get_all_active_issues, Pending
<1> QED BY <1>3, <1>4, <1>5, <1>6, <1>7 DEF Environment

\* The start and the listeners: the query finds all that is open, and a request
\* is handled by watching its address.
LEMMA PendingListening ==
  ASSUME ShapeInv, ClosedAreOver, PendingIsWatched,
         AddPastKeys \/ Rescan \/ QueryIssues \/ GetBlockCount \/ Listening
  PROVE  PendingIsWatched'
<1> USE DEF ShapeInv, envVars, palletVars, bitcoinVars, walletVars, taskVars
<1>1. get_all_active_issues' = get_all_active_issues
  BY DEF AddPastKeys, Rescan, QueryIssues, GetBlockCount, Listening, Subscribe, HandleRequest, HandleClosed,
         Handle, get_all_active_issues, Pending
<1>2. CASE AddPastKeys \/ Rescan
  BY <1>2 DEF AddPastKeys, Rescan, PendingIsWatched, Unqueried
<1>3. CASE QueryIssues
  BY <1>1, <1>3 DEF QueryIssues, PendingIsWatched
<1>4. CASE GetBlockCount \/ \E l \in Listeners : Subscribe(l)
  BY <1>1, <1>4, WatchedStays
     DEF GetBlockCount, Subscribe, Unqueried, Watched, Requested, Held
<1>5. CASE HandleRequest
  <2> DEFINE q == queue["request"]
             i == Head(q)
  <2>1. Handle("request") /\ "request" \in Listeners
    BY <1>5 DEF HandleRequest, Listeners
  <2>2. q # <<>> /\ q \in Seq(Issues) /\ queue'["request"] = Tail(q)
    BY <2>1, HandleQueue DEF TypeOK
  <2>3. i \in issue_set' \cup unwatched'
    BY <1>5 DEF HandleRequest
  <2>4. issue_set \subseteq issue_set' /\ unwatched \subseteq unwatched'
    BY <1>5 DEF HandleRequest
  <2>5. \A j \in Issues : Requested(j) => j = i \/ Requested(j)'
    <3> SUFFICES ASSUME NEW n \in 1..Len(q), q[n] # i
                 PROVE  \E m \in 1..Len(Tail(q)) : Tail(q)[m] = q[n]
      BY <2>2 DEF Requested
    <3>1. n - 1 \in 1..Len(Tail(q)) /\ Tail(q)[n - 1] = q[n]
      BY <2>2
    <3> QED BY <3>1
  <2>6. UNCHANGED <<phase, holder>>
    BY <2>1 DEF Handle
  <2>7. \A j \in Issues : Watched(j) => Watched(j)'
    BY <2>3, <2>4, <2>5, <2>6 DEF Watched, Held
  <2> QED BY <1>1, <2>6, <2>7, WatchedStays DEF Unqueried, get_all_active_issues, Pending
<1>6. ASSUME NEW l \in {"execute", "cancel"}, HandleClosed(l) PROVE PendingIsWatched'
  <2>1. Handle(l) /\ l \in Listeners /\ "request" \in Listeners
    BY <1>6 DEF HandleClosed, Listeners
  <2>2. queue[l] # <<>> /\ queue[l] \in Seq(Issues) /\ queue'["request"] = queue["request"]
    BY <2>1, HandleQueue DEF TypeOK
  <2>3. status[Head(queue[l])] \in {"Completed", "Cancelled"}
    <3>1. 1 \in 1..Len(queue[l]) /\ Head(queue[l]) = queue[l][1]
      BY <2>2
    <3> QED BY <3>1 DEF ClosedAreOver
  <2>4. \A j \in get_all_active_issues : Watched(j) => Watched(j)'
    BY <1>6, <2>1, <2>2, <2>3
       DEF HandleClosed, Handle, get_all_active_issues, Pending, Watched, Requested, Held
  <2> QED BY <1>1, <2>1, <2>4, WatchedStays DEF Handle, Unqueried
<1> QED BY <1>2, <1>3, <1>4, <1>5, <1>6 DEF Listening

\* The tasks: one that ends without the proof being accepted leaves an issue
\* that is over, or given up.
LEMMA PendingTasks ==
  ASSUME ShapeInv, HolderInv, PendingIsWatched,
         StreamBlock \/ (\E p \in waiting : TakeLock(p)) \/ Task \/ TaskFails
  PROVE  PendingIsWatched'
<1> USE DEF ShapeInv, envVars, palletVars, bitcoinVars, walletVars, locals
<1>1. ASSUME UNCHANGED <<status, expired, phase, queue>>,
             \A i \in get_all_active_issues :
               i \in issue_set \cup unwatched \/ Held(i) => i \in issue_set' \cup unwatched' \/ Held(i)'
      PROVE  PendingIsWatched'
  BY <1>1, WatchedStays DEF get_all_active_issues, Pending, Unqueried, Watched, Requested
<1>2. CASE StreamBlock
  BY <1>1, <1>2 DEF StreamBlock, Held
<1>3. ASSUME NEW p \in waiting, TakeLock(p) PROVE PendingIsWatched'
  BY <1>1, <1>3 DEF TakeLock, Free, Held
<1>4. CASE CheckAmount
  <2>1. PICK p \in holder.of : IF p.sufficient
           THEN holder' = Holding("relay", p) /\ StopWatching(p.issue)
           ELSE holder' = Free /\ UNCHANGED issue_set
    BY <1>4 DEF CheckAmount
  <2>2. holder.of = {p} /\ p.issue \in issue_set
    BY <1>4, <2>1, HolderParts DEF CheckAmount, Free, HolderInv, CheckedIsWatched
  <2> QED BY <1>1, <1>4, <2>1, <2>2 DEF CheckAmount, StopWatching, Holding, Free, Held
<1>5. CASE RelayConfirms \/ Delay \/ CheckStatus
  <2>1. PICK p \in payments : holder.of = {p}
    BY <1>5, HolderParts DEF RelayConfirms, Delay, CheckStatus, Free
  <2>2. holder # Free
    BY <2>1 DEF Free
  <2>3. (holder' = Free /\ status[p.issue] = "Completed") \/ holder'.of = {p}
    <3>1. \/ holder' = Free /\ status[p.issue] = "Completed"
          \/ \E pc \in Stages : holder' = [holder EXCEPT !.pc = pc]
      BY <1>5, <2>1 DEF RelayConfirms, Delay, CheckStatus, Stages
    <3>2. \A pc \in Stages : \E q \in payments :
            [holder EXCEPT !.pc = pc] = Holding(pc, q) /\ holder.of = {q}
      BY <2>2, HolderParts
    <3> QED BY <2>1, <3>1, <3>2 DEF Holding
  <2> QED BY <1>1, <1>5, <2>1, <2>3
          DEF RelayConfirms, Delay, CheckStatus, Held, get_all_active_issues, Pending
<1>6. CASE Execute
  <2>1. PICK p \in holder.of :
          \/ /\ status' = [status EXCEPT ![p.issue] = "Completed"] /\ Notify("execute", p.issue)
          \/ /\ status[p.issue] # "Pending" \/ ~Provable(p)
             /\ UNCHANGED <<status, queue>>
    BY <1>6 DEF Execute
  <2>2. holder.of = {p} /\ Provable(p) /\ p.issue \in Issues
    BY <1>6, <2>1, HolderParts DEF Execute, Free, HolderInv, ExecutesOnceWithProof, TypeOK, Payment
  <2>3. status'[p.issue] # "Pending" /\ \A i \in Issues : status'[i] = "Pending" => status[i] = "Pending"
    BY <2>1, <2>2 DEF TypeOK
  <2>4. queue'["request"] = queue["request"]
    BY <2>1, <2>2, NotifyQueue DEF TypeOK, Listeners
  <2>5. \A i \in get_all_active_issues' :
          i \in get_all_active_issues /\ (Watched(i) => Watched(i)')
    BY <1>6, <2>2, <2>3, <2>4
       DEF Execute, Held, Watched, Requested, get_all_active_issues, Pending
  <2> QED BY <1>6, <2>5, WatchedStays DEF Execute, Unqueried
<1>7. CASE TaskFails
  BY <1>1, <1>7, HolderParts
     DEF TaskFails, Free, HolderInv, CheckedIsWatched, Held
<1> QED BY <1>2, <1>3, <1>4, <1>5, <1>6, <1>7 DEF Task

\* A restart leads back to the query.
LEMMA PendingRestart == PeriodicRestart \/ CrashRestart \/ RescanFails => PendingIsWatched'
BY DEF PeriodicRestart, CrashRestart, RescanFails, Restart, PendingIsWatched, Unqueried

LEMMA NextPending ==
  ShapeInv /\ ClosedAreOver /\ HolderInv /\ PendingIsWatched /\ [Next]_vars => PendingIsWatched'
<1> SUFFICES ASSUME ShapeInv, ClosedAreOver, HolderInv, PendingIsWatched, [Next]_vars
             PROVE  PendingIsWatched'
  OBVIOUS
<1>1. CASE UNCHANGED vars
  BY <1>1 DEF vars, palletVars, PendingIsWatched, Unqueried, get_all_active_issues, Pending
<1> QED BY <1>1, PendingEnvironment, PendingListening, PendingTasks, PendingRestart DEF Next, Service

\* Once the open issues are queried, every issue that can be executed is
\* watched, told the listener, being executed, or one of those that are given
\* up till the next start; no order of requests, expiries, blocks, listeners
\* and tasks loses another ("best-effort", issue.rs:37).
THEOREM OpenIssuesAreWatched == Spec => []PendingIsWatched
<1>1. Init => ClosedAreOver /\ HolderInv /\ PendingIsWatched
  BY DEF Init, ClosedAreOver, HolderInv, CheckedIsWatched, ExecutesOnceWithProof, PendingIsWatched,
         Unqueried, Free, Listeners
<1>2. Spec => [](ShapeInv /\ ClosedAreOver /\ HolderInv /\ PendingIsWatched)
  BY <1>1, InitShape, NextShape, NextClosed, NextHolder, NextPending, PTL DEF Spec
<1> QED BY <1>2, PTL

=============================================================================
