------------------------------- MODULE Issue --------------------------------
(***************************************************************************)
(* Execution of issue requests (vault/src/issue.rs): a vault watches the   *)
(* deposit addresses of all open issues, reads the Bitcoin chain block by  *)
(* block and, when a transaction pays to a watched address, proves the     *)
(* payment to the parachain.                                               *)
(*                                                                         *)
(* The issue set is shared, under one lock, by the request, execute and    *)
(* cancel listeners and by one task per transaction.  A task takes the     *)
(* lock before it looks its addresses up and keeps it over every await to  *)
(* its end: while one waits for the relay, nothing else touches the set.   *)
(*                                                                         *)
(* An issue stands for its id and for its address, which is derived from   *)
(* the id; the two maps of ReversibleHashMap are then one set.  A task of  *)
(* an earlier start of the service, which tokio::spawn lets run on with a  *)
(* set of its own, can only execute an issue: ExecuteByOther covers it.    *)
(*                                                                         *)
(* The vault's wallet sees a payment if it has the key of the deposit      *)
(* address when the block arrives, or when it scans the block again.       *)
(***************************************************************************)
EXTENDS Integers, Sequences, FiniteSets

CONSTANTS
  Issues,
  num_confirmations,
  Unmanaged,           \* issues of this account's vaults that have no wallet; the
                       \* others belong to a vault of this account that has one
  MaxHeight,           \* bound: Bitcoin height
  MaxPayments,         \* bound: payments to deposit addresses
  MaxFaults            \* bound: failing calls, and restarts other than the timer's

ASSUME IssueAssumption ==
  /\ IsFiniteSet(Issues) /\ Unmanaged \subseteq Issues
  /\ num_confirmations \in Nat \ {0}
  /\ {MaxHeight, MaxPayments, MaxFaults} \subseteq Nat

VARIABLES
  status, expired, btc_height,  \* the issue pallet; relay height when an issue was opened
  height, payments,             \* Bitcoin: height, payments in its blocks
  relayHeight,                  \* the relay's best block
  phase,                        \* where the start of the service is
  listening, queue,             \* subscribed listeners, events they have not handled
  issue_set,
  next_height,                  \* the block the stream waits for
  waiting,                      \* payments whose tasks wait for the lock
  holder,                       \* the task that holds the lock
  keys, coins,                  \* the wallet: keys of deposit addresses, payments it knows
  faults,
  unwatched                     \* history: issues that nobody will watch before a restart

Listeners == {"request", "execute", "cancel"}

palletVars == <<status, expired, btc_height>>
bitcoinVars == <<height, payments, relayHeight>>
walletVars == <<keys, coins>>
vars == <<palletVars, bitcoinVars, phase, listening, queue, issue_set, next_height, waiting,
          holder, walletVars, faults, unwatched>>

-----------------------------------------------------------------------------

Payment == [issue : Issues, height : Nat, sufficient : BOOLEAN]
Free == [pc |-> "free", of |-> {}]
Holding(pc, p) == [pc |-> pc, of |-> {p}]

Pending == {i \in Issues : status[i] = "Pending"}

\* get_all_active_issues: only the parachain period is looked at.
get_all_active_issues == Pending \ expired

\* wait_for_block counts the block itself as its first confirmation; so does
\* the relay, which the vault asks with verify_block_header_inclusion.
Confirmed(h, best) == h + num_confirmations - 1 <= best

Fault == faults < MaxFaults /\ faults' = faults + 1

\* The events that a listener has not handled; none before it has subscribed.
Notify(listener, i) ==
  queue' = IF listener \in listening
           THEN [queue EXCEPT ![listener] = Append(@, i)] ELSE queue

Init ==
  /\ status = [i \in Issues |-> "None"] /\ expired = {} /\ btc_height = [i \in Issues |-> 0]
  /\ height = 1 /\ payments = {} /\ relayHeight = 1
  /\ phase = "keys" /\ listening = {} /\ queue = [l \in Listeners |-> <<>>]
  /\ issue_set = {} /\ next_height = 0 /\ waiting = {} /\ holder = Free
  /\ keys = {} /\ coins = {}
  /\ faults = 0 /\ unwatched = {}

-----------------------------------------------------------------------------
(* The parachain, its users and Bitcoin.                                   *)

vaultVars == <<phase, listening, issue_set, next_height, waiting, holder, walletVars, faults>>

\* The open issues have not been queried yet.
Unqueried == phase \in {"keys", "rescan", "query"}

\* An issue opened after the query, and before the listener subscribed, is missed.
\* There is always a next block: none is opened at the last one.
RequestIssue(i) ==
  /\ status[i] = "None" /\ relayHeight < MaxHeight
  /\ status' = [status EXCEPT ![i] = "Pending"]
  /\ btc_height' = [btc_height EXCEPT ![i] = relayHeight]
  /\ Notify("request", i)
  /\ unwatched' = IF ~Unqueried /\ "request" \notin listening
                  THEN unwatched \cup {i} ELSE unwatched
  /\ UNCHANGED <<expired, bitcoinVars, vaultVars>>

Expire(i) ==
  /\ i \in Pending \ expired
  /\ expired' = expired \cup {i}
  /\ UNCHANGED <<status, btc_height, bitcoinVars, vaultVars, queue, unwatched>>

CancelIssue(i) ==
  /\ i \in Pending \cap expired
  /\ status' = [status EXCEPT ![i] = "Cancelled"]
  /\ Notify("cancel", i)
  /\ UNCHANGED <<expired, btc_height, bitcoinVars, vaultVars, unwatched>>

\* The pallet accepts the proof of a sufficient payment that the relay has
\* confirmed, while the issue is pending.
Provable(p) == p.sufficient /\ Confirmed(p.height, relayHeight)

ExecuteByOther(i) ==
  /\ i \in Pending /\ \E p \in payments : p.issue = i /\ Provable(p)
  /\ status' = [status EXCEPT ![i] = "Completed"]
  /\ Notify("execute", i)
  /\ UNCHANGED <<expired, btc_height, bitcoinVars, vaultVars, unwatched>>

\* A Bitcoin block with at most one payment to a deposit address, paid after
\* the request.  The last blocks are there to confirm the others.
NewBlock ==
  /\ height < MaxHeight /\ height' = height + 1
  /\ \/ UNCHANGED payments
     \/ /\ Cardinality(payments) < MaxPayments /\ Confirmed(height', MaxHeight)
        /\ \E i \in Issues, sufficient \in BOOLEAN :
             /\ status[i] # "None"
             /\ payments' = payments \cup
                  {[issue |-> i, height |-> height', sufficient |-> sufficient]}
  /\ coins' = coins \cup {p \in payments' \ payments : p.issue \in keys}
  /\ UNCHANGED <<palletVars, relayHeight, phase, listening, issue_set, next_height, waiting,
                 holder, keys, faults, queue, unwatched>>

NewRelayBlock ==
  /\ relayHeight < height /\ relayHeight' = relayHeight + 1
  /\ UNCHANGED <<palletVars, height, payments, vaultVars, queue, unwatched>>

-----------------------------------------------------------------------------
(* Start of the service.                                                   *)

envVars == <<palletVars, bitcoinVars>>
taskVars == <<waiting, holder, faults>>

\* All issues ever requested from vaults with a wallet.
get_vault_issue_requests == {i \in Issues \ Unmanaged : status[i] # "None"}

\* add_keys_from_past_issue_request, for every vault of the account: a key that
\* cannot be added is logged.
AddPastKeys ==
  /\ phase = "keys"
  /\ \/ keys' = keys \cup get_vault_issue_requests /\ UNCHANGED faults
     \/ Fault /\ UNCHANGED keys
  /\ phase' = IF get_vault_issue_requests = {} THEN "query" ELSE "rescan"
  /\ UNCHANGED <<envVars, listening, queue, issue_set, next_height, waiting, holder, coins,
                 unwatched>>

\* Mutant: one block less.
RescanBelowEnd == height - 2

\* get_block_count() - 1: the block at the tip is left out.
RescanEnd == height - 1

\* The oldest of the requests' heights.
Lowest(heights) == CHOOSE h \in heights : \A g \in heights : h <= g

\* From the first request on, as far as the node has not pruned the chain.
RescanStart(pruned) ==
  LET first == Lowest({btc_height[i] : i \in get_vault_issue_requests})
  IN IF first < pruned THEN pruned ELSE first

Rescanned(pruned) ==
  {p \in payments : p.issue \in keys /\ p.height \in RescanStart(pruned)..RescanEnd}

get_address_tx_history_full(i) == {p \in payments : p.issue = i}

\* rescan_electrs_for_addresses: all payments of the requests before that.
FromElectrs(pruned) ==
  UNION {get_address_tx_history_full(i) :
           i \in {j \in get_vault_issue_requests : btc_height[j] < pruned}}

\* Bitcoin Core refuses a range that ends before it starts, and importprunedfunds
\* a payment to an address without a key.
RescanAccepted(pruned) ==
  /\ RescanStart(pruned) <= RescanEnd
  /\ \A p \in FromElectrs(pruned) : p.issue \in keys

\* Nothing is pruned, or all but the last two blocks.
PrunedHeights == {0, height - 1}

Rescan ==
  /\ phase = "rescan"
  /\ \E pruned \in PrunedHeights :
       /\ RescanAccepted(pruned)
       /\ coins' = coins \cup Rescanned(pruned) \cup FromElectrs(pruned)
  /\ phase' = "query"
  /\ UNCHANGED <<envVars, listening, queue, issue_set, next_height, taskVars, keys, unwatched>>

\* Mutant: the stream starts at the tip.
FromTip(open) == height

\* The stream starts where the oldest open issue was requested.
btc_start_height(open) == Lowest({btc_height[i] : i \in open})

\* initialize_issue_set: without an open issue the block count is read next.
QueryIssues ==
  /\ phase = "query"
  /\ issue_set' = get_all_active_issues
  /\ unwatched' = {}
  /\ IF issue_set' = {}
     THEN phase' = "count" /\ UNCHANGED next_height
     ELSE phase' = "run" /\ next_height' = btc_start_height(issue_set')
  /\ UNCHANGED <<envVars, listening, queue, taskVars, walletVars>>

\* Mutant: an unchecked step back from the tip.
CountBelowTip ==
  /\ phase = "count" /\ phase' = "run" /\ next_height' = height - num_confirmations
  /\ UNCHANGED <<envVars, listening, queue, issue_set, taskVars, walletVars, unwatched>>

GetBlockCount ==
  /\ phase = "count" /\ phase' = "run" /\ next_height' = height
  /\ UNCHANGED <<envVars, listening, queue, issue_set, taskVars, walletVars, unwatched>>

Subscribe(l) ==
  /\ phase = "run" /\ l \notin listening
  /\ listening' = listening \cup {l}
  /\ UNCHANGED <<envVars, phase, queue, issue_set, next_height, taskVars, walletVars, unwatched>>

-----------------------------------------------------------------------------
(* The listeners; each handles its events one after the other.             *)

LockIsFree == holder = Free

Handle(l) ==
  /\ queue[l] # <<>>
  /\ queue' = [queue EXCEPT ![l] = Tail(@)]
  /\ UNCHANGED <<envVars, phase, listening, next_height, waiting, holder, coins>>

\* add_new_deposit_key; an error is logged.
AddDepositKey(i) ==
  \/ keys' = keys \cup {i} /\ UNCHANGED faults
  \/ Fault /\ UNCHANGED keys

\* listen_for_issue_requests; it returns early for a vault without a wallet.
HandleRequest ==
  /\ Handle("request")
  /\ LET i == Head(queue["request"])
     IN IF i \in Unmanaged
        THEN /\ unwatched' = IF i \in issue_set THEN unwatched ELSE unwatched \cup {i}
             /\ UNCHANGED <<issue_set, keys, faults>>
        ELSE /\ LockIsFree /\ issue_set' = issue_set \cup {i} /\ UNCHANGED unwatched
             /\ AddDepositKey(i)

\* listen_for_issue_executes and listen_for_issue_cancels
HandleClosed(l) ==
  /\ Handle(l) /\ LockIsFree
  /\ issue_set' = issue_set \ {Head(queue[l])}
  /\ UNCHANGED <<keys, faults, unwatched>>

-----------------------------------------------------------------------------
(* process_issue_requests and its tasks.                                   *)

locals == <<phase, listening, walletVars>>

\* The next confirmed block: one task per transaction.
StreamBlock ==
  /\ phase = "run" /\ Confirmed(next_height, height)
  /\ next_height' = next_height + 1
  /\ waiting' = waiting \cup {p \in payments : p.height = next_height}
  /\ UNCHANGED <<envVars, locals, queue, issue_set, holder, faults, unwatched>>

\* A task gets the lock; it ends at once if no address is watched.
TakeLock(p) ==
  /\ p \in waiting /\ holder = Free
  /\ waiting' = waiting \ {p}
  /\ holder' = IF p.issue \in issue_set THEN Holding("check", p) ELSE Free
  /\ UNCHANGED <<envVars, locals, queue, issue_set, next_height, faults, unwatched>>

\* Mutant: the issue stays in the set while it is executed.
KeepWatching(i) == UNCHANGED issue_set

StopWatching(i) == issue_set' = issue_set \ {i}

\* Mutant: the issue is removed before the amount is looked at.
RemoveFirst ==
  /\ holder.pc = "check"
  /\ \E p \in holder.of :
       /\ holder' = IF p.sufficient THEN Holding("relay", p) ELSE Free
       /\ StopWatching(p.issue)
  /\ UNCHANGED <<envVars, locals, queue, next_height, waiting, faults, unwatched>>

\* get_issue_request and the amount; from here on the issue is not watched.
CheckAmount ==
  /\ holder.pc = "check"
  /\ \E p \in holder.of :
       IF p.sufficient
       THEN holder' = Holding("relay", p) /\ StopWatching(p.issue)
       ELSE holder' = Free /\ UNCHANGED issue_set
  /\ UNCHANGED <<envVars, locals, queue, next_height, waiting, faults, unwatched>>

\* wait_for_block_in_relay
RelayConfirms ==
  /\ holder.pc = "relay"
  /\ \A p \in holder.of : Confirmed(p.height, relayHeight)
  /\ holder' = [holder EXCEPT !.pc = "delay"]
  /\ UNCHANGED <<envVars, locals, queue, issue_set, next_height, waiting, faults, unwatched>>

\* OrderedVaultsDelay: other vaults, and the user, may be first.
Delay ==
  /\ holder.pc = "delay"
  /\ holder' = [holder EXCEPT !.pc = "status"]
  /\ UNCHANGED <<envVars, locals, queue, issue_set, next_height, waiting, faults, unwatched>>

\* After the random delay the status is read again.
CheckStatus ==
  /\ holder.pc = "status"
  /\ holder' = IF \A p \in holder.of : status[p.issue] = "Completed"
               THEN Free ELSE [holder EXCEPT !.pc = "execute"]
  /\ UNCHANGED <<envVars, locals, queue, issue_set, next_height, waiting, faults, unwatched>>

\* execute_issue, refused or not; a cancelled issue may still be completed.
Execute ==
  /\ holder.pc = "execute"
  /\ holder' = Free
  /\ \E p \in holder.of :
       \/ /\ status[p.issue] # "Completed" /\ Provable(p)
          /\ status' = [status EXCEPT ![p.issue] = "Completed"]
          /\ Notify("execute", p.issue)
       \/ /\ status[p.issue] # "Pending" \/ ~Provable(p)
          /\ UNCHANGED <<status, queue>>
  /\ UNCHANGED <<expired, btc_height, bitcoinVars, locals, issue_set, next_height, waiting,
                 faults, unwatched>>

\* A call of the task fails and the task ends.  Once the issue has left the
\* set there is no second attempt.
TaskFails ==
  /\ Fault
  /\ holder # Free /\ holder' = Free
  /\ unwatched' = IF holder.pc = "check" THEN unwatched
                  ELSE unwatched \cup {p.issue : p \in holder.of}
  /\ UNCHANGED <<envVars, locals, queue, issue_set, next_height, waiting>>

-----------------------------------------------------------------------------
(* Restarts.                                                               *)

Restart ==
  /\ phase' = "keys" /\ listening' = {} /\ queue' = [l \in Listeners |-> <<>>]
  /\ issue_set' = {} /\ next_height' = 0 /\ waiting' = {} /\ holder' = Free
  /\ unwatched' = {}
  /\ UNCHANGED <<envVars, walletVars>>

\* The restart timer runs for three hours: by then the service has handled
\* whatever it was given.
PeriodicRestart ==
  /\ phase = "run" /\ listening = Listeners /\ \A l \in Listeners : queue[l] = <<>>
  /\ waiting = {} /\ holder = Free /\ ~Confirmed(next_height, height)
  /\ Restart /\ UNCHANGED faults

\* An error of the rescan is an error of the start, which is tried again.
RescanFails ==
  /\ phase = "rescan"
  /\ \E pruned \in PrunedHeights : ~RescanAccepted(pruned)
  /\ Restart /\ UNCHANGED faults

CrashRestart == Fault /\ Restart

-----------------------------------------------------------------------------

Environment ==
  \/ \E i \in Issues : RequestIssue(i) \/ Expire(i) \/ CancelIssue(i) \/ ExecuteByOther(i)
  \/ NewBlock \/ NewRelayBlock

Listening == \/ \E l \in Listeners : Subscribe(l)
             \/ HandleRequest \/ HandleClosed("execute") \/ HandleClosed("cancel")

Task == CheckAmount \/ RelayConfirms \/ Delay \/ CheckStatus \/ Execute

Service == \/ AddPastKeys \/ Rescan \/ RescanFails \/ QueryIssues \/ GetBlockCount \/ Listening
           \/ StreamBlock \/ (\E p \in waiting : TakeLock(p)) \/ Task

Next == Environment \/ Service \/ TaskFails \/ PeriodicRestart \/ CrashRestart

Spec == Init /\ [][Next]_vars

\* Bitcoin and the relay go on, the service's tasks are polled as long as one
\* of them can do something, and the timer restarts a service that is idle.
Fairness == /\ WF_vars(NewBlock) /\ WF_vars(NewRelayBlock)
            /\ WF_vars(Service) /\ WF_vars(PeriodicRestart)

FairSpec == Spec /\ Fairness

-----------------------------------------------------------------------------
(* Properties.                                                             *)

TypeOK ==
  /\ status \in [Issues -> {"None", "Pending", "Completed", "Cancelled"}]
  /\ expired \subseteq Issues /\ btc_height \in [Issues -> Nat]
  /\ height \in Nat /\ relayHeight \in Nat /\ payments \subseteq Payment
  /\ phase \in {"keys", "rescan", "query", "count", "run"}
  /\ listening \subseteq Listeners /\ queue \in [Listeners -> Seq(Issues)]
  /\ issue_set \subseteq Issues /\ next_height \in Nat
  /\ waiting \subseteq payments
  /\ keys \subseteq Issues \ Unmanaged /\ coins \subseteq payments
  /\ holder.pc \in {"free", "check", "relay", "delay", "status", "execute"} /\ holder.of \subseteq payments
  /\ faults \in Nat /\ unwatched \subseteq Issues

\* An issue that can still be executed is watched, about to be watched or being
\* executed, unless it is one of those the code gives up until the next start:
\* opened between the query and the subscription, of a vault without a wallet,
\* or failed once after it had left the set ("best-effort", issue.rs:37).
PendingIsWatched ==
  ~Unqueried =>
    \A i \in get_all_active_issues :
      \/ i \in issue_set \cup unwatched
      \/ \E n \in 1..Len(queue["request"]) : queue["request"][n] = i
      \/ \E p \in holder.of : p.issue = i

\* No second task can pick up an issue that is being executed, and what is
\* submitted is a proof the pallet accepts (issue.rs:190-225): the lock is held
\* from the lookup to the end.
ExecutesOnceWithProof ==
  holder.pc \in {"relay", "delay", "status", "execute"} =>
    \A p \in holder.of :
      /\ p.issue \notin issue_set
      /\ p.sufficient
      /\ holder.pc # "relay" => Provable(p)

\* An issue that was paid in full is executed, or expires: what one start of
\* the service has missed or failed to execute, the next one finds again.
PaidIssueIsExecuted ==
  \A i \in Issues :
    ~<>[](/\ i \in get_all_active_issues
          /\ \E p \in payments : p.issue = i /\ p.sufficient)

\* Whatever was paid to a vault with a wallet can be spent in the end: a key that
\* was not imported in time, as its request came before the listener had
\* subscribed or the import failed, is imported by a later start, and its
\* payments are found by the scan, the blocks at the tip and the pruned ones too
\* (issue.rs: add_keys_from_past_issue_request).
DepositIsSpendable ==
  \A i \in Issues \ Unmanaged :
    ~<>[](\E p \in payments : p.issue = i /\ p \notin coins)

=============================================================================
