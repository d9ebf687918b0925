------------------------------ MODULE Payment -------------------------------
(***************************************************************************)
(* How a vault pays redeem and replace requests (vault/src/execution.rs,   *)
(* redeem.rs, replace.rs, the startup of system.rs and the shutdown signal *)
(* of service/src/lib.rs).                                                 *)
(*                                                                         *)
(* A request reaches payment by two ways: the listener receives its event, *)
(* or the open-request executor, started with the service, reads it from   *)
(* the parachain and finds no payment for it in the mempool and the chain. *)
(* The service restarts within one process: the tasks it spawned end with  *)
(* the shutdown signal if they subscribed to it before it was sent; the    *)
(* executor itself never does.                                             *)
(*                                                                         *)
(* Nothing keeps a request from being with the listener and with an        *)
(* executor, or with two executors, at once, nor an executor from          *)
(* overlooking a payment, nor time from passing between the deadline check *)
(* and the payment: the history variable `exposed' collects the requests   *)
(* these races happened to.                                                *)
(***************************************************************************)
EXTENDS Integers, Sequences, FiniteSets

CONSTANTS
  Requests,        \* redeem and replace requests of this vault
  MaxBumps,        \* bound: fee bumps in total (0: auto_rbf is off)
  MaxPayments,     \* bound: Bitcoin payments in total
  MaxFailures      \* bound: failing calls, overlooked payments, unscheduled restarts and crashes

ASSUME PaymentAssumption == {MaxBumps, MaxPayments, MaxFailures} \subseteq Nat

\* "cur" is what the running service spawned, "old" what survived a shutdown.
Gens == {"cur", "old"}
Origins == {"listener", "executor"}
Tasks == Gens \X Origins \X Requests

VARIABLES
  status,          \* the request on the parachain
  clock,           \* "open", then past the vault's deadline, then past the request's own
  payments,        \* Bitcoin payments: request, latest txid (by fee bumps), txid mined or 0
  executor,        \* execute_open_requests of each generation
  listening,       \* are the event subscriptions of this service established?
  inbox,           \* requests whose event is with the listener
  tasks,           \* pay_and_execute of every request, by generation and origin
  exposed,         \* history: requests that a race may make the vault pay twice or too late
  failures

vars == <<status, clock, payments, executor, listening, inbox, tasks, exposed, failures>>

-----------------------------------------------------------------------------

Pending == {r \in Requests : status[r] = "Pending"}

\* A Bitcoin transaction: the n-th version of the i-th payment.
Tx == (Nat \ {0}) \X (Nat \ {0})
NoTx == <<0, 0>>
InMempool == {<<i, payments[i].txid>> : i \in {j \in DOMAIN payments : payments[j].mined = 0}}
InChain == {<<i, payments[i].mined>> : i \in {j \in DOMAIN payments : payments[j].mined # 0}}
RequestOf(tx) == payments[tx[1]].request

NoTask == [pc |-> "none", tx |-> NoTx]
CheckTask == [pc |-> "check", tx |-> NoTx]

\* Mutants: the task waits for the version before, or is not spawned at all.
AwaitPrevious(tx) == [pc |-> "inclusion", tx |-> <<tx[1], tx[2] - 1>>]
AwaitNothing(tx) == NoTask

\* A task in wait_for_inclusion.
AwaitTask(tx) == [pc |-> "inclusion", tx |-> tx]

Idle == [pc |-> "done", open |-> {}, mempool |-> {}]
Fresh == [pc |-> "query", open |-> {}, mempool |-> {}]

Init ==
  /\ status = [r \in Requests |-> "None"]
  /\ clock = [r \in Requests |-> "open"]
  /\ payments = <<>>
  /\ executor = [g \in Gens |-> IF g = "cur" THEN Fresh ELSE Idle]
  /\ listening = FALSE /\ inbox = {}
  /\ tasks = [t \in Tasks |-> NoTask]
  /\ exposed = {} /\ failures = 0

-----------------------------------------------------------------------------
(* The chains.                                                             *)

RequestOpened(r) ==
  /\ status[r] = "None"
  /\ status' = [status EXCEPT ![r] = "Pending"]
  /\ inbox' = IF listening THEN inbox \cup {r} ELSE inbox
  /\ UNCHANGED <<clock, payments, executor, listening, tasks, exposed, failures>>

Expose(requests) == exposed' = exposed \cup requests

\* The vault's deadline passes (on both chains), then the request's: if a task
\* has checked the one and not sent yet, it is too late (the first race).
TimePasses(r) ==
  /\ status[r] = "Pending"
  /\ \/ clock[r] = "open" /\ clock' = [clock EXCEPT ![r] = "margin"] /\ UNCHANGED exposed
     \/ /\ clock[r] = "margin" /\ clock' = [clock EXCEPT ![r] = "expired"]
        /\ Expose({t[3] : t \in {u \in Tasks : u[3] = r /\ tasks[u].pc = "send"}})
  /\ UNCHANGED <<status, payments, executor, listening, inbox, tasks, failures>>

\* The user of an expired request takes the collateral instead.
RequestCancelled(r) ==
  /\ status[r] = "Pending" /\ clock[r] = "expired"
  /\ status' = [status EXCEPT ![r] = "Cancelled"]
  /\ UNCHANGED <<clock, payments, executor, listening, inbox, tasks, exposed, failures>>

\* One version of a payment is mined: its fee bumps conflict with each other.
Mine(i) ==
  /\ payments[i].mined = 0
  /\ \E n \in 1..payments[i].txid : payments' = [payments EXCEPT ![i].mined = n]
  /\ UNCHANGED <<status, clock, executor, listening, inbox, tasks, exposed, failures>>

-----------------------------------------------------------------------------
(* pay_and_execute.                                                        *)

SetTask(t, task) == tasks' = [tasks EXCEPT ![t] = task]

\* Mutant: the deadline is not checked.
PaysExpired(r) == TRUE

\* The deadline check: pay unless both chains have reached the deadline.
MayStillPay(r) == clock[r] = "open"

CheckDeadline(t) ==
  /\ tasks[t].pc = "check"
  /\ SetTask(t, IF MayStillPay(t[3]) THEN [pc |-> "send", tx |-> NoTx] ELSE NoTask)
  /\ UNCHANGED <<status, clock, payments, executor, listening, inbox, exposed, failures>>

\* transfer_btc: the transaction carries the request's hash in OP_RETURN.
SendPayment(t) ==
  /\ tasks[t].pc = "send" /\ Len(payments) < MaxPayments
  /\ payments' = Append(payments, [request |-> t[3], txid |-> 1, mined |-> 0])
  /\ SetTask(t, AwaitTask(<<Len(payments) + 1, 1>>))
  /\ UNCHANGED <<status, clock, executor, listening, inbox, exposed, failures>>

Bumps == Cardinality({v \in (DOMAIN payments) \X (1..MaxBumps) : v[2] < payments[v[1]].txid})

\* wait_for_inclusion, a higher fee estimate: the transaction still in the
\* mempool is replaced and the task waits for the replacement.
BumpFee(t) ==
  LET i == tasks[t].tx[1]
      n == tasks[t].tx[2]
  IN /\ tasks[t].pc = "inclusion" /\ tasks[t].tx \in InMempool /\ Bumps < MaxBumps
     /\ payments' = [payments EXCEPT ![i].txid = n + 1]
     /\ SetTask(t, AwaitTask(<<i, n + 1>>))
     /\ UNCHANGED <<status, clock, executor, listening, inbox, exposed, failures>>

\* wait_for_inclusion returns once the very transaction waited for is confirmed
\* and its block is in the relay.
Included(t) ==
  /\ tasks[t].pc = "inclusion" /\ tasks[t].tx \in InChain
  /\ SetTask(t, [tasks[t] EXCEPT !.pc = "execute"])
  /\ UNCHANGED <<status, clock, payments, executor, listening, inbox, exposed, failures>>

\* execute: accepted while the request is pending, else retried until Timeout.
Execute(t) ==
  /\ tasks[t].pc = "execute"
  /\ status' = IF status[t[3]] = "Pending" THEN [status EXCEPT ![t[3]] = "Executed"] ELSE status
  /\ SetTask(t, NoTask)
  /\ UNCHANGED <<clock, payments, executor, listening, inbox, exposed, failures>>

Failure == failures < MaxFailures /\ failures' = failures + 1

\* Any call of the task may fail for good: the error is logged, nothing retried.
TaskFails(t) ==
  /\ tasks[t].pc # "none" /\ Failure
  /\ SetTask(t, NoTask)
  /\ UNCHANGED <<status, clock, payments, executor, listening, inbox, exposed>>

-----------------------------------------------------------------------------
(* The listeners.                                                          *)

\* run_service spawns the executor, then sets up the listeners, which do not wait
\* for its query.
Subscribe ==
  /\ ~listening /\ listening' = TRUE
  /\ UNCHANGED <<status, clock, payments, executor, inbox, tasks, exposed, failures>>

\* The event callback spawns a task; it does not ask whether the request has
\* been paid or executed.
HandleEvent(r) ==
  /\ r \in inbox /\ inbox' = inbox \ {r}
  /\ SetTask(<<"cur", "listener", r>>, CheckTask)
  /\ UNCHANGED <<status, clock, payments, executor, listening, exposed, failures>>

-----------------------------------------------------------------------------
(* execute_open_requests.                                                  *)

SetExecutor(g, e) == executor' = [executor EXCEPT ![g] = e]

\* The request is with the listener, another executor or a task already (one that
\* has paid may yet replace the payment by one the scan does not look for).
Taken(r, g) ==
  \/ r \in inbox
  \/ \E h \in Gens \ {g} : r \in executor[h].open
  \/ \E t \in Tasks : t[3] = r /\ tasks[t].pc # "none"

\* The pending requests, also those taken by others (the second race); with none
\* there is nothing to do.
QueryOpenRequests(g) ==
  /\ executor[g].pc = "query"
  /\ SetExecutor(g, IF Pending = {} THEN Idle
                    ELSE [pc |-> "mempool", open |-> Pending, mempool |-> {}])
  /\ Expose({r \in Pending : Taken(r, g)})
  /\ UNCHANGED <<status, clock, payments, listening, inbox, tasks, failures>>

\* get_mempool_transactions: first the txids ...
ListMempool(g) ==
  /\ executor[g].pc = "mempool"
  /\ SetExecutor(g, [executor[g] EXCEPT !.pc = "fetch", !.mempool = InMempool])
  /\ UNCHANGED <<status, clock, payments, listening, inbox, tasks, exposed, failures>>

\* The query or the listing of the mempool fails: the error is logged only.
ExecutorFails(g) ==
  /\ executor[g].pc \in {"query", "mempool"} /\ Failure
  /\ SetExecutor(g, Idle)
  /\ UNCHANGED <<status, clock, payments, listening, inbox, tasks, exposed>>

\* The stream of transactions yields those of `seen', possibly without one that
\* could not be read (the third race).  Every open request with a payment among
\* them leaves the map, and a task awaits its inclusion.
Match(g, seen, next) ==
  \E missed \in {{}} \cup {{tx} : tx \in seen} :
    LET found == {tx \in seen \ missed : RequestOf(tx) \in executor[g].open}
        paid == {RequestOf(tx) : tx \in found}
    IN /\ IF missed = {} THEN UNCHANGED failures ELSE Failure
       /\ Expose({RequestOf(tx) : tx \in missed})
       /\ \E pick \in [paid -> found] :
            /\ \A r \in paid : RequestOf(pick[r]) = r
            /\ tasks' = [t \in Tasks |-> IF t[1] = g /\ t[2] = "executor" /\ t[3] \in paid
                                         THEN AwaitTask(pick[t[3]]) ELSE tasks[t]]
       /\ SetExecutor(g, [pc |-> next, open |-> executor[g].open \ paid, mempool |-> {}])

\* ... then each transaction, skipping those no longer in the mempool.
FetchMempool(g) ==
  /\ executor[g].pc = "fetch"
  /\ Match(g, executor[g].mempool \cap InMempool, "chain")
  /\ UNCHANGED <<status, clock, payments, listening, inbox>>

\* Mutant: only the mempool is searched.
SkipChain(g) ==
  /\ executor[g].pc = "chain"
  /\ Match(g, {}, "pay")
  /\ UNCHANGED <<status, clock, payments, listening, inbox>>

\* The blocks from the best one, determined now, back to the oldest request.
ScanChain(g) ==
  /\ executor[g].pc = "chain"
  /\ Match(g, InChain, "pay")
  /\ UNCHANGED <<status, clock, payments, listening, inbox>>

\* Mutant: requests without a payment are left to the listener.
LeaveRemaining(g) ==
  /\ executor[g].pc = "pay"
  /\ SetExecutor(g, Idle)
  /\ UNCHANGED <<status, clock, payments, listening, inbox, tasks, exposed, failures>>

\* What is left has no payment: a task pays each.
PayRemaining(g) ==
  /\ executor[g].pc = "pay"
  /\ tasks' = [t \in Tasks |-> IF t[1] = g /\ t[2] = "executor" /\ t[3] \in executor[g].open
                               THEN CheckTask ELSE tasks[t]]
  /\ SetExecutor(g, Idle)
  /\ UNCHANGED <<status, clock, payments, listening, inbox, exposed, failures>>

-----------------------------------------------------------------------------
(* Shutdown, restart and crash.                                            *)

Running(g) == executor[g].pc # "done"

\* Bound: one generation of survivors.
NoSurvivors == ~Running("old") /\ \A t \in Tasks : t[1] = "old" => tasks[t] = NoTask

\* The signal ends every task of the service spawned so far and the service
\* starts again with a new signal; a running executor goes on, and the tasks it
\* spawns from now on subscribe to the old signal too late to receive it.
Restart ==
  /\ Running("cur") => NoSurvivors
  /\ tasks' = [t \in Tasks |-> IF t[1] = "cur" THEN NoTask ELSE tasks[t]]
  /\ executor' = [g \in Gens |-> IF g = "cur" THEN Fresh
                                 ELSE IF Running("cur") THEN executor["cur"] ELSE executor["old"]]
  /\ listening' = FALSE /\ inbox' = {}
  /\ UNCHANGED <<status, clock, payments, exposed>>

\* Some task of the service ended.
Shutdown == Failure /\ Restart

\* The restart timer, three hours after the start: by then whatever the service
\* can do without waiting for Bitcoin is done.
PeriodicRestart ==
  /\ ~Running("cur") /\ listening /\ inbox = {}
  /\ \A t \in Tasks : t[1] = "cur" => \/ tasks[t].pc = "none"
                                      \/ tasks[t].pc = "inclusion" /\ tasks[t].tx \notin InChain
  /\ Restart /\ UNCHANGED failures

\* The process dies and is started again.
Crash ==
  /\ Failure
  /\ tasks' = [t \in Tasks |-> NoTask]
  /\ executor' = [g \in Gens |-> IF g = "cur" THEN Fresh ELSE Idle]
  /\ listening' = FALSE /\ inbox' = {}
  /\ UNCHANGED <<status, clock, payments, exposed>>

-----------------------------------------------------------------------------

Chains == \/ \E r \in Requests : RequestOpened(r) \/ TimePasses(r) \/ RequestCancelled(r)
          \/ \E i \in DOMAIN payments : Mine(i)

TaskProgress(t) == CheckDeadline(t) \/ SendPayment(t) \/ Included(t) \/ Execute(t)

ExecutorProgress(g) == \/ QueryOpenRequests(g) \/ ListMempool(g) \/ FetchMempool(g)
                       \/ ScanChain(g) \/ PayRemaining(g)

Progress == \/ \E t \in Tasks : TaskProgress(t)
            \/ \E g \in Gens : ExecutorProgress(g)
            \/ \E r \in Requests : HandleEvent(r)
            \/ Subscribe

Failures == \/ \E t \in Tasks : TaskFails(t)
            \/ \E g \in Gens : ExecutorFails(g)
            \/ Shutdown \/ Crash

Next == Chains \/ Progress \/ (\E t \in Tasks : BumpFee(t)) \/ PeriodicRestart \/ Failures

Spec == Init /\ [][Next]_vars

\* Bitcoin mines what is in the mempool, tasks that can run are run, and the
\* restart timer fires.
Fairness ==
  /\ WF_vars(\E i \in DOMAIN payments : Mine(i))
  /\ WF_vars(Progress)
  /\ WF_vars(PeriodicRestart)

FairSpec == Spec /\ Fairness

-----------------------------------------------------------------------------
(* Properties.                                                             *)

PaymentRecord == [request : Requests, txid : Nat \ {0}, mined : Nat]
ExecutorRecord == [pc : {"query", "mempool", "fetch", "chain", "pay", "done"},
                   open : SUBSET Requests, mempool : SUBSET Tx]
TaskRecord == [pc : {"none", "check", "send", "inclusion", "execute"}, tx : Tx \cup {NoTx}]

TypeOK ==
  /\ status \in [Requests -> {"None", "Pending", "Executed", "Cancelled"}]
  /\ clock \in [Requests -> {"open", "margin", "expired"}]
  /\ payments \in Seq(PaymentRecord)
  /\ executor \in [Gens -> ExecutorRecord]
  /\ listening \in BOOLEAN /\ inbox \subseteq Requests
  /\ tasks \in [Tasks -> TaskRecord]
  /\ exposed \subseteq Requests /\ failures \in Nat

\* No request is paid twice, whatever is restarted, mined or replaced while the
\* executor looks for an existing payment: "it checks the bitcoin blockchain to
\* see if a payment has already been made" (execution.rs:420-421).
AtMostOnePayment ==
  \A i, j \in DOMAIN payments : payments[i].request = payments[j].request => i = j

\* The same for every request that none of the three races happened to.
UnexposedPaidOnce ==
  \A i, j \in DOMAIN payments :
    payments[i].request = payments[j].request => i = j \/ payments[i].request \in exposed

\* A payment is only sent for a request that is pending at that moment: neither
\* a late event nor a restart makes the vault pay what it already settled or
\* lost (execution.rs:173-180), unless the request is exposed.
PaysOnlyPending ==
  [][\A i \in DOMAIN payments' \ DOMAIN payments :
       LET r == payments'[i].request IN r \in exposed \/ status[r] = "Pending"]_vars

\* The requests of the payments, in their order.
PaidRequests == [i \in DOMAIN payments |-> payments[i].request]

Abstract == INSTANCE Settlement WITH paid <- PaidRequests, released <- exposed

\* The listener, the executor and their tasks together do what Settlement asks
\* for: every request is paid once, while it is pending, unless it is exposed, and
\* is executed only with a payment, over all restarts (execution.rs:143-229, 419-570).
ImplementsSettlement == Abstract!Spec

\* A payment that is mined does not leave its request pending for ever, even if
\* the task that sent it is gone or waits for a replaced transaction.
MinedPaymentIsExecuted ==
  \A r \in Requests :
    ~<>[](status[r] = "Pending" /\ \E i \in DOMAIN payments : /\ payments[i].request = r
                                                              /\ payments[i].mined # 0)

\* A request is not left unpaid while there is time to pay it, even if it was
\* opened between the executor's query and the subscription of the listener.
OpenRequestIsPaid ==
  \A r \in Requests :
    ~<>[](/\ status[r] = "Pending" /\ clock[r] = "open"
          /\ \A i \in DOMAIN payments : payments[i].request # r)

=============================================================================
