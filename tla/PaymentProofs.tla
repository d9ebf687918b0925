--------------------------- MODULE PaymentProofs ----------------------------
(***************************************************************************)
(* No request that none of the races of Payment happened to is paid twice  *)
(* or too late, and the whole implements Settlement, for any number of     *)
(* requests, fee bumps, payments, failures and restarts.                   *)
(***************************************************************************)
EXTENDS Payment, TLAPS

-----------------------------------------------------------------------------
(* Type correctness.                                                       *)

\* The records a task or an executor is set to are of their types.
LEMMA RecordTypes ==
  /\ NoTask \in TaskRecord /\ CheckTask \in TaskRecord
  /\ [pc |-> "send", tx |-> NoTx] \in TaskRecord
  /\ Idle \in ExecutorRecord /\ Fresh \in ExecutorRecord
  /\ \A tx \in Tx : AwaitTask(tx) \in TaskRecord
BY DEF NoTask, CheckTask, TaskRecord, Idle, Fresh, ExecutorRecord, AwaitTask

\* A task is a triple of generation, origin and request.
LEMMA TaskParts ==
  \A t \in Tasks : t[1] \in Gens /\ t[2] \in Origins /\ t[3] \in Requests
BY DEF Tasks

\* What the types say about one payment.
LEMMA PaymentAt ==
  ASSUME TypeOK, NEW i \in DOMAIN payments
  PROVE  /\ i \in Nat \ {0} /\ payments[i] \in PaymentRecord
         /\ payments[i].request \in Requests
         /\ payments[i].txid \in Nat \ {0} /\ payments[i].mined \in Nat
<1>1. i \in Nat \ {0} /\ payments[i] \in PaymentRecord
  BY DEF TypeOK
<1> QED BY <1>1 DEF PaymentRecord

\* The transactions in the mempool and in the chain are transactions, and pay
\* requests.
LEMMA TxTypes ==
  ASSUME TypeOK
  PROVE  /\ InMempool \subseteq Tx /\ InChain \subseteq Tx
         /\ \A tx \in InMempool \cup InChain : tx[1] \in DOMAIN payments /\ RequestOf(tx) \in Requests
<1>1. \A i \in DOMAIN payments : /\ <<i, payments[i].txid>> \in Tx
                                 /\ payments[i].mined # 0 => <<i, payments[i].mined>> \in Tx
  BY PaymentAt DEF Tx
<1>2. \A tx \in InMempool \cup InChain : tx[1] \in DOMAIN payments
  BY DEF InMempool, InChain
<1>3. \A tx \in InMempool \cup InChain : RequestOf(tx) \in Requests
  BY <1>2, PaymentAt DEF RequestOf
<1> QED BY <1>1, <1>2, <1>3 DEF InMempool, InChain

\* Changing one payment keeps the type of the payments.
LEMMA PaymentUpdate ==
  ASSUME TypeOK, NEW i \in DOMAIN payments, NEW p \in PaymentRecord
  PROVE  [payments EXCEPT ![i] = p] \in Seq(PaymentRecord)
BY DEF TypeOK

\* The initial state is well typed.
LEMMA InitTypes == Init => TypeOK
<1> SUFFICES ASSUME Init PROVE TypeOK
  OBVIOUS
<1>1. payments \in Seq(PaymentRecord)
  BY DEF Init
<1>2. executor \in [Gens -> ExecutorRecord] /\ tasks \in [Tasks -> TaskRecord]
  BY RecordTypes DEF Init
<1> QED BY <1>1, <1>2 DEF Init, TypeOK

\* Steps of the chains keep the types.
LEMMA ChainTypes == TypeOK /\ Chains => TypeOK'
<1> SUFFICES ASSUME TypeOK, Chains PROVE TypeOK'
  OBVIOUS
<1>1. ASSUME NEW r \in Requests, RequestOpened(r) PROVE TypeOK'
  BY <1>1 DEF RequestOpened, TypeOK
<1>2. ASSUME NEW r \in Requests, TimePasses(r) PROVE TypeOK'
  <2>1. exposed' \subseteq Requests
    BY <1>2, TaskParts DEF TimePasses, Expose, TypeOK
  <2> QED BY <1>2, <2>1 DEF TimePasses, TypeOK
<1>3. ASSUME NEW r \in Requests, RequestCancelled(r) PROVE TypeOK'
  BY <1>3 DEF RequestCancelled, TypeOK
<1>4. ASSUME NEW i \in DOMAIN payments, Mine(i) PROVE TypeOK'
  <2>1. PICK n \in 1..payments[i].txid : payments' = [payments EXCEPT ![i].mined = n]
    BY <1>4 DEF Mine
  <2> DEFINE p == [payments[i] EXCEPT !.mined = n]
  <2>2. p \in PaymentRecord
    BY PaymentAt DEF PaymentRecord
  <2>3. payments' \in Seq(PaymentRecord)
    BY <2>1, <2>2, PaymentUpdate
  <2> QED BY <1>4, <2>3 DEF Mine, TypeOK
<1> QED BY <1>1, <1>2, <1>3, <1>4 DEF Chains

\* A task bumps the fee of the payment it waits for.
LEMMA BumpedPayment ==
  ASSUME TypeOK, NEW t \in Tasks, BumpFee(t)
  PROVE  \E i \in DOMAIN payments :
           /\ tasks[t].tx = <<i, payments[i].txid>> /\ tasks[t].pc = "inclusion"
           /\ payments[i].mined = 0
           /\ payments' = [payments EXCEPT ![i].txid = payments[i].txid + 1]
           /\ tasks' = [tasks EXCEPT ![t] = AwaitTask(<<i, payments[i].txid + 1>>)]
           /\ UNCHANGED <<status, clock, executor, listening, inbox, exposed, failures>>
<1>1. PICK i \in DOMAIN payments : tasks[t].tx = <<i, payments[i].txid>> /\ payments[i].mined = 0
  BY DEF BumpFee, InMempool
<1>2. tasks[t].tx[1] = i /\ tasks[t].tx[2] = payments[i].txid
  BY <1>1
<1> WITNESS i \in DOMAIN payments
<1> QED BY <1>1, <1>2 DEF BumpFee, SetTask

\* Steps of a task keep the types.
LEMMA TaskTypes ==
  ASSUME TypeOK, NEW t \in Tasks, TaskProgress(t) \/ BumpFee(t) \/ TaskFails(t)
  PROVE  TypeOK'
<1>1. CASE CheckDeadline(t)
  BY <1>1, RecordTypes DEF CheckDeadline, SetTask, TypeOK
<1>2. CASE SendPayment(t)
  <2>1. AwaitTask(<<Len(payments) + 1, 1>>) \in TaskRecord
    BY RecordTypes DEF Tx, TypeOK
  <2>2. [request |-> t[3], txid |-> 1, mined |-> 0] \in PaymentRecord
    BY TaskParts DEF PaymentRecord
  <2> QED BY <1>2, <2>1, <2>2 DEF SendPayment, SetTask, TypeOK
<1>3. CASE BumpFee(t)
  <2>1. PICK i \in DOMAIN payments :
           /\ payments' = [payments EXCEPT ![i].txid = payments[i].txid + 1]
           /\ tasks' = [tasks EXCEPT ![t] = AwaitTask(<<i, payments[i].txid + 1>>)]
           /\ UNCHANGED <<status, clock, executor, listening, inbox, exposed, failures>>
    BY <1>3, BumpedPayment
  <2> DEFINE p == [payments[i] EXCEPT !.txid = payments[i].txid + 1]
  <2>2. p \in PaymentRecord
    BY PaymentAt DEF PaymentRecord
  <2>3. payments' \in Seq(PaymentRecord)
    BY <2>1, <2>2, PaymentUpdate
  <2>4. <<i, payments[i].txid + 1>> \in Tx
    BY PaymentAt DEF Tx
  <2>5. AwaitTask(<<i, payments[i].txid + 1>>) \in TaskRecord
    BY <2>4, RecordTypes
  <2> QED BY <2>1, <2>3, <2>5 DEF TypeOK
<1>4. CASE Included(t)
  <2>1. [tasks[t] EXCEPT !.pc = "execute"] \in TaskRecord
    BY DEF TaskRecord, TypeOK
  <2> QED BY <1>4, <2>1 DEF Included, SetTask, TypeOK
<1>5. CASE Execute(t)
  BY <1>5, RecordTypes, TaskParts DEF Execute, SetTask, TypeOK
<1>6. CASE TaskFails(t)
  BY <1>6, RecordTypes DEF TaskFails, Failure, SetTask, TypeOK
<1> QED BY <1>1, <1>2, <1>3, <1>4, <1>5, <1>6 DEF TaskProgress

\* Steps of the listeners keep the types.
LEMMA ListenerTypes ==
  ASSUME TypeOK, Subscribe \/ \E r \in Requests : HandleEvent(r)
  PROVE  TypeOK'
<1>1. CASE Subscribe
  BY <1>1 DEF Subscribe, TypeOK
<1>2. ASSUME NEW r \in Requests, HandleEvent(r) PROVE TypeOK'
  BY <1>2, RecordTypes DEF HandleEvent, SetTask, TypeOK
<1> QED BY <1>1, <1>2

\* What a scan of the transactions `seen' does when it overlooks `missed': the
\* requests in `paid' have a payment, and the task of each awaits pick[r].
MatchResult(g, seen, next, missed, paid, pick) ==
  /\ paid = {RequestOf(tx) : tx \in {u \in seen \ missed : RequestOf(u) \in executor[g].open}}
  /\ pick \in [paid -> seen] /\ \A r \in paid : RequestOf(pick[r]) = r
  /\ missed \subseteq seen /\ IF missed = {} THEN UNCHANGED failures ELSE Failure
  /\ exposed' = exposed \cup {RequestOf(tx) : tx \in missed}
  /\ tasks' = [t \in Tasks |-> IF t[1] = g /\ t[2] = "executor" /\ t[3] \in paid
                               THEN AwaitTask(pick[t[3]]) ELSE tasks[t]]
  /\ executor' = [executor EXCEPT ![g] =
                    [pc |-> next, open |-> executor[g].open \ paid, mempool |-> {}]]

\* Every scan has such a result.
LEMMA MatchHasResult ==
  ASSUME NEW g, NEW seen, NEW next, Match(g, seen, next)
  PROVE  \E missed, paid, pick : MatchResult(g, seen, next, missed, paid, pick)
<1> DEFINE F(missed) == {tx \in seen \ missed : RequestOf(tx) \in executor[g].open}
           P(missed) == {RequestOf(tx) : tx \in F(missed)}
<1>1. PICK missed \in {{}} \cup {{tx} : tx \in seen} :
        /\ IF missed = {} THEN UNCHANGED failures ELSE Failure
        /\ Expose({RequestOf(tx) : tx \in missed})
        /\ \E pick \in [P(missed) -> F(missed)] :
            /\ \A r \in P(missed) : RequestOf(pick[r]) = r
            /\ tasks' = [t \in Tasks |-> IF t[1] = g /\ t[2] = "executor" /\ t[3] \in P(missed)
                                         THEN AwaitTask(pick[t[3]]) ELSE tasks[t]]
        /\ SetExecutor(g, [pc |-> next, open |-> executor[g].open \ P(missed), mempool |-> {}])
  BY Zenon DEF Match
<1>2. PICK pick \in [P(missed) -> F(missed)] :
            /\ \A r \in P(missed) : RequestOf(pick[r]) = r
            /\ tasks' = [t \in Tasks |-> IF t[1] = g /\ t[2] = "executor" /\ t[3] \in P(missed)
                                         THEN AwaitTask(pick[t[3]]) ELSE tasks[t]]
  BY <1>1, Zenon
<1>3. pick \in [P(missed) -> seen]
  BY <1>2
<1>4. missed \subseteq seen
  OBVIOUS
<1>5. MatchResult(g, seen, next, missed, P(missed), pick)
  BY <1>1, <1>2, <1>3, <1>4, Zenon DEF MatchResult, SetExecutor, Expose
<1> QED BY <1>5, Zenon

\* A scan of transactions keeps the types.
LEMMA MatchTypes ==
  ASSUME TypeOK, NEW g \in Gens, NEW seen \in SUBSET (InMempool \cup InChain),
         NEW next \in {"chain", "pay"}, Match(g, seen, next),
         UNCHANGED <<status, clock, payments, listening, inbox>>
  PROVE  TypeOK'
<1>1. PICK missed, paid, pick : MatchResult(g, seen, next, missed, paid, pick)
  BY MatchHasResult
<1>2. pick \in [paid -> seen] /\ tasks' = [t \in Tasks |->
                                    IF t[1] = g /\ t[2] = "executor" /\ t[3] \in paid
                                    THEN AwaitTask(pick[t[3]]) ELSE tasks[t]]
  BY <1>1, Zenon DEF MatchResult
<1>3. \A r \in paid : AwaitTask(pick[r]) \in TaskRecord
  BY <1>2, TxTypes, RecordTypes
<1>4. tasks' \in [Tasks -> TaskRecord]
  BY <1>2, <1>3 DEF TypeOK
<1>5. [pc |-> next, open |-> executor[g].open \ paid, mempool |-> {}] \in ExecutorRecord
  BY DEF TypeOK, ExecutorRecord
<1>6. executor' \in [Gens -> ExecutorRecord]
  <2>1. executor' = [executor EXCEPT ![g] =
                       [pc |-> next, open |-> executor[g].open \ paid, mempool |-> {}]]
    BY <1>1, Zenon DEF MatchResult
  <2> QED BY <1>5, <2>1 DEF TypeOK
<1>7. failures' \in Nat
  <2>1. IF missed = {} THEN UNCHANGED failures ELSE Failure
    BY <1>1, Zenon DEF MatchResult
  <2> QED BY <2>1 DEF Failure, TypeOK
<1>8. exposed' \subseteq Requests
  <2>1. missed \subseteq seen /\ exposed' = exposed \cup {RequestOf(tx) : tx \in missed}
    BY <1>1, Zenon DEF MatchResult
  <2> QED BY <2>1, TxTypes DEF TypeOK
<1> QED BY <1>4, <1>6, <1>7, <1>8 DEF TypeOK

\* Steps of an executor keep the types.
LEMMA ExecutorTypes ==
  ASSUME TypeOK, NEW g \in Gens, ExecutorProgress(g) \/ ExecutorFails(g)
  PROVE  TypeOK'
<1>1. CASE QueryOpenRequests(g)
  <2>1. [pc |-> "mempool", open |-> Pending, mempool |-> {}] \in ExecutorRecord
    BY DEF ExecutorRecord, Pending
  <2>2. exposed' \subseteq Requests
    BY <1>1 DEF QueryOpenRequests, Expose, Pending, TypeOK
  <2> QED BY <1>1, <2>1, <2>2, RecordTypes DEF QueryOpenRequests, SetExecutor, TypeOK
<1>2. CASE ListMempool(g)
  <2>1. [executor[g] EXCEPT !.pc = "fetch", !.mempool = InMempool] \in ExecutorRecord
    BY TxTypes DEF ExecutorRecord, TypeOK
  <2> QED BY <1>2, <2>1 DEF ListMempool, SetExecutor, TypeOK
<1>3. CASE FetchMempool(g)
  <2> DEFINE seen == executor[g].mempool \cap InMempool
  <2>1. seen \in SUBSET (InMempool \cup InChain)
    OBVIOUS
  <2>2. Match(g, seen, "chain") /\ UNCHANGED <<status, clock, payments, listening, inbox>>
    BY <1>3 DEF FetchMempool
  <2> HIDE DEF seen
  <2> QED BY <2>1, <2>2, MatchTypes
<1>4. CASE ScanChain(g)
  <2>1. InChain \in SUBSET (InMempool \cup InChain)
    OBVIOUS
  <2> QED BY <1>4, <2>1, MatchTypes DEF ScanChain
<1>5. CASE PayRemaining(g)
  BY <1>5, RecordTypes DEF PayRemaining, SetExecutor, TypeOK
<1>6. CASE ExecutorFails(g)
  BY <1>6, RecordTypes DEF ExecutorFails, Failure, SetExecutor, TypeOK
<1> QED BY <1>1, <1>2, <1>3, <1>4, <1>5, <1>6 DEF ExecutorProgress

\* A restart or a crash keeps the types.
LEMMA RestartTypes ==
  ASSUME TypeOK, PeriodicRestart \/ Shutdown \/ Crash
  PROVE  TypeOK'
<1>1. ASSUME Restart, failures' \in Nat PROVE TypeOK'
  <2>1. executor' \in [Gens -> ExecutorRecord]
    BY <1>1, RecordTypes DEF Restart, Gens, TypeOK
  <2>2. tasks' \in [Tasks -> TaskRecord]
    BY <1>1, RecordTypes DEF Restart, TypeOK
  <2> QED BY <1>1, <2>1, <2>2 DEF Restart, TypeOK
<1>2. CASE Crash
  <2>1. executor' \in [Gens -> ExecutorRecord] /\ tasks' \in [Tasks -> TaskRecord]
    BY <1>2, RecordTypes DEF Crash
  <2>2. failures' \in Nat
    BY <1>2 DEF Crash, Failure, TypeOK
  <2> QED BY <1>2, <2>1, <2>2 DEF Crash, TypeOK
<1> QED BY <1>1, <1>2 DEF PeriodicRestart, Shutdown, Failure, TypeOK

\* Every step keeps the types.
LEMMA NextTypes == TypeOK /\ [Next]_vars => TypeOK'
<1> SUFFICES ASSUME TypeOK, [Next]_vars PROVE TypeOK'
  OBVIOUS
<1>1. CASE UNCHANGED vars
  BY <1>1 DEF vars, TypeOK
<1> QED BY <1>1, ChainTypes, TaskTypes, ListenerTypes, ExecutorTypes, RestartTypes
        DEF Next, Progress, Failures

\* The variables of the payment service keep their types, for every value of
\* the constants.
THEOREM PaymentTypeCorrect == Spec => []TypeOK
BY InitTypes, NextTypes, PTL DEF Spec

-----------------------------------------------------------------------------
(* The inductive invariant.                                                *)

Unpaid(r) == \A i \in DOMAIN payments : payments[i].request # r

\* No task is at work on the request.
Untasked(r) == \A t \in Tasks : t[3] = r => tasks[t].pc = "none"

Open(g) == executor[g].open

\* An executor has open requests between its query and its last step only.
IdleExecutors == \A g \in Gens : executor[g].pc \in {"query", "done"} => Open(g) = {}

\* Nobody knows of a request before it is opened.
UnopenedIsUnknown ==
  \A r \in Requests : status[r] = "None" =>
    Unpaid(r) /\ Untasked(r) /\ r \notin inbox /\ \A g \in Gens : r \notin Open(g)

\* An unexposed request is with at most one of the listener's inbox, the
\* executors and the tasks.
Owned(r) ==
  /\ r \in inbox => Unpaid(r) /\ Untasked(r) /\ \A g \in Gens : r \notin Open(g)
  /\ \A g \in Gens : r \in Open(g) =>
       Untasked(r) /\ \A h \in Gens \ {g} : r \notin Open(h)
  /\ \A t, u \in Tasks :
       tasks[t].pc # "none" /\ tasks[u].pc # "none" /\ t[3] = r /\ u[3] = r => t = u

OneOwner == \A r \in Requests \ exposed : Owned(r)

\* A task that is going to pay has not paid, and waits for its own payment later.
TasksPayOnce ==
  \A t \in Tasks :
    /\ tasks[t].pc \in {"check", "send"} => Unpaid(t[3]) \/ t[3] \in exposed
    /\ tasks[t].pc \in {"inclusion", "execute"} =>
         tasks[t].tx[1] \in DOMAIN payments /\ RequestOf(tasks[t].tx) = t[3]

\* A payment of an open request is where the executor has yet to look: what was
\* in the mempool when it was listed is still there or in the chain.
ScanIsComplete ==
  \A g \in Gens : \A i \in DOMAIN payments : payments[i].request \in Open(g) \ exposed =>
    /\ executor[g].pc = "fetch" =>
         payments[i].mined # 0 \/ <<i, payments[i].txid>> \in executor[g].mempool
    /\ executor[g].pc = "chain" => payments[i].mined # 0
    /\ executor[g].pc # "pay"

PaymentInv == /\ IdleExecutors /\ UnopenedIsUnknown /\ OneOwner
              /\ TasksPayOnce /\ ScanIsComplete /\ UnexposedPaidOnce

\* What a request's status says about its payment and its clock.
SettledByPayment ==
  /\ \A r \in Requests : /\ status[r] = "Executed" => ~Unpaid(r)
                         /\ status[r] = "Cancelled" => clock[r] = "expired"
  /\ \A t \in Tasks : tasks[t].pc = "send" => clock[t[3]] # "expired" \/ t[3] \in exposed

-----------------------------------------------------------------------------
(* The invariant is inductive.                                             *)

\* The initial state satisfies the invariant.
LEMMA InitInv == Init => PaymentInv
<1> SUFFICES ASSUME Init PROVE PaymentInv
  OBVIOUS
<1>1. \A g \in Gens : executor[g] \in {Fresh, Idle}
  BY DEF Init, Gens
<1>2. \A g \in Gens : Open(g) = {}
  BY <1>1 DEF Open, Fresh, Idle
<1>3. \A t \in Tasks : tasks[t].pc = "none"
  BY DEF Init, NoTask
<1>4. DOMAIN payments = {} /\ inbox = {}
  BY DEF Init
<1>5. IdleExecutors /\ UnopenedIsUnknown
  BY <1>2, <1>3, <1>4 DEF IdleExecutors, UnopenedIsUnknown, Unpaid, Untasked
<1>6. OneOwner
  BY <1>2, <1>3, <1>4 DEF OneOwner, Owned
<1> QED BY <1>3, <1>4, <1>5, <1>6
        DEF PaymentInv, TasksPayOnce, ScanIsComplete, UnexposedPaidOnce

\* A step that leaves payments, executors and tasks alone keeps the parts of the
\* invariant that speak of nothing else; to expose requests only weakens them.
LEMMA UntouchedParts ==
  ASSUME PaymentInv, UNCHANGED <<payments, executor, tasks>>, exposed \subseteq exposed'
  PROVE  IdleExecutors' /\ TasksPayOnce' /\ ScanIsComplete' /\ UnexposedPaidOnce'
<1>1. IdleExecutors' /\ UnexposedPaidOnce'
  BY DEF PaymentInv, IdleExecutors, UnexposedPaidOnce, Open
<1>2. TasksPayOnce'
  BY DEF PaymentInv, TasksPayOnce, Unpaid, RequestOf
<1>3. ScanIsComplete'
  BY DEF PaymentInv, ScanIsComplete, Open
<1> QED BY <1>1, <1>2, <1>3

\* A request keeps its one owner if neither its tasks nor its executors change
\* and it neither enters the inbox nor is paid.
LEMMA OwnedStays ==
  ASSUME NEW r, Owned(r), r \in inbox' => r \in inbox /\ Unpaid(r)',
         \A t \in Tasks : t[3] = r => tasks'[t].pc = "none" \/ tasks[t].pc # "none",
         \A g \in Gens : r \in Open(g)' => r \in Open(g)
  PROVE  Owned(r)'
<1>1. Untasked(r) => Untasked(r)'
  BY DEF Untasked
<1> QED BY <1>1 DEF Owned

\* Opening a request adds it to the inbox of a subscribed listener only; the
\* other steps of the chains leave the owners alone.
LEMMA ChainInv == TypeOK /\ PaymentInv /\ Chains => PaymentInv'
<1> SUFFICES ASSUME TypeOK, PaymentInv, Chains PROVE PaymentInv'
  OBVIOUS
<1>1. ASSUME NEW r \in Requests, RequestOpened(r) PROVE PaymentInv'
  <2>1. /\ status[r] = "None" /\ status' = [status EXCEPT ![r] = "Pending"]
        /\ inbox' \subseteq inbox \cup {r}
        /\ UNCHANGED <<payments, executor, tasks, exposed>>
    BY <1>1 DEF RequestOpened
  <2>2. IdleExecutors' /\ TasksPayOnce' /\ ScanIsComplete' /\ UnexposedPaidOnce'
    BY <2>1, UntouchedParts
  <2>3. \A q : /\ Unpaid(q)' <=> Unpaid(q) 
               /\ Untasked(q)' <=> Untasked(q)
               /\ \A g \in Gens : Open(g)' = Open(g)
    BY <2>1 DEF Unpaid, Untasked, Open
  <2>4. UnopenedIsUnknown'
    BY <2>1, <2>3 DEF PaymentInv, UnopenedIsUnknown, TypeOK
  <2>5. ASSUME NEW q \in Requests \ exposed, Owned(q) PROVE Owned(q)'
    <3>1. CASE q = r
      <4>1. Unpaid(r) /\ Untasked(r) /\ \A g \in Gens : r \notin Open(g)
        BY <2>1 DEF PaymentInv, UnopenedIsUnknown
      <4> QED BY <2>3, <3>1, <4>1 DEF Owned, Untasked
    <3>2. CASE q # r
      <4>1. q \in inbox' => q \in inbox /\ Unpaid(q)'
        BY <2>1, <2>3, <2>5, <3>2 DEF Owned
      <4> QED BY <2>1, <2>3, <2>5, <4>1, OwnedStays
    <3> QED BY <3>1, <3>2
  <2>6. OneOwner'
    BY <2>1, <2>5 DEF PaymentInv, OneOwner
  <2> QED BY <2>2, <2>4, <2>6 DEF PaymentInv
<1>2. ASSUME NEW r \in Requests, TimePasses(r) \/ RequestCancelled(r) PROVE PaymentInv'
  <2>1. /\ UNCHANGED <<payments, executor, inbox, tasks>> /\ exposed \subseteq exposed'
        /\ \A q \in Requests : status'[q] = "None" => status[q] = "None"
    BY <1>2 DEF TimePasses, RequestCancelled, Expose, TypeOK
  <2>2. IdleExecutors' /\ TasksPayOnce' /\ ScanIsComplete' /\ UnexposedPaidOnce'
    BY <2>1, UntouchedParts
  <2>3. UnopenedIsUnknown'
    BY <2>1 DEF PaymentInv, UnopenedIsUnknown, Unpaid, Untasked, Open
  <2>4. OneOwner'
    BY <2>1 DEF PaymentInv, OneOwner, Owned, Unpaid, Untasked, Open
  <2> QED BY <2>2, <2>3, <2>4 DEF PaymentInv
<1>3. ASSUME NEW i \in DOMAIN payments, Mine(i) PROVE PaymentInv'
  <2>1. /\ DOMAIN payments' = DOMAIN payments
        /\ \A j \in DOMAIN payments :
             /\ payments'[j].request = payments[j].request
             /\ payments'[j].txid = payments[j].txid
             /\ payments'[j].mined = payments[j].mined \/ payments'[j].mined # 0
    <3>1. PICK n \in 1..payments[i].txid : payments' = [payments EXCEPT ![i].mined = n]
      BY <1>3 DEF Mine
    <3>2. n # 0
      BY PaymentAt
    <3> QED BY <3>1, <3>2, PaymentAt DEF PaymentRecord
  <2>2. UNCHANGED <<status, executor, inbox, tasks, exposed>>
    BY <1>3 DEF Mine
  <2>3. \A q : Unpaid(q)' <=> Unpaid(q)
    BY <2>1 DEF Unpaid
  <2>4. IdleExecutors' /\ UnopenedIsUnknown'
    BY <2>2, <2>3 DEF PaymentInv, IdleExecutors, UnopenedIsUnknown, Untasked, Open
  <2>5. OneOwner'
    BY <2>2, <2>3 DEF PaymentInv, OneOwner, Owned, Untasked, Open
  <2>6. TasksPayOnce' /\ UnexposedPaidOnce'
    BY <2>1, <2>2, <2>3 DEF PaymentInv, TasksPayOnce, UnexposedPaidOnce, RequestOf
  <2>7. ScanIsComplete'
    BY <2>1, <2>2 DEF PaymentInv, ScanIsComplete, Open
  <2> QED BY <2>4, <2>5, <2>6, <2>7 DEF PaymentInv
<1> QED BY <1>1, <1>2, <1>3 DEF Chains

\* A task that ends, is allowed to pay or has its payment included owns its
\* request as before.
LEMMA TaskAdvances ==
  ASSUME TypeOK, PaymentInv, NEW t \in Tasks, NEW task \in TaskRecord,
         tasks[t].pc # "none", tasks' = [tasks EXCEPT ![t] = task],
         \/ task.pc = "none"
         \/ task.pc = "send" /\ tasks[t].pc = "check"
         \/ task.pc = "execute" /\ tasks[t].pc = "inclusion" /\ task.tx = tasks[t].tx,
         \A r \in Requests : status'[r] = "None" => status[r] = "None",
         UNCHANGED <<payments, executor, inbox, exposed>>
  PROVE  PaymentInv'
<1>1. /\ tasks'[t] = task
      /\ \A u \in Tasks : u # t => tasks'[u] = tasks[u]
      /\ \A u \in Tasks : tasks'[u].pc # "none" => tasks[u].pc # "none"
  BY DEF TypeOK
<1>2. \A q : /\ Unpaid(q)' <=> Unpaid(q) 
             /\ Untasked(q) => Untasked(q)'
             /\ \A g \in Gens : Open(g)' = Open(g)
  BY <1>1 DEF Unpaid, Untasked, Open
<1>3. IdleExecutors' /\ UnopenedIsUnknown'
  BY <1>2 DEF PaymentInv, IdleExecutors, UnopenedIsUnknown, Open
<1>4. OneOwner'
  <2>1. ASSUME NEW q \in Requests, Owned(q) PROVE Owned(q)'
    BY <1>1, <1>2, <2>1, OwnedStays DEF Owned
  <2> QED BY <2>1 DEF PaymentInv, OneOwner
<1>5. TasksPayOnce'
  BY <1>1, <1>2 DEF PaymentInv, TasksPayOnce, RequestOf
<1>6. ScanIsComplete' /\ UnexposedPaidOnce'
  BY DEF PaymentInv, ScanIsComplete, UnexposedPaidOnce, Open
<1> QED BY <1>3, <1>4, <1>5, <1>6 DEF PaymentInv

\* The only task of an unexposed request pays it, and nobody had paid it before.
LEMMA SendInv ==
  ASSUME TypeOK, PaymentInv, NEW t \in Tasks, SendPayment(t)
  PROVE  PaymentInv'
<1> DEFINE k == Len(payments) + 1
<1>1. /\ DOMAIN payments' = DOMAIN payments \cup {k} /\ k \notin DOMAIN payments
      /\ \A j \in DOMAIN payments : payments'[j] = payments[j]
      /\ payments'[k].request = t[3] /\ payments'[k].mined = 0
  BY DEF SendPayment, TypeOK
<1>2. /\ tasks'[t] = AwaitTask(<<k, 1>>)
      /\ \A u \in Tasks : u # t => tasks'[u] = tasks[u]
      /\ tasks[t].pc = "send"
  BY DEF SendPayment, SetTask, TypeOK
<1>3. tasks'[t].pc = "inclusion" /\ tasks'[t].tx[1] = k
  BY <1>2 DEF AwaitTask
<1>4. UNCHANGED <<status, executor, inbox, exposed>>
  BY DEF SendPayment
<1>5. t[3] \in Requests
  BY TaskParts
<1>6. ~Untasked(t[3]) /\ (Unpaid(t[3]) \/ t[3] \in exposed)
  BY <1>2 DEF PaymentInv, TasksPayOnce, Untasked
<1>7. /\ status[t[3]] # "None"
      /\ t[3] \notin exposed => t[3] \notin inbox /\ \A g \in Gens : t[3] \notin Open(g)
  <2>1. t[3] \notin exposed => Owned(t[3])
    BY <1>5 DEF PaymentInv, OneOwner
  <2> QED BY <1>5, <1>6, <2>1 DEF PaymentInv, UnopenedIsUnknown, Owned
<1>8. /\ \A r : r # t[3] => (Unpaid(r) => Unpaid(r)') /\ (Untasked(r) => Untasked(r)')
      /\ \A g \in Gens : Open(g)' = Open(g)
      /\ \A u \in Tasks : tasks'[u].pc # "none" => tasks[u].pc # "none"
  BY <1>1, <1>2, <1>4 DEF Unpaid, Untasked, Open
<1> HIDE DEF k
<1>9. IdleExecutors' /\ UnopenedIsUnknown'
  BY <1>4, <1>7, <1>8 DEF PaymentInv, IdleExecutors, UnopenedIsUnknown, Open
<1>10. OneOwner'
  <2>1. ASSUME NEW q \in Requests \ exposed, Owned(q) PROVE Owned(q)'
    <3>1. q \in inbox' => q \in inbox /\ Unpaid(q)'
      BY <1>4, <1>7, <1>8, <2>1 DEF Owned
    <3> QED BY <1>8, <2>1, <3>1, OwnedStays
  <2> QED BY <1>4, <2>1 DEF PaymentInv, OneOwner
<1>11. TasksPayOnce'
  <2> SUFFICES ASSUME NEW u \in Tasks
               PROVE  /\ tasks'[u].pc \in {"check", "send"} => Unpaid(u[3])' \/ u[3] \in exposed'
                      /\ tasks'[u].pc \in {"inclusion", "execute"} =>
                           tasks'[u].tx[1] \in DOMAIN payments' /\ RequestOf(tasks[u].tx)' = u[3]
    BY DEF TasksPayOnce
  <2>1. CASE u = t
    BY <1>1, <1>3, <2>1 DEF RequestOf
  <2>2. CASE u # t
    <3>1. tasks'[u] = tasks[u]
      BY <1>2, <2>2
    <3>2. tasks[u].pc # "none" => u[3] # t[3] \/ t[3] \in exposed
      BY <1>2, <1>5, <2>2 DEF PaymentInv, OneOwner, Owned
    <3>3. tasks'[u].pc \in {"check", "send"} => Unpaid(u[3])' \/ u[3] \in exposed'
      BY <1>4, <1>8, <3>1, <3>2 DEF PaymentInv, TasksPayOnce
    <3>4. tasks'[u].pc \in {"inclusion", "execute"} =>
            tasks'[u].tx[1] \in DOMAIN payments' /\ RequestOf(tasks[u].tx)' = u[3]
      BY <1>1, <3>1 DEF PaymentInv, TasksPayOnce, RequestOf
    <3> QED BY <3>3, <3>4
  <2> QED BY <2>1, <2>2
<1>12. ScanIsComplete'
  BY <1>1, <1>4, <1>7 DEF PaymentInv, ScanIsComplete, Open
<1>13. UnexposedPaidOnce'
  BY <1>1, <1>4, <1>6 DEF PaymentInv, UnexposedPaidOnce, Unpaid
<1> QED BY <1>9, <1>10, <1>11, <1>12, <1>13 DEF PaymentInv

\* The fee of a payment is bumped by its own task: if its request is unexposed
\* no executor is looking for it.
LEMMA BumpInv ==
  ASSUME TypeOK, PaymentInv, NEW t \in Tasks, BumpFee(t)
  PROVE  PaymentInv'
<1>1. PICK i \in DOMAIN payments :
           /\ tasks[t].tx = <<i, payments[i].txid>> /\ tasks[t].pc = "inclusion"
           /\ payments' = [payments EXCEPT ![i].txid = payments[i].txid + 1]
           /\ tasks' = [tasks EXCEPT ![t] = AwaitTask(<<i, payments[i].txid + 1>>)]
           /\ UNCHANGED <<status, clock, executor, listening, inbox, exposed, failures>>
  BY BumpedPayment
<1>2. payments[i].request = t[3] /\ t[3] \in Requests
  <2>1. tasks[t].tx[1] = i
    BY <1>1
  <2> QED BY <1>1, <2>1, TaskParts DEF PaymentInv, TasksPayOnce, RequestOf
<1>3. /\ DOMAIN payments' = DOMAIN payments
      /\ \A j \in DOMAIN payments : j # i => payments'[j] = payments[j]
      /\ \A j \in DOMAIN payments : payments'[j].request = payments[j].request
  <2>1. payments'[i].request = payments[i].request
    BY <1>1, PaymentAt DEF PaymentRecord, TypeOK
  <2> QED BY <1>1, <2>1 DEF TypeOK
<1>4. /\ tasks'[t].pc = "inclusion" /\ tasks'[t].tx[1] = i
      /\ \A u \in Tasks : u # t => tasks'[u] = tasks[u]
  BY <1>1 DEF TypeOK, AwaitTask
<1>5. \A u \in Tasks : tasks'[u].pc = tasks[u].pc
  BY <1>1, <1>4
<1>6. t[3] \notin exposed => \A g \in Gens : t[3] \notin Open(g)
  BY <1>1, <1>2 DEF PaymentInv, OneOwner, Owned, Untasked
<1>7. \A q : /\ Unpaid(q)' <=> Unpaid(q)
             /\ Untasked(q)' <=> Untasked(q)
             /\ \A g \in Gens : Open(g)' = Open(g)
  BY <1>1, <1>3, <1>5 DEF Unpaid, Untasked, Open
<1>8. IdleExecutors' /\ UnopenedIsUnknown'
  BY <1>1, <1>7 DEF PaymentInv, IdleExecutors, UnopenedIsUnknown, Open
<1>9. OneOwner'
  BY <1>1, <1>5, <1>7 DEF PaymentInv, OneOwner, Owned
<1>10. TasksPayOnce'
  BY <1>1, <1>2, <1>3, <1>4, <1>5, <1>7 DEF PaymentInv, TasksPayOnce, RequestOf
<1>11. ScanIsComplete'
  BY <1>1, <1>2, <1>3, <1>6 DEF PaymentInv, ScanIsComplete, Open
<1>12. UnexposedPaidOnce'
  BY <1>1, <1>3 DEF PaymentInv, UnexposedPaidOnce
<1> QED BY <1>8, <1>9, <1>10, <1>11, <1>12 DEF PaymentInv

\* Steps of a task keep the invariant.
LEMMA TaskInv ==
  ASSUME TypeOK, PaymentInv, NEW t \in Tasks, TaskProgress(t) \/ BumpFee(t) \/ TaskFails(t)
  PROVE  PaymentInv'
<1>0. tasks[t] \in TaskRecord /\ t[3] \in Requests
  BY TaskParts DEF TypeOK
<1>1. CASE CheckDeadline(t)
  <2> DEFINE task == IF MayStillPay(t[3]) THEN [pc |-> "send", tx |-> NoTx] ELSE NoTask
  <2>1. task \in TaskRecord /\ (task.pc = "none" \/ task.pc = "send")
    BY RecordTypes DEF NoTask
  <2>2. /\ tasks[t].pc = "check" /\ tasks' = [tasks EXCEPT ![t] = task]
        /\ UNCHANGED <<status, payments, executor, inbox, exposed>>
    BY <1>1 DEF CheckDeadline, SetTask
  <2> HIDE DEF task
  <2> QED BY <2>1, <2>2, TaskAdvances
<1>2. CASE Included(t)
  <2> DEFINE task == [tasks[t] EXCEPT !.pc = "execute"]
  <2>1. task \in TaskRecord /\ task.pc = "execute" /\ task.tx = tasks[t].tx
    BY <1>0 DEF TaskRecord
  <2>2. /\ tasks[t].pc = "inclusion" /\ tasks' = [tasks EXCEPT ![t] = task]
        /\ UNCHANGED <<status, payments, executor, inbox, exposed>>
    BY <1>2 DEF Included, SetTask
  <2> HIDE DEF task
  <2> QED BY <2>1, <2>2, TaskAdvances
<1>3. CASE Execute(t)
  <2>1. \A r \in Requests : status'[r] = "None" => status[r] = "None"
    BY <1>0, <1>3 DEF Execute, TypeOK
  <2>2. NoTask \in TaskRecord /\ NoTask.pc = "none"
    BY RecordTypes DEF NoTask
  <2>3. /\ tasks[t].pc # "none" /\ tasks' = [tasks EXCEPT ![t] = NoTask]
        /\ UNCHANGED <<payments, executor, inbox, exposed>>
    BY <1>3 DEF Execute, SetTask
  <2> QED BY <2>1, <2>2, <2>3, TaskAdvances
<1>4. CASE TaskFails(t)
  <2>1. NoTask \in TaskRecord /\ NoTask.pc = "none"
    BY RecordTypes DEF NoTask
  <2>2. /\ tasks[t].pc # "none" /\ tasks' = [tasks EXCEPT ![t] = NoTask]
        /\ UNCHANGED <<status, payments, executor, inbox, exposed>>
    BY <1>4 DEF TaskFails, SetTask
  <2> QED BY <2>1, <2>2, TaskAdvances
<1> QED BY <1>1, <1>2, <1>3, <1>4, SendInv, BumpInv DEF TaskProgress

\* An event is handled by the first task of its request, if that is unexposed.
LEMMA ListenerInv ==
  ASSUME TypeOK, PaymentInv, Subscribe \/ \E r \in Requests : HandleEvent(r)
  PROVE  PaymentInv'
<1>1. CASE Subscribe
  <2>1. UNCHANGED <<status, payments, executor, inbox, tasks, exposed>>
    BY <1>1 DEF Subscribe
  <2>2. IdleExecutors' /\ TasksPayOnce' /\ ScanIsComplete' /\ UnexposedPaidOnce'
    BY <2>1, UntouchedParts
  <2>3. UnopenedIsUnknown' /\ OneOwner'
    BY <2>1 DEF PaymentInv, UnopenedIsUnknown, OneOwner, Owned, Untasked, Unpaid, Open
  <2> QED BY <2>2, <2>3 DEF PaymentInv
<1>2. ASSUME NEW r \in Requests, HandleEvent(r) PROVE PaymentInv'
  <2> DEFINE t == <<"cur", "listener", r>>
  <2>1. t \in Tasks /\ t[3] = r
    BY DEF Tasks, Gens, Origins
  <2>2. /\ r \in inbox /\ inbox' = inbox \ {r}
        /\ tasks'[t] = CheckTask /\ \A u \in Tasks : u # t => tasks'[u] = tasks[u]
        /\ UNCHANGED <<status, payments, executor, exposed>>
    BY <1>2, <2>1 DEF HandleEvent, SetTask, TypeOK
  <2>3. tasks'[t].pc = "check"
    BY <2>2 DEF CheckTask
  <2> HIDE DEF t
  <2>4. status[r] # "None"
    BY <2>2 DEF PaymentInv, UnopenedIsUnknown
  <2>5. r \notin exposed => Unpaid(r) /\ Untasked(r) /\ \A g \in Gens : r \notin Open(g)
    BY <2>2 DEF PaymentInv, OneOwner, Owned
  <2>6. \A u \in Tasks : u[3] # r => tasks'[u] = tasks[u]
    BY <2>1, <2>2
  <2>7. /\ \A q : /\ Unpaid(q)' <=> Unpaid(q)
                  /\ q # r => (Untasked(q)' <=> Untasked(q))
        /\ \A g \in Gens : Open(g)' = Open(g)
    BY <2>2, <2>6 DEF Unpaid, Untasked, Open
  <2>8. IdleExecutors' /\ UnopenedIsUnknown'
    BY <2>2, <2>4, <2>7 DEF PaymentInv, IdleExecutors, UnopenedIsUnknown, Open
  <2>9. OneOwner'
    <3>1. ASSUME NEW q \in Requests \ exposed, Owned(q) PROVE Owned(q)'
      <4>1. CASE q = r
        <5>1. \A u \in Tasks : u[3] = r /\ tasks'[u].pc # "none" => u = t
          BY <2>2, <2>5, <4>1 DEF Untasked
        <5> QED BY <2>2, <2>5, <2>7, <4>1, <5>1 DEF Owned
      <4>2. CASE q # r
        <5>1. q \in inbox' => q \in inbox /\ Unpaid(q)'
          BY <2>2, <2>7, <3>1 DEF Owned
        <5> QED BY <2>6, <2>7, <3>1, <4>2, <5>1, OwnedStays
      <4> QED BY <4>1, <4>2
    <3> QED BY <2>2, <3>1 DEF PaymentInv, OneOwner
  <2>10. TasksPayOnce'
    BY <2>1, <2>2, <2>3, <2>5, <2>7 DEF PaymentInv, TasksPayOnce, RequestOf
  <2>11. ScanIsComplete' /\ UnexposedPaidOnce'
    BY <2>2 DEF PaymentInv, ScanIsComplete, UnexposedPaidOnce, Open
  <2> QED BY <2>8, <2>9, <2>10, <2>11 DEF PaymentInv
<1> QED BY <1>1, <1>2

\* A scan: a task awaits a payment of every open request with a payment among
\* those read; what stays open is exposed or has no payment among those seen.
LEMMA MatchInv ==
  ASSUME TypeOK, PaymentInv, NEW g \in Gens, NEW next \in {"chain", "pay"},
         executor[g].pc \in {"fetch", "chain"},
         NEW seen \in SUBSET (InMempool \cup InChain),
         Match(g, seen, next),
         \A i \in DOMAIN payments :
           /\ payments[i].request \in Open(g) \ exposed
           /\ next = "pay" \/ payments[i].mined = 0
           => \E n : <<i, n>> \in seen,
         UNCHANGED <<status, payments, inbox>>
  PROVE  PaymentInv'
<1>1. PICK missed, paid, pick : MatchResult(g, seen, next, missed, paid, pick)
  BY MatchHasResult
<1>2. /\ paid = {RequestOf(tx) : tx \in {u \in seen \ missed : RequestOf(u) \in Open(g)}}
      /\ pick \in [paid -> seen] /\ \A r \in paid : RequestOf(pick[r]) = r
      /\ exposed' = exposed \cup {RequestOf(tx) : tx \in missed}
  BY <1>1, Zenon DEF MatchResult, Open
<1>3. /\ tasks' = [t \in Tasks |-> IF t[1] = g /\ t[2] = "executor" /\ t[3] \in paid
                                   THEN AwaitTask(pick[t[3]]) ELSE tasks[t]]
      /\ executor' = [executor EXCEPT ![g] =
                        [pc |-> next, open |-> Open(g) \ paid, mempool |-> {}]]
  BY <1>1, Zenon DEF MatchResult, Open
<1>4. /\ executor'[g].pc = next /\ Open(g)' = Open(g) \ paid
      /\ \A h \in Gens \ {g} : executor'[h] = executor[h] /\ Open(h)' = Open(h)
      /\ \A h \in Gens : Open(h)' \subseteq Open(h)
  BY <1>3 DEF TypeOK, Open
<1>5. paid \subseteq Open(g) /\ Open(g) \subseteq Requests
  BY <1>2 DEF TypeOK, ExecutorRecord, Open
<1>6. \A tx \in seen : tx[1] \in DOMAIN payments
  BY TxTypes
<1>7. \A t \in Tasks : \/ tasks'[t] = tasks[t]
                       \/ /\ t[1] = g /\ t[2] = "executor" /\ t[3] \in paid
                          /\ tasks'[t].pc = "inclusion" /\ tasks'[t].tx = pick[t[3]]
  BY <1>3 DEF AwaitTask
<1>8. \A q : Unpaid(q)' <=> Unpaid(q)
  BY DEF Unpaid
<1>9. exposed \subseteq exposed'
  BY <1>2
<1>10. IdleExecutors'
  BY <1>4 DEF PaymentInv, IdleExecutors
<1>11. UnopenedIsUnknown'
  <2>1. \A r : r \notin paid /\ Untasked(r) => Untasked(r)'
    BY <1>7 DEF Untasked
  <2> QED BY <1>4, <1>5, <1>8, <2>1 DEF PaymentInv, UnopenedIsUnknown
<1>12. OneOwner'
  <2>1. ASSUME NEW r \in Requests \ exposed, Owned(r) PROVE Owned(r)'
    <3>1. CASE r \in paid
      <4>1. Untasked(r) /\ r \notin inbox /\ \A h \in Gens : r \notin Open(h)'
        BY <1>4, <1>5, <2>1, <3>1 DEF Owned
      <4>2. \A t \in Tasks : t[3] = r /\ tasks'[t].pc # "none" => t = <<g, "executor", r>>
        BY <1>7, <4>1 DEF Untasked, Tasks
      <4> QED BY <4>1, <4>2 DEF Owned
    <3>2. CASE r \notin paid
      <4>1. r \in inbox' => r \in inbox /\ Unpaid(r)'
        BY <1>8, <2>1 DEF Owned
      <4>2. \A t \in Tasks : t[3] = r => tasks'[t] = tasks[t]
        BY <1>7, <3>2
      <4> QED BY <1>4, <2>1, <4>1, <4>2, OwnedStays
    <3> QED BY <3>1, <3>2
  <2> QED BY <1>9, <2>1 DEF PaymentInv, OneOwner
<1>13. TasksPayOnce'
  <2> SUFFICES ASSUME NEW t \in Tasks
               PROVE  /\ tasks'[t].pc \in {"check", "send"} => Unpaid(t[3])' \/ t[3] \in exposed'
                      /\ tasks'[t].pc \in {"inclusion", "execute"} =>
                           tasks'[t].tx[1] \in DOMAIN payments' /\ RequestOf(tasks[t].tx)' = t[3]
    BY DEF TasksPayOnce
  <2>1. CASE tasks'[t] = tasks[t]
    BY <1>8, <1>9, <2>1 DEF PaymentInv, TasksPayOnce, RequestOf
  <2>2. CASE t[3] \in paid /\ tasks'[t].pc = "inclusion" /\ tasks'[t].tx = pick[t[3]]
    <3>1. pick[t[3]] \in seen /\ RequestOf(pick[t[3]]) = t[3]
      BY <1>2, <2>2
    <3> QED BY <1>6, <2>2, <3>1 DEF RequestOf
  <2> QED BY <1>7, <2>1, <2>2
<1>14. ScanIsComplete'
  <2>1. ASSUME NEW i \in DOMAIN payments, payments[i].request \in (Open(g) \ paid) \ exposed'
        PROVE  next = "chain" /\ payments[i].mined # 0
    <3>1. \A n : <<i, n>> \notin seen
      BY <1>2, <2>1 DEF RequestOf
    <3> QED BY <1>9, <2>1, <3>1
  <2> QED BY <1>4, <1>9, <2>1 DEF PaymentInv, ScanIsComplete
<1>15. UnexposedPaidOnce'
  BY <1>9 DEF PaymentInv, UnexposedPaidOnce
<1> QED BY <1>10, <1>11, <1>12, <1>13, <1>14, <1>15 DEF PaymentInv

\* Reading the pending requests exposes those that are with somebody else.
LEMMA QueryInv ==
  ASSUME TypeOK, PaymentInv, NEW g \in Gens, QueryOpenRequests(g)
  PROVE  PaymentInv'
<1>1. /\ executor'[g].pc \in {"mempool", "done"} /\ Open(g)' = Pending
      /\ \A h \in Gens \ {g} : executor'[h] = executor[h] /\ Open(h)' = Open(h)
      /\ exposed' = exposed \cup {r \in Pending : Taken(r, g)}
      /\ executor'[g].pc = "done" => Pending = {}
  BY DEF QueryOpenRequests, SetExecutor, Expose, TypeOK, Open, Idle
<1>2. UNCHANGED <<status, payments, inbox, tasks>>
  BY DEF QueryOpenRequests
<1>3. \A q : (Unpaid(q)' <=> Unpaid(q)) /\ (Untasked(q)' <=> Untasked(q))
  BY <1>2 DEF Unpaid, Untasked
<1>4. \A r \in Pending \ exposed' :
         status[r] # "None" /\ r \notin inbox /\ Untasked(r) /\ \A h \in Gens \ {g} : r \notin Open(h)
  BY <1>1 DEF Taken, Pending, Untasked, Open
<1>5. IdleExecutors'
  BY <1>1 DEF PaymentInv, IdleExecutors
<1>6. UnopenedIsUnknown'
  BY <1>1, <1>2, <1>3 DEF PaymentInv, UnopenedIsUnknown, Pending
<1>7. OneOwner'
  <2>1. ASSUME NEW r \in Requests \ exposed', Owned(r) PROVE Owned(r)'
    BY <1>1, <1>2, <1>3, <1>4, <2>1 DEF Owned
  <2> QED BY <1>1, <2>1 DEF PaymentInv, OneOwner
<1>8. TasksPayOnce' /\ UnexposedPaidOnce'
  BY <1>1, <1>2, <1>3 DEF PaymentInv, TasksPayOnce, UnexposedPaidOnce, RequestOf
<1>9. ScanIsComplete'
  BY <1>1, <1>2 DEF PaymentInv, ScanIsComplete
<1> QED BY <1>5, <1>6, <1>7, <1>8, <1>9 DEF PaymentInv

\* What is left after the scan has no payment, unless it is exposed: a task is
\* allowed to pay it.
LEMMA PayInv ==
  ASSUME TypeOK, PaymentInv, NEW g \in Gens, PayRemaining(g)
  PROVE  PaymentInv'
<1>1. /\ executor[g].pc = "pay" /\ executor'[g].pc = "done" /\ Open(g)' = {}
      /\ \A h \in Gens \ {g} : executor'[h] = executor[h] /\ Open(h)' = Open(h)
      /\ \A h \in Gens : Open(h)' \subseteq Open(h)
  BY DEF PayRemaining, SetExecutor, TypeOK, Open, Idle
<1>2. UNCHANGED <<status, payments, inbox, exposed>>
  BY DEF PayRemaining
<1>3. \A t \in Tasks : \/ tasks'[t] = tasks[t]
                       \/ /\ t[1] = g /\ t[2] = "executor" /\ t[3] \in Open(g)
                          /\ tasks'[t].pc = "check"
  BY DEF PayRemaining, CheckTask, Open
<1>4. \A r \in Open(g) : Unpaid(r) \/ r \in exposed
  BY <1>1 DEF PaymentInv, ScanIsComplete, Unpaid
<1>5. \A q : /\ Unpaid(q)' <=> Unpaid(q)
             /\ q \notin Open(g) /\ Untasked(q) => Untasked(q)'
  BY <1>2, <1>3 DEF Unpaid, Untasked
<1>6. IdleExecutors'
  BY <1>1 DEF PaymentInv, IdleExecutors
<1>7. UnopenedIsUnknown'
  BY <1>1, <1>2, <1>5 DEF PaymentInv, UnopenedIsUnknown
<1>8. OneOwner'
  <2>1. ASSUME NEW r \in Requests \ exposed, Owned(r) PROVE Owned(r)'
    <3>1. CASE r \in Open(g)
      <4>1. Untasked(r) /\ r \notin inbox' /\ \A h \in Gens : r \notin Open(h)'
        BY <1>1, <1>2, <2>1, <3>1 DEF Owned
      <4>2. \A t \in Tasks : t[3] = r /\ tasks'[t].pc # "none" => t = <<g, "executor", r>>
        BY <1>3, <4>1 DEF Untasked, Tasks
      <4> QED BY <4>1, <4>2 DEF Owned
    <3>2. CASE r \notin Open(g)
      <4>1. r \in inbox' => r \in inbox /\ Unpaid(r)'
        BY <1>2, <1>5, <2>1 DEF Owned
      <4>2. \A t \in Tasks : t[3] = r => tasks'[t] = tasks[t]
        BY <1>3, <3>2
      <4> QED BY <1>1, <2>1, <4>1, <4>2, OwnedStays
    <3> QED BY <3>1, <3>2
  <2> QED BY <1>2, <2>1 DEF PaymentInv, OneOwner
<1>9. TasksPayOnce'
  BY <1>2, <1>3, <1>4, <1>5 DEF PaymentInv, TasksPayOnce, RequestOf
<1>10. ScanIsComplete' /\ UnexposedPaidOnce'
  BY <1>1, <1>2 DEF PaymentInv, ScanIsComplete, UnexposedPaidOnce
<1> QED BY <1>6, <1>7, <1>8, <1>9, <1>10 DEF PaymentInv

\* Steps of an executor keep the invariant.
LEMMA ExecutorInv ==
  ASSUME TypeOK, PaymentInv, NEW g \in Gens, ExecutorProgress(g) \/ ExecutorFails(g)
  PROVE  PaymentInv'
<1>1. CASE ListMempool(g) \/ ExecutorFails(g)
  <2>1. /\ Open(g)' \subseteq Open(g) /\ executor'[g].pc \in {"fetch", "done"}
        /\ executor'[g].pc = "fetch" => executor'[g].mempool = InMempool
        /\ executor'[g].pc = "done" => Open(g)' = {}
        /\ \A h \in Gens \ {g} : executor'[h] = executor[h] /\ Open(h)' = Open(h)
    <3>1. CASE ListMempool(g)
      <4> DEFINE e == [executor[g] EXCEPT !.pc = "fetch", !.mempool = InMempool]
      <4>1. e.pc = "fetch" /\ e.open = Open(g) /\ e.mempool = InMempool
        BY DEF TypeOK, ExecutorRecord, Open
      <4>2. executor' = [executor EXCEPT ![g] = e]
        BY <3>1 DEF ListMempool, SetExecutor
      <4> HIDE DEF e
      <4> QED BY <4>1, <4>2 DEF TypeOK, Open
    <3>2. CASE ExecutorFails(g)
      BY <3>2 DEF ExecutorFails, SetExecutor, Idle, TypeOK, Open
    <3> QED BY <1>1, <3>1, <3>2
  <2>2. UNCHANGED <<status, payments, inbox, tasks, exposed>>
    BY <1>1 DEF ListMempool, ExecutorFails
  <2>3. /\ \A q : (Unpaid(q)' <=> Unpaid(q)) /\ (Untasked(q)' <=> Untasked(q))
        /\ \A h \in Gens : Open(h)' \subseteq Open(h)
    BY <2>1, <2>2 DEF Unpaid, Untasked
  <2>4. IdleExecutors' /\ UnopenedIsUnknown'
    BY <2>1, <2>2, <2>3 DEF PaymentInv, IdleExecutors, UnopenedIsUnknown
  <2>5. OneOwner'
    <3>1. ASSUME NEW r \in Requests \ exposed, Owned(r) PROVE Owned(r)'
      <4>1. r \in inbox' => r \in inbox /\ Unpaid(r)'
        BY <2>2, <2>3, <3>1 DEF Owned
      <4> QED BY <2>2, <2>3, <3>1, <4>1, OwnedStays
    <3> QED BY <2>2, <3>1 DEF PaymentInv, OneOwner
  <2>6. TasksPayOnce' /\ UnexposedPaidOnce'
    BY <2>2, <2>3 DEF PaymentInv, TasksPayOnce, UnexposedPaidOnce, RequestOf
  <2>7. ScanIsComplete'
    BY <2>1, <2>2 DEF PaymentInv, ScanIsComplete, InMempool
  <2> QED BY <2>4, <2>5, <2>6, <2>7 DEF PaymentInv
<1>2. CASE FetchMempool(g)
  <2> DEFINE seen == executor[g].mempool \cap InMempool
  <2>1. \A i \in DOMAIN payments :
          payments[i].request \in Open(g) \ exposed /\ payments[i].mined = 0 =>
            <<i, payments[i].txid>> \in seen
    BY <1>2 DEF FetchMempool, PaymentInv, ScanIsComplete, InMempool
  <2>2. /\ Match(g, seen, "chain") /\ executor[g].pc = "fetch"
        /\ UNCHANGED <<status, payments, inbox>>
    BY <1>2 DEF FetchMempool
  <2>3. seen \in SUBSET (InMempool \cup InChain)
    OBVIOUS
  <2> HIDE DEF seen
  <2> QED BY <2>1, <2>2, <2>3, MatchInv
<1>3. CASE ScanChain(g)
  <2>1. \A i \in DOMAIN payments :
          payments[i].request \in Open(g) \ exposed => <<i, payments[i].mined>> \in InChain
    BY <1>3 DEF ScanChain, PaymentInv, ScanIsComplete, InChain
  <2>2. /\ Match(g, InChain, "pay") /\ executor[g].pc = "chain"
        /\ UNCHANGED <<status, payments, inbox>>
    BY <1>3 DEF ScanChain
  <2> QED BY <2>1, <2>2, MatchInv
<1> QED BY <1>1, <1>2, <1>3, QueryInv, PayInv DEF ExecutorProgress

\* A restart ends the tasks of the service and lets a running executor survive
\* with what it holds; nothing survives a crash.
LEMMA RestartInv ==
  ASSUME TypeOK, PaymentInv, PeriodicRestart \/ Shutdown \/ Crash
  PROVE  PaymentInv'
<1>1. UNCHANGED <<status, payments, exposed>> /\ inbox' = {} /\ Open("cur")' = {}
  BY DEF PeriodicRestart, Shutdown, Restart, Crash, Gens, Open, Fresh
<1>2. \A t \in Tasks : tasks'[t] = tasks[t] \/ tasks'[t].pc = "none"
  BY DEF PeriodicRestart, Shutdown, Restart, Crash, NoTask
<1>3. \/ executor'["old"].pc = "done" /\ Open("old")' = {}
      \/ \E g \in Gens : executor'["old"] = executor[g] /\ Open("old")' = Open(g)
  BY DEF PeriodicRestart, Shutdown, Restart, Crash, Gens, Open, Idle
<1>4. executor'["cur"].pc = "query"
  BY DEF PeriodicRestart, Shutdown, Restart, Crash, Gens, Fresh
<1>5. Gens = {"cur", "old"}
  BY DEF Gens
<1>6. \A q : (Unpaid(q)' <=> Unpaid(q)) /\ (Untasked(q) => Untasked(q)')
  BY <1>1, <1>2 DEF Unpaid, Untasked
<1>7. IdleExecutors'
  BY <1>1, <1>3, <1>5 DEF PaymentInv, IdleExecutors
<1>8. UnopenedIsUnknown'
  BY <1>1, <1>3, <1>5, <1>6 DEF PaymentInv, UnopenedIsUnknown
<1>9. OneOwner'
  <2>1. ASSUME NEW r \in Requests \ exposed, Owned(r) PROVE Owned(r)'
    <3>1. \A g \in Gens : r \in Open(g)' => g = "old" /\ Untasked(r)'
      BY <1>1, <1>3, <1>5, <1>6, <2>1 DEF Owned
    <3>2. \A t, u \in Tasks :
            tasks'[t].pc # "none" /\ tasks'[u].pc # "none" /\ t[3] = r /\ u[3] = r => t = u
      BY <1>2, <2>1 DEF Owned
    <3> QED BY <1>1, <3>1, <3>2 DEF Owned
  <2> QED BY <1>1, <2>1 DEF PaymentInv, OneOwner
<1>10. TasksPayOnce' /\ UnexposedPaidOnce'
  BY <1>1, <1>2, <1>6 DEF PaymentInv, TasksPayOnce, UnexposedPaidOnce, RequestOf
<1>11. ScanIsComplete'
  BY <1>1, <1>3, <1>4, <1>5 DEF PaymentInv, ScanIsComplete
<1> QED BY <1>7, <1>8, <1>9, <1>10, <1>11 DEF PaymentInv

\* Every step keeps the invariant.
LEMMA NextInv == TypeOK /\ PaymentInv /\ [Next]_vars => PaymentInv'
<1> SUFFICES ASSUME TypeOK, PaymentInv, [Next]_vars PROVE PaymentInv'
  OBVIOUS
<1>1. CASE UNCHANGED vars
  <2>1. UnopenedIsUnknown' /\ OneOwner'
    BY <1>1 DEF vars, PaymentInv, UnopenedIsUnknown, OneOwner, Owned, Unpaid, Untasked, Open
  <2> QED BY <1>1, <2>1, UntouchedParts DEF vars, PaymentInv
<1> QED BY <1>1, ChainInv, TaskInv, ListenerInv, ExecutorInv, RestartInv
        DEF Next, Progress, Failures

\* No unexposed request is paid twice, whatever is restarted, mined or replaced
\* while the executors look for an existing payment (execution.rs:420-421), for
\* every number of requests, payments, fee bumps and failures.
THEOREM PaidAtMostOnce == Spec => []UnexposedPaidOnce
<1>1. PaymentInv => UnexposedPaidOnce
  BY DEF PaymentInv
<1> QED BY <1>1, InitInv, NextInv, PaymentTypeCorrect, PTL DEF Spec

-----------------------------------------------------------------------------
(* What is paid is pending.                                                *)

\* The initial state has nothing settled.
LEMMA InitSettled == Init => SettledByPayment
BY TaskParts DEF Init, SettledByPayment, NoTask

\* Steps that change neither status nor clock, take no payment back and make no
\* task ready to send keep what is settled.
LEMMA QuietStep ==
  ASSUME SettledByPayment, UNCHANGED <<status, clock>>, exposed \subseteq exposed',
         \A r \in Requests : Unpaid(r)' => Unpaid(r),
         \A t \in Tasks : tasks'[t].pc = "send" => tasks[t].pc = "send"
  PROVE  SettledByPayment'
BY DEF SettledByPayment

\* Steps of the chains: only an expired request is cancelled, and a request that
\* expires under a task about to send is exposed.
LEMMA ChainSettled ==
  ASSUME TypeOK, SettledByPayment, Chains
  PROVE  SettledByPayment'
<1>1. ASSUME NEW r \in Requests, RequestOpened(r) PROVE SettledByPayment'
  BY <1>1 DEF RequestOpened, SettledByPayment, Unpaid, TypeOK
<1>2. ASSUME NEW r \in Requests, TimePasses(r) PROVE SettledByPayment'
  <2>1. /\ \A q \in Requests : q # r => clock'[q] = clock[q]
        /\ clock'[r] = "expired" =>
             \A t \in Tasks : t[3] = r /\ tasks[t].pc = "send" => r \in exposed'
        /\ exposed \subseteq exposed'
    BY <1>2 DEF TimePasses, Expose, TypeOK
  <2>2. status[r] = "Pending" /\ UNCHANGED <<status, payments, tasks>>
    BY <1>2 DEF TimePasses
  <2> QED BY <2>1, <2>2, TaskParts DEF SettledByPayment, Unpaid
<1>3. ASSUME NEW r \in Requests, RequestCancelled(r) PROVE SettledByPayment'
  BY <1>3 DEF RequestCancelled, SettledByPayment, Unpaid, TypeOK
<1>4. ASSUME NEW i \in DOMAIN payments, Mine(i) PROVE SettledByPayment'
  <2>1. \A r \in Requests : Unpaid(r)' => Unpaid(r)
    BY <1>4, PaymentAt DEF Mine, Unpaid, TypeOK, PaymentRecord
  <2> QED BY <1>4, <2>1, QuietStep DEF Mine
<1> QED BY <1>1, <1>2, <1>3, <1>4 DEF Chains

\* Steps of a task: the deadline is checked before a task sends, and what is
\* executed has a payment.
LEMMA TaskSettled ==
  ASSUME TypeOK, PaymentInv, SettledByPayment, NEW t \in Tasks,
         TaskProgress(t) \/ BumpFee(t) \/ TaskFails(t)
  PROVE  SettledByPayment'
<1>1. CASE CheckDeadline(t)
  <2>1. \A u \in Tasks : tasks'[u].pc = "send" => tasks[u].pc = "send" \/ clock[u[3]] = "open"
    BY <1>1 DEF CheckDeadline, SetTask, MayStillPay, NoTask, TypeOK
  <2>2. UNCHANGED <<status, clock, payments, exposed>>
    BY <1>1 DEF CheckDeadline
  <2> QED BY <2>1, <2>2 DEF SettledByPayment, Unpaid
<1>2. CASE SendPayment(t)
  <2>1. \A i \in DOMAIN payments : i \in DOMAIN payments' /\ payments'[i] = payments[i]
    BY <1>2 DEF SendPayment, TypeOK
  <2>3. \A r \in Requests : Unpaid(r)' => Unpaid(r)
    BY <2>1 DEF Unpaid
  <2>2. \A u \in Tasks : tasks'[u].pc = "send" => tasks[u].pc = "send"
    BY <1>2 DEF SendPayment, SetTask, AwaitTask, TypeOK
  <2> QED BY <1>2, <2>2, <2>3, QuietStep DEF SendPayment
<1>3. CASE BumpFee(t)
  <2>1. PICK i \in DOMAIN payments :
           /\ payments' = [payments EXCEPT ![i].txid = payments[i].txid + 1]
           /\ tasks' = [tasks EXCEPT ![t] = AwaitTask(<<i, payments[i].txid + 1>>)]
           /\ UNCHANGED <<status, clock, executor, listening, inbox, exposed, failures>>
    BY <1>3, BumpedPayment
  <2>2. \A r \in Requests : Unpaid(r)' => Unpaid(r)
    BY <2>1, PaymentAt DEF Unpaid, TypeOK, PaymentRecord
  <2>3. \A u \in Tasks : tasks'[u].pc = "send" => tasks[u].pc = "send"
    BY <2>1 DEF AwaitTask, TypeOK
  <2> QED BY <2>1, <2>2, <2>3, QuietStep
<1>4. CASE Included(t)
  <2>1. \A u \in Tasks : tasks'[u].pc = "send" => tasks[u].pc = "send"
    BY <1>4 DEF Included, SetTask, TypeOK, TaskRecord
  <2> QED BY <1>4, <2>1, QuietStep DEF Included, Unpaid
<1>5. CASE Execute(t)
  <2>1. \A u \in Tasks : tasks'[u].pc = "send" => tasks[u].pc = "send"
    BY <1>5 DEF Execute, SetTask, NoTask, TypeOK
  <2>2. ~Unpaid(t[3])
    BY <1>5 DEF Execute, PaymentInv, TasksPayOnce, Unpaid, RequestOf
  <2>3. t[3] \in Requests
    BY TaskParts
  <2>4. \A r \in Requests : status'[r] = status[r] \/ (r = t[3] /\ status'[r] = "Executed")
    BY <1>5, <2>3 DEF Execute, TypeOK
  <2>5. UNCHANGED <<clock, payments, exposed>>
    BY <1>5 DEF Execute
  <2> QED BY <2>1, <2>2, <2>4, <2>5 DEF SettledByPayment, Unpaid
<1>6. CASE TaskFails(t)
  <2>1. \A u \in Tasks : tasks'[u].pc = "send" => tasks[u].pc = "send"
    BY <1>6 DEF TaskFails, SetTask, NoTask, TypeOK
  <2> QED BY <1>6, <2>1, QuietStep DEF TaskFails, Unpaid
<1> QED BY <1>1, <1>2, <1>3, <1>4, <1>5, <1>6 DEF TaskProgress

\* The listeners, the executors and a restart start tasks at the deadline check
\* or after the payment, and end tasks.
LEMMA ServiceSettled ==
  ASSUME TypeOK, SettledByPayment,
         \/ Subscribe \/ \E r \in Requests : HandleEvent(r)
         \/ \E g \in Gens : ExecutorProgress(g) \/ ExecutorFails(g)
         \/ PeriodicRestart \/ Shutdown \/ Crash
  PROVE  SettledByPayment'
<1>1. ASSUME UNCHANGED <<status, clock, payments>>, exposed \subseteq exposed',
             \A t \in Tasks : tasks'[t].pc = "send" => tasks[t].pc = "send"
      PROVE  SettledByPayment'
  BY <1>1, QuietStep DEF Unpaid
<1>2. CASE Subscribe
  BY <1>1, <1>2 DEF Subscribe
<1>3. ASSUME NEW r \in Requests, HandleEvent(r) PROVE SettledByPayment'
  BY <1>1, <1>3 DEF HandleEvent, SetTask, CheckTask, TypeOK
<1>4. ASSUME NEW g \in Gens, ExecutorProgress(g) \/ ExecutorFails(g) PROVE SettledByPayment'
  <2>1. ASSUME NEW seen, NEW next, Match(g, seen, next), UNCHANGED <<status, clock, payments>>
        PROVE  SettledByPayment'
    <3>1. PICK missed, paid, pick : MatchResult(g, seen, next, missed, paid, pick)
      BY <2>1, MatchHasResult
    <3>2. /\ tasks' = [t \in Tasks |-> IF t[1] = g /\ t[2] = "executor" /\ t[3] \in paid
                                       THEN AwaitTask(pick[t[3]]) ELSE tasks[t]]
          /\ exposed' = exposed \cup {RequestOf(tx) : tx \in missed}
      BY <3>1, Zenon DEF MatchResult
    <3> QED BY <1>1, <2>1, <3>2 DEF AwaitTask
  <2>2. CASE QueryOpenRequests(g) \/ ListMempool(g) \/ ExecutorFails(g)
    BY <1>1, <2>2 DEF QueryOpenRequests, ListMempool, ExecutorFails, Expose
  <2>3. CASE FetchMempool(g) \/ ScanChain(g)
    BY <2>1, <2>3 DEF FetchMempool, ScanChain
  <2>4. CASE PayRemaining(g)
    BY <1>1, <2>4 DEF PayRemaining, CheckTask
  <2> QED BY <1>4, <2>2, <2>3, <2>4 DEF ExecutorProgress
<1>5. CASE PeriodicRestart \/ Shutdown \/ Crash
  BY <1>1, <1>5 DEF PeriodicRestart, Shutdown, Restart, Crash, NoTask
<1> QED BY <1>2, <1>3, <1>4, <1>5

\* Every step keeps what is settled.
LEMMA NextSettled ==
  TypeOK /\ PaymentInv /\ SettledByPayment /\ [Next]_vars => SettledByPayment'
<1> SUFFICES ASSUME TypeOK, PaymentInv, SettledByPayment, [Next]_vars PROVE SettledByPayment'
  OBVIOUS
<1>1. CASE UNCHANGED vars
  BY <1>1, QuietStep DEF vars, Unpaid
<1> QED BY <1>1, ChainSettled, TaskSettled, ServiceSettled DEF Next, Progress, Failures

\* A payment for the request keeps the promise.
MayPay(r) == r \in exposed \/ status[r] = "Pending"

\* Only sending a payment adds one, and its request is pending or exposed then.
LEMMA NewPaymentIsPending ==
  ASSUME TypeOK, PaymentInv, SettledByPayment, [Next]_vars
  PROVE  \A i \in DOMAIN payments' \ DOMAIN payments : MayPay(payments'[i].request)
<1>1. ASSUME NEW t \in Tasks, SendPayment(t)
      PROVE  \A i \in DOMAIN payments' \ DOMAIN payments : MayPay(payments'[i].request)
  <2>1. t[3] \in Requests /\ tasks[t].pc = "send"
    BY <1>1, TaskParts DEF SendPayment
  <2>2. (Unpaid(t[3]) \/ t[3] \in exposed) /\ ~Untasked(t[3])
    BY <2>1 DEF PaymentInv, TasksPayOnce, Untasked
  <2>3. MayPay(t[3])
    BY <2>1, <2>2 DEF MayPay, SettledByPayment, PaymentInv, UnopenedIsUnknown, TypeOK
  <2> QED BY <1>1, <2>3 DEF SendPayment, TypeOK
<1>2. ASSUME DOMAIN payments' = DOMAIN payments
      PROVE  \A i \in DOMAIN payments' \ DOMAIN payments : MayPay(payments'[i].request)
  BY <1>2
<1>3. CASE UNCHANGED payments
  BY <1>2, <1>3
<1>4. CASE Chains
  BY <1>2, <1>4 DEF Chains, RequestOpened, TimePasses, RequestCancelled, Mine
<1>5. ASSUME NEW t \in Tasks, TaskProgress(t)
      PROVE  SendPayment(t) \/ UNCHANGED payments
  BY <1>5 DEF TaskProgress, CheckDeadline, Included, Execute
<1>6. ASSUME NEW t \in Tasks, BumpFee(t) PROVE DOMAIN payments' = DOMAIN payments
  BY <1>6, BumpedPayment
<1>7. ASSUME NEW g \in Gens, ExecutorProgress(g) PROVE UNCHANGED payments
  BY <1>7 DEF ExecutorProgress, QueryOpenRequests, ListMempool, FetchMempool, ScanChain, PayRemaining
<1>8. ASSUME \/ Subscribe \/ \E r \in Requests : HandleEvent(r)
             \/ PeriodicRestart \/ Failures
      PROVE  UNCHANGED payments
  BY <1>8 DEF Subscribe, HandleEvent, PeriodicRestart, Failures, TaskFails, ExecutorFails,
              Shutdown, Restart, Crash
<1> QED BY <1>1, <1>2, <1>3, <1>4, <1>5, <1>6, <1>7, <1>8 DEF Next, Progress, vars

\* A payment is only sent for a request that is pending at that moment
\* (execution.rs:173-180) or that a race happened to, for every value of the
\* constants.
THEOREM PaidOnlyWhilePending == Spec => PaysOnlyPending
<1>1. TypeOK /\ PaymentInv /\ SettledByPayment /\ [Next]_vars =>
        [\A i \in DOMAIN payments' \ DOMAIN payments :
           LET r == payments'[i].request IN r \in exposed \/ status[r] = "Pending"]_vars
  BY NewPaymentIsPending DEF MayPay
<1> QED BY <1>1, InitInv, NextInv, InitSettled, NextSettled, PaymentTypeCorrect, PTL
        DEF Spec, PaysOnlyPending

-----------------------------------------------------------------------------
(* The refinement of Settlement.                                           *)

\* Nothing is paid for in the initial state.
LEMMA InitRefines == Init => Abstract!Init
<1> SUFFICES ASSUME Init PROVE PaidRequests = <<>>
  BY DEF Init, Abstract!Init
<1>1. payments = <<>> /\ DOMAIN payments = {}
  BY DEF Init
<1> QED BY <1>1 DEF PaidRequests

\* A new payment adds its request to the requests that are paid.
LEMMA PaidAppends ==
  ASSUME TypeOK, NEW p \in PaymentRecord, payments' = Append(payments, p)
  PROVE  PaidRequests' = Append(PaidRequests, p.request)
<1>1. payments \in Seq(PaymentRecord) /\ p.request \in Requests
  BY DEF TypeOK, PaymentRecord
<1>2. /\ Len(payments') = Len(payments) + 1
      /\ DOMAIN payments = 1..Len(payments) /\ DOMAIN payments' = 1..Len(payments) + 1
      /\ \A i \in 1..Len(payments) : payments'[i] = payments[i]
      /\ payments'[Len(payments) + 1] = p
  BY <1>1
<1>3. PaidRequests \in Seq(Requests) /\ Len(PaidRequests) = Len(payments)
  BY <1>1, <1>2, PaymentAt DEF PaidRequests, PaymentRecord
<1>4. /\ DOMAIN Append(PaidRequests, p.request) = 1..Len(payments) + 1
      /\ \A i \in 1..Len(payments) : Append(PaidRequests, p.request)[i] = payments[i].request
      /\ Append(PaidRequests, p.request)[Len(payments) + 1] = p.request
  BY <1>1, <1>2, <1>3 DEF PaidRequests
<1>5. /\ DOMAIN PaidRequests' = 1..Len(payments) + 1
      /\ \A i \in 1..Len(payments) + 1 : PaidRequests'[i] = Append(PaidRequests, p.request)[i]
  BY <1>1, <1>2, <1>4 DEF PaidRequests
<1> QED BY <1>3, <1>4, <1>5 DEF PaidRequests

\* Mining or bumping a payment leaves its request alone.
LEMMA PaidStays ==
  ASSUME DOMAIN payments' = DOMAIN payments,
         \A i \in DOMAIN payments : payments'[i].request = payments[i].request
  PROVE  UNCHANGED PaidRequests
BY DEF PaidRequests

\* A step that at most exposes requests releases them, or stutters.
LEMMA ExposingRefines ==
  ASSUME TypeOK', UNCHANGED <<status, payments>>, exposed \subseteq exposed'
  PROVE  Abstract!Next
<1>1. UNCHANGED PaidRequests
  BY DEF PaidRequests
<1>2. exposed' \in SUBSET Requests
  BY DEF TypeOK
<1> QED BY <1>1, <1>2 DEF Abstract!Next, Abstract!Release

\* Steps of the chains open and cancel requests, release them, or stutter.
LEMMA ChainRefines ==
  ASSUME TypeOK, TypeOK', Chains
  PROVE  Abstract!Next \/ UNCHANGED <<status, PaidRequests, exposed>>
<1>1. ASSUME NEW r \in Requests, RequestOpened(r) PROVE Abstract!Next
  BY <1>1 DEF RequestOpened, PaidRequests, Abstract!Next, Abstract!Open, Abstract!Settle
<1>2. ASSUME NEW r \in Requests, TimePasses(r) PROVE Abstract!Next
  BY <1>2, ExposingRefines DEF TimePasses, Expose
<1>3. ASSUME NEW r \in Requests, RequestCancelled(r) PROVE Abstract!Next
  BY <1>3 DEF RequestCancelled, PaidRequests, Abstract!Next, Abstract!Cancel, Abstract!Settle
<1>4. ASSUME NEW i \in DOMAIN payments, Mine(i) PROVE UNCHANGED <<status, PaidRequests, exposed>>
  BY <1>4, PaymentAt, PaidStays DEF Mine, TypeOK, PaymentRecord
<1> QED BY <1>1, <1>2, <1>3, <1>4 DEF Chains

\* Steps of a task pay or execute its request, or stutter.
LEMMA TaskRefines ==
  ASSUME TypeOK, PaymentInv, SettledByPayment, NEW t \in Tasks,
         TaskProgress(t) \/ BumpFee(t) \/ TaskFails(t)
  PROVE  Abstract!Next \/ UNCHANGED <<status, PaidRequests, exposed>>
<1>1. t[3] \in Requests
  BY TaskParts
<1>2. CASE SendPayment(t)
  <2>1. tasks[t].pc = "send"
    BY <1>2 DEF SendPayment
  <2>2. (Unpaid(t[3]) \/ t[3] \in exposed) /\ ~Untasked(t[3])
    BY <2>1, <1>1 DEF PaymentInv, TasksPayOnce, Untasked
  <2>3. MayPay(t[3])
    BY <1>1, <2>1, <2>2 DEF MayPay, SettledByPayment, PaymentInv, UnopenedIsUnknown, TypeOK
  <2>4. Abstract!IsPaid(t[3]) => t[3] \in exposed
    BY <2>2 DEF Abstract!IsPaid, PaidRequests, Unpaid
  <2>5. [request |-> t[3], txid |-> 1, mined |-> 0] \in PaymentRecord
    BY <1>1 DEF PaymentRecord
  <2>6. PaidRequests' = Append(PaidRequests, t[3]) /\ UNCHANGED <<status, exposed>>
    BY <1>2, <2>5, PaidAppends DEF SendPayment
  <2> QED BY <1>1, <2>3, <2>4, <2>6 DEF MayPay, Abstract!Next, Abstract!Pay
<1>3. CASE Execute(t)
  <2>1. tasks[t].tx[1] \in DOMAIN payments /\ RequestOf(tasks[t].tx) = t[3]
    BY <1>3 DEF Execute, PaymentInv, TasksPayOnce
  <2>2. Abstract!IsPaid(t[3])
    BY <2>1 DEF Abstract!IsPaid, PaidRequests, RequestOf
  <2>3. UNCHANGED <<PaidRequests, exposed>>
    BY <1>3 DEF Execute, PaidRequests
  <2> QED BY <1>1, <1>3, <2>2, <2>3 DEF Execute, Abstract!Next, Abstract!Execute, Abstract!Settle
<1>4. CASE BumpFee(t)
  <2>1. PICK i \in DOMAIN payments :
           /\ payments' = [payments EXCEPT ![i].txid = payments[i].txid + 1]
           /\ UNCHANGED <<status, exposed>>
    BY <1>4, BumpedPayment
  <2> QED BY <2>1, PaymentAt, PaidStays DEF TypeOK, PaymentRecord
<1>5. CASE CheckDeadline(t) \/ Included(t) \/ TaskFails(t)
  BY <1>5 DEF CheckDeadline, Included, TaskFails, PaidRequests
<1> QED BY <1>2, <1>3, <1>4, <1>5 DEF TaskProgress

\* The listeners, the executors, failures and restarts neither pay nor settle.
LEMMA ServiceRefines ==
  ASSUME TypeOK', \/ Subscribe \/ \E r \in Requests : HandleEvent(r)
                  \/ \E g \in Gens : ExecutorProgress(g) \/ ExecutorFails(g)
                  \/ PeriodicRestart \/ Shutdown \/ Crash
  PROVE  Abstract!Next
<1>1. CASE Subscribe \/ \E r \in Requests : HandleEvent(r)
  BY <1>1, ExposingRefines DEF Subscribe, HandleEvent
<1>2. ASSUME NEW g \in Gens, ExecutorProgress(g) \/ ExecutorFails(g) PROVE Abstract!Next
  <2>1. ASSUME NEW seen, NEW next, Match(g, seen, next) PROVE exposed \subseteq exposed'
    BY <2>1 DEF Match, Expose
  <2>2. CASE FetchMempool(g) \/ ScanChain(g)
    BY <2>1, <2>2, ExposingRefines DEF FetchMempool, ScanChain
  <2>3. CASE QueryOpenRequests(g) \/ ListMempool(g) \/ PayRemaining(g) \/ ExecutorFails(g)
    BY <2>3, ExposingRefines DEF QueryOpenRequests, ListMempool, PayRemaining, ExecutorFails, Expose
  <2> QED BY <1>2, <2>2, <2>3 DEF ExecutorProgress
<1>3. CASE PeriodicRestart \/ Shutdown \/ Crash
  BY <1>3, ExposingRefines DEF PeriodicRestart, Shutdown, Restart, Crash
<1> QED BY <1>1, <1>2, <1>3

\* Every step is one of Settlement or leaves its state unchanged.
LEMMA NextRefines ==
  TypeOK /\ PaymentInv /\ SettledByPayment /\ [Next]_vars => [Abstract!Next]_(Abstract!vars)
<1> SUFFICES ASSUME TypeOK, PaymentInv, SettledByPayment, [Next]_vars
             PROVE  Abstract!Next \/ UNCHANGED <<status, PaidRequests, exposed>>
  BY DEF Abstract!vars
<1>1. CASE UNCHANGED vars
  BY <1>1 DEF vars, PaidRequests
<1>2. TypeOK'
  BY NextTypes
<1> QED BY <1>1, <1>2, ChainRefines, TaskRefines, ServiceRefines DEF Next, Progress, Failures

\* The vault's listener, executor and tasks implement Settlement (execution.rs:
\* 143-229, 419-570): every request is paid once, while it is pending, unless a
\* race happened to it, and is executed only with a payment, for every value of
\* the constants.
THEOREM PaymentImplementsSettlement == Spec => ImplementsSettlement
<1> QED BY InitRefines, NextRefines, InitInv, NextInv, InitSettled, NextSettled,
           PaymentTypeCorrect, PTL
        DEF Spec, ImplementsSettlement, Abstract!Spec

=============================================================================
