------------------------------- MODULE Wallet -------------------------------
(***************************************************************************)
(* The Bitcoin wallet of a vault: BitcoinCore (bitcoin/src/lib.rs), which  *)
(* leaves coins and fees to the node's wallet, and BitcoinLight (light/),  *)
(* which selects coins itself from what electrs lists.  Tasks create, send *)
(* and replace transactions concurrently; transaction_creation_lock is     *)
(* held from funding to sending.  The node may restart, which unloads its  *)
(* wallet, and a call may fail after it took effect.                       *)
(*                                                                         *)
(* A coin is <<p, v>>: the change of version v of payment p, or, with p =  *)
(* 0, one the wallet has from the start.  Version v pays v sat/vbyte.      *)
(***************************************************************************)
EXTENDS CoinSelection, SequencesExt

CONSTANTS
  Payments,        \* payments, one task each; a set of positive numbers
  Funds,           \* possible values of the wallet's coins
  NumCoins,        \* how many coins it has at the start
  Amount,          \* what every payment pays
  num_confirmations,
  MaxVersions,     \* bound: versions of a payment (1: fees are never bumped)
  MaxFaults        \* bound: node restarts, calls that fail, stale lists of coins

ASSUME WalletAssumption ==
  /\ Payments \subseteq Nat \ {0} /\ Funds \subseteq Nat
  /\ {NumCoins, Amount, num_confirmations, MaxVersions, MaxFaults} \subseteq Nat

VARIABLES
  kind,            \* "core" or "light"
  value,           \* values of the initial coins
  loaded,          \* has the node loaded the wallet? (always for a light wallet)
  lock,            \* holder of transaction_creation_lock, or 0
  task,            \* where each payment's task is
  tx,              \* the transaction each task works on
  known,           \* all transactions the network accepted once
  pool,            \* those in the mempool
  depth,           \* of the mined ones, blocks from the tip, up to what anyone asks for
  faults

vars == <<kind, value, loaded, lock, task, tx, known, pool, depth, faults>>

NoTx == [pay |-> 0, version |-> 0, inputs |-> {}, change |-> 0, fee |-> 0]
Mined == DOMAIN depth
Live == pool \cup Mined

Initial == {<<0, i>> : i \in 1..NumCoins}
Change(t) == IF t.change > 0 THEN {<<t.pay, t.version>>} ELSE {}
Value(coin) ==
  IF coin[1] = 0 THEN value[coin[2]]
  ELSE (CHOOSE t \in known : <<t.pay, t.version>> = coin).change

Conflicts(t, ts) == {u \in ts : u # t /\ u.inputs \cap t.inputs # {}}
\* Those of ts that spend the change of one in gone, and those in gone with all
\* that spend their change, directly or not: the least set closed under spending.
Spending(gone, ts) == {u \in ts : \E t \in gone : Change(t) \cap u.inputs # {}}
WithDescendants(gone, ts) ==
  {u \in ts : \A closed \in SUBSET ts :
                 gone \cup Spending(closed, ts) \subseteq closed => u \in closed}

\* Coins that exist if these transactions do, and those of them that are not
\* spent by a transaction in `seen'.
Coins(ts) == Initial \cup UNION {Change(t) : t \in ts}
Unspent(seen) == Coins(Live) \ UNION {t.inputs : t \in seen}

Init ==
  /\ kind \in {"core", "light"}
  /\ value \in [1..NumCoins -> Funds]
  /\ loaded = TRUE
  /\ lock = 0
  /\ task = [p \in Payments |-> "create"]
  /\ tx = [p \in Payments |-> NoTx]
  /\ known = {} /\ pool = {} /\ depth = <<>>
  /\ faults = 0

GoTo(p, stage) == task' = [task EXCEPT ![p] = stage]
Fault == faults < MaxFaults /\ faults' = faults + 1

-----------------------------------------------------------------------------
(* The network and the node.                                               *)

\* A block: it may contain one transaction whose inputs exist on the chain.
NewBlock ==
  \E new \in {{}} \cup {{t} : t \in pool} :
    /\ UNION {t.inputs : t \in new} \subseteq Coins(Mined)
    /\ depth' = [t \in Mined \cup new |->
                   IF t \in new THEN 1 ELSE Min({depth[t] + 1, num_confirmations + 1})]
    /\ depth' # depth
    /\ pool' = pool \ new
    /\ UNCHANGED <<kind, value, loaded, lock, task, tx, known, faults>>

\* bitcoind restarts; its wallets stay unloaded until someone asks for them.
NodeRestarts ==
  /\ kind = "core" /\ loaded /\ Fault
  /\ loaded' = FALSE
  /\ UNCHANGED <<kind, value, lock, task, tx, known, pool, depth>>

-----------------------------------------------------------------------------
(* Creating and sending.                                                   *)

\* Mutant: nobody waits for the lock.
LockIsFree(p) == TRUE

MayLock(p) == lock = 0

Lock(p) ==
  /\ \/ task[p] = "create" /\ GoTo(p, "fund")
     \/ task[p] = "bump" /\ GoTo(p, "refund")
  /\ MayLock(p) /\ lock' = p
  /\ UNCHANGED <<kind, value, loaded, tx, known, pool, depth, faults>>

\* with_wallet_inner on WalletNotFound: the guard is dropped, the wallet is
\* loaded (create_or_load_wallet), and the call made again after a while.
ReloadWallet(p) ==
  /\ kind = "core" /\ ~loaded /\ task[p] \in {"fund", "refund"}
  /\ loaded' = TRUE /\ lock' = 0
  /\ GoTo(p, IF task[p] = "fund" THEN "create" ELSE "bump")
  /\ UNCHANGED <<kind, value, tx, known, pool, depth, faults>>

Funded(p, version, inputs, change, fee) ==
  tx' = [tx EXCEPT ![p] = [pay |-> p, version |-> version, inputs |-> inputs,
                           change |-> change, fee |-> fee]]

InputSum(inputs) == MapThenSumSet(Value, inputs)

\* fundrawtransaction of the node: coins that cover amount and fee, none of
\* them without need, and the rest as change.
NodeFee(inputs, version) == FeeFor(Cardinality(inputs), TRUE, 1000 * version)
Rest(inputs, version) == InputSum(inputs) - Amount - NodeFee(inputs, version)

NodeFundings(required, coins, version) ==
  {inputs \in {required \cup extra : extra \in SUBSET (coins \ required)} :
     /\ inputs # {} /\ Rest(inputs, version) >= 0
     /\ \A coin \in inputs \ required : Rest(inputs, version) < Value(coin)}

\* A new transaction for a payment has the version after all known ones.
NextVersion(p) == 1 + Cardinality({t \in known : t.pay = p})

\* fund_and_sign_transaction, with lock.  Coins the wallet knows to be spent,
\* in the mempool too, are not taken.
FundByNode(p) ==
  /\ kind = "core" /\ loaded /\ task[p] = "fund"
  /\ \E inputs \in NodeFundings({}, Unspent(Live), NextVersion(p)) :
       Funded(p, NextVersion(p), inputs, Rest(inputs, NextVersion(p)), NodeFee(inputs, NextVersion(p)))
  /\ GoTo(p, "send")
  /\ UNCHANGED <<kind, value, loaded, lock, known, pool, depth, faults>>

\* Insufficient funds is a wallet error: the guard is dropped and the call made
\* again later, up to a day.
FundingFails(p) ==
  /\ kind = "core" /\ loaded /\ task[p] = "fund"
  /\ NodeFundings({}, Unspent(Live), NextVersion(p)) = {}
  /\ lock' = 0 /\ GoTo(p, "create")
  /\ UNCHANGED <<kind, value, loaded, tx, known, pool, depth, faults>>

Selected(order, version) ==
  fund_transaction([i \in DOMAIN order |-> Value(order[i])], Amount, 1000 * version)

FundWith(p, order, funding) ==
  IF funding = NotEnoughInputs
  THEN lock' = 0 /\ GoTo(p, "failed") /\ UNCHANGED tx
  ELSE /\ Funded(p, NextVersion(p), {order[i] : i \in 1..funding.inputs},
                 funding.change, funding.fee)
       /\ GoTo(p, "send") /\ UNCHANGED lock

\* BitcoinLight::create_transaction.  electrs may not have indexed the latest
\* transaction, and lists a coin that it spends.
FundByWallet(p) ==
  /\ kind = "light" /\ task[p] = "fund"
  /\ \E late \in {{}} \cup {{t} : t \in pool} :
       /\ IF late = {} THEN UNCHANGED faults ELSE Fault
       /\ \E order \in SetToSeqs(Unspent(Live \ late)) :
            FundWith(p, order, Selected(order, NextVersion(p)))
  /\ UNCHANGED <<kind, value, loaded, known, pool, depth>>

\* The mempool takes a transaction whose inputs exist, and that replaces what
\* it conflicts with, and all that depends on it, for a higher fee.  What the
\* light wallet sends is not replaceable.
Replaced(t) == WithDescendants(Conflicts(t, pool), pool)
Fees(ts) == MapThenSumSet(LAMBDA t : t.fee, ts)

Acceptable(t) ==
  /\ t.inputs \subseteq Coins(Live \ Replaced(t))
  /\ Conflicts(t, Mined) = {}
  /\ Replaced(t) # {} => kind = "core" /\ t.fee > Fees(Replaced(t))

Accept(t) ==
  /\ Acceptable(t)
  /\ pool' = (pool \ Replaced(t)) \cup {t}
  /\ known' = known \cup {t}

\* send_raw_transaction, or electrs' /tx; the lock is released.
Send(p) ==
  /\ task[p] = "send" /\ Accept(tx[p])
  /\ GoTo(p, "wait") /\ lock' = 0
  /\ UNCHANGED <<kind, value, loaded, tx, depth, faults>>

\* The transaction is refused, or the call fails, perhaps after it took effect.
SendFails(p) ==
  /\ task[p] = "send"
  /\ \/ ~Acceptable(tx[p]) /\ UNCHANGED <<known, pool, faults>>
     \/ Fault /\ UNCHANGED <<known, pool>>
     \/ Fault /\ Accept(tx[p])
  /\ GoTo(p, "failed") /\ lock' = 0
  /\ UNCHANGED <<kind, value, loaded, tx, depth>>

-----------------------------------------------------------------------------
(* Replacing a transaction by one with a higher fee.                       *)

is_in_mempool(t) == t \in pool

\* In sat/vbyte, of the signed transaction.
fee_rate(t) ==
  t.fee \div calculate_maximum_signed_tx_size(
    Cardinality(t.inputs), TxOutSize + OpReturnSize + (IF t.change > 0 THEN TxOutSize ELSE 0))

\* A higher estimate arrives while the transaction is in the mempool.  The light
\* wallet has no bump_fee: its `todo!()' ends the task.
StartBump(p) ==
  /\ task[p] = "wait" /\ is_in_mempool(tx[p]) /\ NextVersion(p) <= MaxVersions
  /\ NextVersion(p) > fee_rate(tx[p])
  /\ GoTo(p, IF kind = "core" THEN "bump" ELSE "failed")
  /\ UNCHANGED <<kind, value, loaded, lock, tx, known, pool, depth, faults>>

\* Mutant: the replacement is funded from scratch.
FundAnew(p) == {}

\* All inputs of the old transaction are kept; only its change is taken out.
KeptInputs(p) == tx[p].inputs

Refundings(p) == NodeFundings(KeptInputs(p), Unspent(Live), NextVersion(p))

FundBump(p) ==
  /\ loaded /\ task[p] = "refund"
  /\ \E inputs \in Refundings(p) :
       Funded(p, NextVersion(p), inputs, Rest(inputs, NextVersion(p)), NodeFee(inputs, NextVersion(p)))
  /\ GoTo(p, "resend")
  /\ UNCHANGED <<kind, value, loaded, lock, known, pool, depth, faults>>

Resend(p) ==
  /\ task[p] = "resend" /\ Accept(tx[p])
  /\ GoTo(p, "wait") /\ lock' = 0
  /\ UNCHANGED <<kind, value, loaded, tx, depth, faults>>

\* Any error is logged, also of a call that took effect, and the task waits on for
\* the transaction it had.
OldTx(p) == CHOOSE t \in known : t.pay = p /\ t.version = NextVersion(p) - 1

BumpFails(p) ==
  /\ \/ task[p] = "resend" /\ ~Acceptable(tx[p]) /\ UNCHANGED <<known, pool, faults>>
     \/ task[p] = "refund" /\ loaded /\ Refundings(p) = {} /\ UNCHANGED <<known, pool, faults>>
     \/ task[p] \in {"refund", "resend"} /\ Fault /\ UNCHANGED <<known, pool>>
     \/ task[p] = "resend" /\ Fault /\ Accept(tx[p])
  /\ tx' = [tx EXCEPT ![p] = OldTx(p)]
  /\ GoTo(p, "wait") /\ lock' = 0
  /\ UNCHANGED <<kind, value, loaded, depth>>

-----------------------------------------------------------------------------
(* Waiting.                                                                *)

\* Bitcoin Core counts the transaction's own block, electrs' tip height does not.
Confirmations(t) == IF kind = "core" THEN depth[t] ELSE depth[t] - 1

\* wait_for_transaction_metadata asks the wallet again and again, and does not
\* load it.
GetMetadata(p) ==
  /\ task[p] = "wait" /\ loaded
  /\ tx[p] \in Mined /\ Confirmations(tx[p]) >= num_confirmations
  /\ GoTo(p, "done")
  /\ UNCHANGED <<kind, value, loaded, lock, tx, known, pool, depth, faults>>

\* Mutant: the wallet is not loaded when the service starts.
WalletStays == loaded

\* add_vault_id calls create_or_load_wallet.
create_or_load_wallet == TRUE

\* Every three hours the service starts anew: it loads the wallet, and the
\* executor of open requests looks for the payments in mempool and chain
\* (Payment), awaits those it finds, and makes the others again.
ServiceRestarts ==
  /\ loaded' = create_or_load_wallet
  /\ \A p \in Payments : task[p] \in {"wait", "failed", "done"}
  /\ \E p \in Payments : task[p] = "failed" \/ (task[p] = "wait" /\ tx[p] \notin pool)
  /\ \E found \in [Payments -> Live \cup {NoTx}] :
       /\ \A p \in Payments :
            IF \E t \in Live : t.pay = p THEN found[p].pay = p ELSE found[p] = NoTx
       /\ tx' = [p \in Payments |-> IF task[p] = "done" THEN tx[p] ELSE found[p]]
       /\ task' = [p \in Payments |-> IF task[p] = "done" THEN "done"
                                      ELSE IF found[p] = NoTx THEN "create" ELSE "wait"]
  /\ UNCHANGED <<kind, value, lock, known, pool, depth, faults>>

-----------------------------------------------------------------------------

TaskStep(p) ==
  \/ Lock(p) \/ ReloadWallet(p) \/ FundByNode(p) \/ FundByWallet(p) \/ FundingFails(p)
  \/ Send(p) \/ FundBump(p) \/ Resend(p) \/ GetMetadata(p)

Failures(p) == SendFails(p) \/ BumpFails(p)

Next ==
  \/ NewBlock \/ NodeRestarts \/ ServiceRestarts
  \/ \E p \in Payments : TaskStep(p) \/ Failures(p) \/ StartBump(p)

Spec == Init /\ [][Next]_vars

\* Blocks are found, the restart timer fires, and a task that waits neither for
\* Bitcoin nor for the lock goes on; the lock is given in turn (tokio's Mutex
\* is fair).
FairSpec ==
  /\ Spec /\ WF_vars(NewBlock) /\ WF_vars(ServiceRestarts)
  /\ \A p \in Payments : WF_vars(TaskStep(p) \/ Failures(p)) /\ SF_vars(Lock(p))

-----------------------------------------------------------------------------

Stages == {"create", "fund", "send", "wait", "bump", "refund", "resend", "done", "failed"}
Transaction == [pay : Payments \cup {0}, version : Nat, inputs : SUBSET ((Payments \cup {0}) \X Nat),
                change : Nat, fee : Nat]

TypeOK ==
  /\ kind \in {"core", "light"} /\ loaded \in BOOLEAN
  /\ value \in [1..NumCoins -> Funds]
  /\ task \in [Payments -> Stages]
  /\ lock \in Payments \cup {0}
  /\ \A p \in Payments : lock = p <=> task[p] \in {"fund", "send", "refund", "resend"}
  /\ \A p \in Payments : tx[p].pay \in {0, p} /\ tx[p].change \in Nat /\ tx[p].fee \in Nat
  /\ Live \subseteq known /\ pool \cap Mined = {}
  /\ \A t \in Mined : depth[t] \in 1..(num_confirmations + 1)
  /\ faults \in 0..MaxFaults

\* Funded, not sent.
Unsent(p) == task[p] \in {"send", "resend"}

\* The inputs of a transaction that is funded and not yet sent are not used by
\* any transaction of another payment, sent or not: "ensure no other
\* fund_raw_transaction calls are made until we submitted the transaction"
\* (bitcoin/src/lib.rs:437).  Only a replacement for a transaction that went with
\* another's change meanwhile has inputs that others may have taken, and one that
\* is gone, so that nobody accepts it.
FundedIsFresh ==
  kind = "core" =>
    \A p \in Payments : Unsent(p) /\ tx[p].inputs \subseteq Coins(Live) =>
      \A t \in Live \cup {tx[q] : q \in {r \in Payments : Unsent(r)}} :
        t.pay # p => t.inputs \cap tx[p].inputs = {}

\* Of all the versions of a payment, replacements and those made again after an
\* error, at most one is ever mined.
OnePaymentMined == \A t, u \in Mined : t.pay = u.pay => t = u

\* The coin is worth the fee for spending it.
WorthSpending(coin, rate) == get_fee(rate, calculate_maximum_signed_input_size) <= Value(coin)

\* A transaction the light wallet funds pays the fee rate it was asked for, unless
\* it spends a coin that is worth less than spending it costs: for such a coin
\* get_effective_value is 0 and not negative (light/wallet.rs:139).  Not a satoshi
\* of its inputs is lost.
FeeIsPaid ==
  kind = "light" =>
    \A p \in Payments : task[p] = "send" =>
      /\ (\A coin \in tx[p].inputs : WorthSpending(coin, 1000 * tx[p].version)) =>
           tx[p].fee >= FeeFor(Cardinality(tx[p].inputs), tx[p].change > 0, 1000 * tx[p].version)
      /\ InputSum(tx[p].inputs) = Amount + tx[p].change + tx[p].fee

\* The coins suffice for all payments.
CoversAll ==
  SumTo(value, NumCoins) >=
    Cardinality(Payments) * (Amount + FeeFor(NumCoins, TRUE, 1000 * MaxVersions))

\* Every payment is reported as confirmed in the end, if the wallet has coins for
\* it: no task keeps the lock, no unloaded wallet, failed call or replaced
\* transaction holds one up for ever.
PaymentConfirms == \A p \in Payments : CoversAll ~> (task[p] = "done")

=============================================================================
