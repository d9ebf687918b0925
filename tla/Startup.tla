------------------------------ MODULE Startup -------------------------------
(***************************************************************************)
(* How the vault service starts, runs its tasks and starts again:          *)
(* ConnectionManager::start and wait_or_shutdown of service/src/lib.rs,    *)
(* run_service, run_and_monitor_tasks and VaultIdManager of                *)
(* vault/src/system.rs, and the registration with coins from the faucet    *)
(* (vault/src/faucet.rs), whose server is module Faucet.                   *)
(*                                                                         *)
(* A vault id is named by its collateral currency: account and wrapped     *)
(* currency are the same for all vaults of the process.                    *)
(***************************************************************************)
EXTENDS Faucet

CONSTANTS
  TX_FEES,         \* what fund_and_register keeps for fees
  Fee,             \* what an extrinsic costs, in native coins
  Collateral,      \* amount given with auto_register
  Balances,        \* possible free balances at the start
  Configurations,  \* possible values of auto_register
  PromptPolls      \* are all tasks polled once before the first of them ends?

ASSUME StartupAssumption ==
  /\ {TX_FEES, Fee, Collateral} \subseteq Nat 
  /\ Balances \subseteq [Currencies -> Nat]
  /\ Configurations \subseteq [Currencies -> {"no", "amount", "faucet"}]
  /\ PromptPolls \in BOOLEAN

VARIABLES
  auto_register,   \* of every currency: "no", "amount" or "faucet"
  faucet_url,      \* is it given?
  publicKey,       \* the account's Bitcoin key on the parachain, or 0
  liquidated,      \* vaults that have been liquidated
  master,          \* keys in the master wallet
  wallet,          \* keys in the wallet of every currency
  phase,           \* where the service is
  newKey,          \* answer of get_new_public_key
  register,        \* maybe_register_vault of every currency
  fetch,           \* vault ids still to be added by fetch_vault_ids, or being added
  vault_data,      \* vault ids with a wallet
  tasks,           \* the tasks of run_and_monitor_tasks
  events           \* RegisterVault events with the listener

config == <<auto_register, faucet_url>>
serviceVars == <<phase, newKey, register, fetch, vault_data, tasks, events>>
keyVars == <<publicKey, master, wallet>>
vars == <<chainVars, faucetVars, hours, faults, config, liquidated, keyVars, serviceVars>>

\* The registration listener, the restart timer, and one for all others.
Tasks == {"listener", "timer", "other"}
NotSpawned == [t \in Tasks |-> "none"]

NoKey == 0
Unasked == [c \in Currencies |-> "check"]

UsesFaucet == \E c \in Currencies : auto_register[c] = "faucet"

Init ==
  /\ FaucetInit
  /\ free \in Balances /\ reserved = [c \in Currencies |-> 0]
  /\ auto_register \in Configurations /\ faucet_url \in BOOLEAN
  /\ liquidated = {}
  \* A new account, or one whose key is in the master wallet, or, from before
  \* the wallets shared it, in those of all currencies, or lost.
  /\ \/ publicKey = NoKey /\ registered = {} /\ master = {} /\ wallet = [c \in Currencies |-> {}]
     \/ /\ publicKey = 1 /\ registered \in SUBSET Currencies
        /\ \/ master \in {{}, {1}} /\ wallet = [c \in Currencies |-> {}]
           \/ master = {} /\ wallet = [c \in Currencies |-> {1}]
  /\ phase = "connect" /\ newKey = NoKey
  /\ register = Unasked /\ fetch = {} /\ vault_data = {}
  /\ tasks = NotSpawned /\ events = {}

-----------------------------------------------------------------------------
(* The service ends and starts again.                                      *)

\* The body of ConnectionManager's loop anew: all of the service's state is lost.
Again ==
  /\ phase' = "connect" /\ newKey' = NoKey /\ register' = Unasked /\ fetch' = {}
  /\ vault_data' = {} /\ tasks' = NotSpawned /\ events' = {}
  /\ request' = [s \in Slots |-> [request[s] EXCEPT !.waited = FALSE]]

\* start() returned an error or all tasks ended; RestartPolicy::Always.
Return == Again /\ UNCHANGED <<chainVars, kv, hours, config, liquidated, keyVars>>

\* Any call of the startup may fail.  If the connection cannot be made again
\* the process ends, and is started by its supervisor.
StartupFails == phase \notin {"connect", "run"} /\ Fault /\ Return

Crash == phase = "run" /\ Fault /\ Return

-----------------------------------------------------------------------------
(* run_service, up to its tasks.                                           *)

\* new_client: tries until the node answers, then the parachain's node ("only
\* open connection to parachain after bitcoind sync"), and new_service.
ConnectBitcoin ==
  /\ phase = "connect" /\ phase' = "parachain"
  /\ UNCHANGED <<chainVars, faucetVars, hours, faults, config, liquidated, keyVars,
                 newKey, register, fetch, vault_data, tasks, events>>

ConnectParachain ==
  /\ phase = "parachain" /\ phase' = "service"
  /\ UNCHANGED <<chainVars, faucetVars, hours, faults, config, liquidated, keyVars,
                 newKey, register, fetch, vault_data, tasks, events>>

\* validate_bitcoin_network and the check of the faucet's url.
CheckConfig ==
  /\ phase = "service" /\ (UsesFaucet => faucet_url)
  /\ phase' = IF faucet_url THEN "fund" ELSE "key"
  /\ UNCHANGED <<chainVars, faucetVars, hours, faults, config, liquidated, keyVars,
                 newKey, register, fetch, vault_data, tasks, events>>

\* FaucetUrlNotSet: the service tries again and again.
NoFaucetUrl ==
  /\ phase = "service" /\ UsesFaucet /\ ~faucet_url
  /\ Return /\ UNCHANGED faults

\* get_funding: one request at a time for every currency; the slots of requests
\* that were abandoned are used again once the faucet is done with them.
Send(c) == \E s \in Slots : Receive(s, c)
Answered(s, c) ==
  request[s].pc \in {"ok", "err"} /\ request[s].currency = c /\ request[s].waited

\* fund_account for the native currency; only a warning if it is refused.
FundNative ==
  /\ \/ phase = "fund" /\ Send(Native) /\ phase' = "funding"
     \/ /\ phase = "funding" /\ phase' = "key"
        /\ \E s \in Slots : Answered(s, Native) /\ Update(s, Idle)
  /\ UNCHANGED <<chainVars, kv, hours, faults, config, liquidated, keyVars,
                 newKey, register, fetch, vault_data, tasks, events>>

\* maybe_register_public_key.
NewPublicKey ==
  /\ phase = "key" /\ publicKey = NoKey /\ newKey = NoKey
  /\ newKey' = Cardinality(master) + 1 /\ master' = master \cup {newKey'}
  /\ UNCHANGED <<chainVars, faucetVars, hours, faults, config, liquidated, publicKey, wallet,
                 phase, register, fetch, vault_data, tasks, events>>

\* An extrinsic's fee is taken from the native balance, also if it then fails;
\* one that cannot pay is not executed.
PaysFee == free[Native] >= Fee
AfterFee == [free EXCEPT ![Native] = @ - Fee]

RegisterPublicKey ==
  /\ phase = "key"
  /\ \/ /\ publicKey = NoKey /\ newKey # NoKey /\ publicKey' = newKey
        /\ PaysFee /\ free' = AfterFee
     \/ publicKey # NoKey /\ UNCHANGED <<publicKey, free>>
  /\ phase' = "register" /\ newKey' = NoKey
  /\ UNCHANGED <<reserved, registered, faucetVars, hours, faults, config, liquidated, master,
                 wallet, register, fetch, vault_data, tasks, events>>

\* The key is never used; the next start makes another (the model forgets it).
CannotPayForKey ==
  /\ phase = "key" /\ publicKey = NoKey /\ newKey # NoKey /\ ~PaysFee
  /\ Again /\ master' = master \ {newKey}
  /\ UNCHANGED <<chainVars, kv, hours, faults, config, liquidated, publicKey, wallet>>

-----------------------------------------------------------------------------
(* maybe_register_vault of all currencies, concurrently.                   *)

GoTo(c, pc) == register' = [register EXCEPT ![c] = pc]

RegisterUnchanged == UNCHANGED <<config, liquidated, keyVars, phase, newKey, fetch,
                                 vault_data, tasks, hours>>

\* The amount becomes collateral.
Deposits(c, amount) ==
  /\ free' = [AfterFee EXCEPT ![c] = @ - amount] /\ reserved' = [reserved EXCEPT ![c] = @ + amount]

\* A vault is registered; the event goes to a listener.
Announce(c) ==
  /\ registered' = registered \cup {c}
  /\ events' = IF tasks["listener"] = "subscribed" THEN events \cup {c} ELSE events

\* Mutant: the fee is not taken from the collateral's balance.
CollateralAlone(c, amount) == PaysFee /\ amount <= free[c]

\* What is left after the fee covers the collateral.
Covers(c, amount) == PaysFee /\ amount <= AfterFee[c]

Registers(c, amount) == amount > 0 /\ Covers(c, amount)

\* The dispatch fails, or the extrinsic is not executed.
Refused == free' = (IF PaysFee THEN AfterFee ELSE free) /\ UNCHANGED <<reserved, registered>>

\* The extrinsic register_vault, refused without collateral.
register_vault(c, amount) ==
  IF Registers(c, amount) THEN Deposits(c, amount) /\ Announce(c)
  ELSE Refused /\ UNCHANGED events

CheckRegistered(c) ==
  /\ phase = "register" /\ register[c] = "check"
  /\ GoTo(c, IF c \in registered \/ auto_register[c] = "no" THEN "ok"
             ELSE IF auto_register[c] = "amount" THEN "register" ELSE "fund")
  /\ RegisterUnchanged /\ UNCHANGED <<chainVars, faucetVars, faults, events>>

\* With a given amount, or the whole free balance, which leaves nothing for the fee
\* if it is of the native currency.
RegisterWithAmount(c) ==
  LET amount == IF Collateral > free[c] THEN free[c] ELSE Collateral
  IN /\ register[c] = "register"
     /\ register_vault(c, amount) /\ GoTo(c, IF Registers(c, amount) THEN "ok" ELSE "err")
     /\ RegisterUnchanged /\ UNCHANGED <<faucetVars, faults>>

\* fund_and_register: the user's allowance, ...
AskFaucet(c) ==
  /\ \/ register[c] = "fund" /\ GoTo(c, "funding")
     \/ register[c] = "more" /\ GoTo(c, "more funding")
  /\ Send(c)
  /\ RegisterUnchanged /\ UNCHANGED <<chainVars, kv, faults, events>>

\* Mutant: a refusal of the faucet ends the registration.
RegisterIfFunded(c) ==
  LET amount == UserAllowance - TX_FEES
  IN /\ register[c] = "funding"
     /\ \E s \in Slots :
          /\ Answered(s, c) /\ Update(s, Idle)
          /\ IF request[s].pc = "ok"
             THEN /\ register_vault(c, amount)
                  /\ GoTo(c, IF Registers(c, amount) THEN "more" ELSE "err")
             ELSE GoTo(c, "err") /\ UNCHANGED <<chainVars, events>>
     /\ RegisterUnchanged /\ UNCHANGED <<kv, faults>>

\* ... all of it but the fees as collateral, even if the faucet refused, ...
RegisterWithAllowance(c) ==
  LET amount == UserAllowance - TX_FEES
  IN /\ register[c] = "funding"
     /\ \E s \in Slots : Answered(s, c) /\ Update(s, Idle)
     /\ register_vault(c, amount) /\ GoTo(c, IF Registers(c, amount) THEN "more" ELSE "err")
     /\ RegisterUnchanged /\ UNCHANGED <<kv, faults>>

\* The extrinsic deposit_collateral.
deposit_collateral(c, amount) ==
  IF Covers(c, amount) THEN Deposits(c, amount) /\ UNCHANGED registered ELSE Refused

\* ... and two thirds of the vault's allowance deposited, if the faucet gives it.
DepositAllowance(c) ==
  LET amount == (VaultAllowance \div 3) * 2
  IN /\ register[c] = "more funding"
     /\ \E s \in Slots :
          /\ Answered(s, c) /\ Update(s, Idle)
          /\ \/ /\ request[s].pc = "ok" /\ deposit_collateral(c, amount)
                /\ GoTo(c, IF Covers(c, amount) THEN "ok" ELSE "err")
             \/ request[s].pc = "err" /\ GoTo(c, "err") /\ UNCHANGED chainVars
     /\ RegisterUnchanged /\ UNCHANGED <<kv, faults, events>>

\* join_all waits for all of them; then the first error ends the startup.
RegisterDone ==
  /\ phase = "register" /\ \A c \in Currencies : register[c] \in {"ok", "err"}
  /\ \E c \in Currencies : register[c] = "err"
  /\ Return /\ UNCHANGED faults

\* get_vault fails for a liquidated vault, which is then left out.
get_vaults_by_account_id == {c \in registered : c \notin liquidated}

\* fetch_vault_ids begins, "purposefully _after_ maybe_register_vault".
StartFetch ==
  /\ phase = "register" /\ \A c \in Currencies : register[c] = "ok"
  /\ phase' = "fetch" /\ fetch' = get_vaults_by_account_id /\ register' = Unasked
  /\ UNCHANGED <<chainVars, faucetVars, hours, faults, config, liquidated, keyVars,
                 newKey, vault_data, tasks, events>>

-----------------------------------------------------------------------------
(* VaultIdManager.                                                         *)

\* Mutant: the currency's own key is not copied to the master wallet.
NoMigration(c) == master

\* Migration: the key in the currency's wallet is copied to the master wallet ...
MasterWith(c) == IF publicKey \in wallet[c] THEN master \cup {publicKey} ELSE master

\* Mutant: without "Could not find the derivation key in the bitcoin wallet".
AddWithoutKey(c) ==
  /\ publicKey # NoKey /\ master' = MasterWith(c)
  /\ wallet' = [wallet EXCEPT ![c] = @ \cup (master' \cap {publicKey})]
  /\ vault_data' = vault_data \cup {c}

\* ... and from there to the wallet.
add_vault_id(c) ==
  /\ publicKey # NoKey /\ master' = MasterWith(c)
  /\ publicKey \in master'
  /\ wallet' = [wallet EXCEPT ![c] = @ \cup {publicKey}]
  /\ vault_data' = vault_data \cup {c}

FetchVault(c) ==
  /\ phase = "fetch" /\ c \in fetch /\ add_vault_id(c)
  /\ fetch' = fetch \ {c}
  /\ UNCHANGED <<chainVars, faucetVars, hours, faults, config, liquidated, publicKey,
                 phase, newKey, register, tasks, events>>

\* "Could not find the derivation key in the bitcoin wallet".
FetchFails(c) ==
  /\ phase = "fetch" /\ c \in fetch /\ publicKey \notin MasterWith(c)
  /\ Return /\ UNCHANGED faults

\* await_parachain_block: at least one block passes; then the tasks are spawned.
AwaitBlock ==
  /\ phase = "fetch" /\ fetch = {}
  /\ phase' = "run" /\ tasks' = [t \in Tasks |-> "spawned"]
  /\ UNCHANGED <<chainVars, faucetVars, hours, faults, config, liquidated, keyVars,
                 newKey, register, fetch, vault_data, events>>

\* An error of add_vault_id is ignored here.
TryAddVault(c) ==
  IF publicKey \in MasterWith(c) THEN add_vault_id(c)
  ELSE UNCHANGED <<master, wallet, vault_data>>

HandleRegistration(c) ==
  /\ tasks["listener"] = "subscribed" /\ c \in events /\ events' = events \ {c}
  /\ \/ TryAddVault(c) /\ UNCHANGED faults
     \/ Fault /\ UNCHANGED <<master, wallet, vault_data>>
  /\ UNCHANGED <<chainVars, faucetVars, hours, config, liquidated, publicKey,
                 phase, newKey, register, fetch, tasks>>

-----------------------------------------------------------------------------
(* wait_or_shutdown and run_and_monitor_tasks.                             *)

TasksUnchanged == UNCHANGED <<chainVars, faucetVars, hours, config, liquidated, keyVars,
                              phase, newKey, register, fetch, vault_data>>

\* The first poll subscribes to the shutdown signal, then runs the task.
Poll(t) ==
  /\ tasks[t] = "spawned" /\ tasks' = [tasks EXCEPT ![t] = "subscribed"]
  /\ TasksUnchanged /\ UNCHANGED <<faults, events>>

\* Mutant: the task is started again, the service is not.
RestartsAlone(t) == tasks' = [tasks EXCEPT ![t] = "spawned"]

\* A task that completes sends the signal; it reaches those that subscribed.
SendsSignal(t) ==
  tasks' = [u \in Tasks |-> IF tasks[u] = "subscribed" THEN "ended" ELSE tasks[u]]

TaskEnds(t) ==
  /\ tasks[t] = "subscribed"
  /\ PromptPolls => \A u \in Tasks : tasks[u] # "spawned"
  /\ SendsSignal(t) /\ events' = {}
  /\ TasksUnchanged

\* The timer ends after three hours, what is without waiting done by then;
\* another task if its connection is lost.
RestartTimer == events = {} /\ TaskEnds("timer") /\ UNCHANGED faults
Disconnected == \E t \in Tasks \ {"timer"} : TaskEnds(t) /\ Fault

AllEnded ==
  /\ phase = "run" /\ \A t \in Tasks : tasks[t] = "ended"
  /\ Return /\ UNCHANGED faults

-----------------------------------------------------------------------------
(* The operator and the parachain.                                         *)

\* The operator registers a vault of this account from elsewhere, with coins that
\* are brought for it.
OperatorRegisters(c) ==
  /\ publicKey # NoKey /\ c \notin registered /\ Announce(c)
  /\ reserved' = [reserved EXCEPT ![c] = @ + Collateral]
  /\ UNCHANGED <<free, faucetVars, hours, faults, config, liquidated, keyVars,
                 phase, newKey, register, fetch, vault_data, tasks>>

Liquidate(c) ==
  /\ c \in registered \ liquidated /\ liquidated' = liquidated \cup {c} /\ Fault
  /\ UNCHANGED <<chainVars, faucetVars, hours, config, keyVars, serviceVars>>

\* An answer that nobody waits for.
DropAnswer(s) ==
  /\ request[s].pc \in {"ok", "err"} /\ ~request[s].waited
  /\ Update(s, Idle)
  /\ UNCHANGED <<chainVars, kv, hours, faults, config, liquidated, keyVars, serviceVars>>

-----------------------------------------------------------------------------

Registration(c) ==
  \/ CheckRegistered(c) \/ RegisterWithAmount(c)
  \/ AskFaucet(c) \/ RegisterWithAllowance(c) \/ DepositAllowance(c)

FaucetStep ==
  /\ \E s \in Slots : Handle(s) \/ DropAnswer(s)
  /\ UNCHANGED <<config, liquidated, keyVars, serviceVars>>

Start ==
  \/ ConnectBitcoin \/ ConnectParachain \/ CheckConfig \/ NoFaucetUrl \/ FundNative \/ NewPublicKey
  \/ RegisterPublicKey \/ CannotPayForKey \/ RegisterDone
  \/ StartFetch \/ AwaitBlock \/ AllEnded
  \/ \E c \in Currencies : FetchVault(c) \/ FetchFails(c)

Environment ==
  \/ (HourPasses \/ Disconnect) /\ UNCHANGED <<config, liquidated, keyVars, serviceVars>>
  \/ \E c \in Currencies : OperatorRegisters(c) \/ Liquidate(c)
  \/ StartupFails \/ Crash \/ Disconnected

Next ==
  \/ Start \/ FaucetStep \/ RestartTimer \/ Environment
  \/ \E c \in Currencies : Registration(c) \/ HandleRegistration(c)
  \/ \E t \in Tasks : Poll(t)

Spec == Init /\ [][Next]_vars

\* Tasks that can run are run, the faucet answers, and the restart timer fires.
FairSpec ==
  /\ Spec /\ WF_vars(Start) /\ WF_vars(RestartTimer)
  /\ \A s \in Slots : WF_vars((Handle(s) \/ DropAnswer(s)) /\ UNCHANGED <<config, liquidated, keyVars, serviceVars>>)
  /\ \A c \in Currencies : WF_vars(Registration(c)) /\ WF_vars(HandleRegistration(c))
  /\ \A t \in Tasks : WF_vars(Poll(t))

-----------------------------------------------------------------------------

Phases == {"connect", "parachain", "service", "fund", "funding", "key", "register", "fetch", "run"}

TypeOK ==
  /\ phase \in Phases
  /\ \A c \in Currencies : free[c] >= 0 /\ reserved[c] >= 0
  /\ {registered, liquidated, fetch, vault_data, events} \subseteq SUBSET Currencies
  /\ liquidated \subseteq registered /\ vault_data \subseteq registered
  /\ \A t \in Tasks : tasks[t] = "none" <=> phase # "run"
  /\ fetch = {} \/ phase = "fetch"
  /\ events = {} \/ tasks["listener"] = "subscribed"
  /\ faults \in 0..MaxFaults /\ hours \in 0..MaxHours

\* A vault is only served with a wallet that can spend what is paid to the
\* account's key on the parachain, and the master wallet can too, whenever the
\* service failed between making and registering the key, and whichever wallet
\* had it before.
RunsWithKey ==
  \A c \in vault_data : publicKey # NoKey /\ publicKey \in master \cap wallet[c]

\* What keeps the service from starting for good: the key or the faucet's url is
\* missing, or a vault is to be registered with nothing, ...
KeyHeld == publicKey \in master \/ \A c \in Currencies : publicKey \in wallet[c]
Due(how) == {c \in Currencies \ registered : auto_register[c] = how}
CanRegister(c) == c \in Due("amount") => Collateral > 0 /\ free[c] > 0

\* ... or the native coins do not cover the given collateral and the fees, one for
\* the key, one for a vault with an amount and two with the faucet's coins, which
\* also pay them.
Fees ==
  LET extrinsics == (IF publicKey = NoKey THEN 1 ELSE 0)
                    + Cardinality(Due("amount")) + 2 * Cardinality(Due("faucet"))
  IN extrinsics * Fee
CoversFees ==
  /\ Due("amount") # {} => free[Native] >= Fees + (IF Native \in Due("amount") THEN Collateral ELSE 0)
  /\ publicKey = NoKey => free[Native] >= Fee \/ faucet_url
CanStart ==
  /\ publicKey = NoKey \/ KeyHeld
  /\ UsesFaucet => faucet_url
  /\ CoversFees /\ \A c \in Currencies : CanRegister(c)

\* A registered vault is served in the end, also if it was registered while the
\* service started, before it listened for registrations, or if its event was
\* handled with an error.
RegisteredIsServed ==
  \A c \in Currencies :
    (c \in registered /\ CanStart) ~> (c \in vault_data \/ c \in liquidated)

\* Every vault that is to be registered is, whatever fails on the way and whatever
\* the faucet refuses, if the account's native coins cover the collateral and the
\* fees that are paid from the same balance.
AutoRegisters ==
  \A c \in Currencies : (CanStart /\ auto_register[c] # "no") ~> (c \in registered)

\* The service starts again for ever: "restart every 3 hours" (system.rs:34).
ServiceRestarts == []<>(phase = "connect")

=============================================================================
