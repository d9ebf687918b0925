--------------------------- MODULE StartupProofs ----------------------------
(***************************************************************************)
(* A vault that is served has its key, for any currencies, balances and    *)
(* configurations, whatever fails while the service starts.                *)
(***************************************************************************)
EXTENDS Startup, TLAPS

-----------------------------------------------------------------------------
(* The parachain's state.                                                  *)

ChainInv ==
  /\ free \in [Currencies -> Nat] /\ reserved \in [Currencies -> Nat]
  /\ registered \subseteq Currencies

\* The fee is only taken if it can be paid.
LEMMA FeePaid ==
  ASSUME ChainInv, PaysFee
  PROVE  AfterFee \in [Currencies -> Nat]
BY StartupAssumption, FaucetAssumption DEF ChainInv, PaysFee, AfterFee

LEMMA RefusedKeepsChain ==
  ASSUME ChainInv, Refused
  PROVE  ChainInv' /\ registered \subseteq registered'
<1>1. free' \in [Currencies -> Nat] /\ reserved' = reserved /\ registered' = registered
  BY FeePaid DEF Refused, ChainInv
<1> QED BY <1>1 DEF ChainInv

LEMMA DepositsKeepsChain ==
  ASSUME ChainInv, NEW c \in Currencies, NEW amount \in Int, amount >= 0,
         Covers(c, amount), Deposits(c, amount),
         registered' = registered \/ registered' = registered \cup {c}
  PROVE  ChainInv' /\ registered \subseteq registered'
<1>1. AfterFee \in [Currencies -> Nat] /\ amount <= AfterFee[c]
  BY FeePaid DEF Covers
<1>2. /\ free' = [AfterFee EXCEPT ![c] = @ - amount]
      /\ reserved' = [reserved EXCEPT ![c] = @ + amount]
  BY DEF Deposits
<1> QED BY <1>1, <1>2 DEF ChainInv

\* An extrinsic that registers a vault takes no more than there is.
LEMMA RegisterKeepsChain ==
  ASSUME ChainInv, NEW c \in Currencies, NEW amount \in Int, register_vault(c, amount)
  PROVE  ChainInv' /\ registered \subseteq registered'
<1>1. CASE Registers(c, amount)
  BY <1>1, DepositsKeepsChain DEF register_vault, Registers, Announce
<1>2. CASE ~Registers(c, amount)
  BY <1>2, RefusedKeepsChain DEF register_vault
<1> QED BY <1>1, <1>2

\* What a step may do to the account: nothing, a payment to it, a fee, a vault
\* or more collateral.  No step takes more than there is.
LEMMA ChainStep ==
  ASSUME ChainInv, [Next]_vars
  PROVE  ChainInv' /\ registered \subseteq registered'
<1> USE DEF ChainInv
<1>1. CASE UNCHANGED chainVars
  BY <1>1 DEF chainVars
<1>3. CASE Start
  <2>1. CASE RegisterPublicKey
    <3>1. CASE UNCHANGED free
      BY <1>1, <2>1, <3>1 DEF RegisterPublicKey, chainVars
    <3>2. CASE PaysFee /\ free' = AfterFee
      BY <2>1, <3>2, FeePaid DEF RegisterPublicKey
    <3> QED BY <2>1, <3>1, <3>2 DEF RegisterPublicKey
  <2> QED BY <1>1, <1>3, <2>1 DEF Start, ConnectBitcoin, ConnectParachain, CheckConfig, NoFaucetUrl, Return,
     FundNative, NewPublicKey, CannotPayForKey, RegisterDone, StartFetch, AwaitBlock, AllEnded,
     FetchVault, FetchFails
<1>4. CASE FaucetStep
  <2>1. PICK s \in Slots : Handle(s) \/ DropAnswer(s)
    BY <1>4 DEF FaucetStep
  <2>2. CASE \E c \in Currencies : Transfer(s, c)
    <3>1. PICK c \in Currencies : Transfer(s, c)
      BY <2>2
    <3>2. Amount(request[s].account_type) \in Nat
      BY FaucetAssumption DEF Amount
    <3>3. /\ \/ free' = [free EXCEPT ![c] = @ + Amount(request[s].account_type)]
             \/ free' = free
          /\ reserved' = reserved /\ registered' = registered
      BY <3>1, Zenon DEF Transfer
    <3> QED BY <3>2, <3>3
  <2> QED BY <1>1, <2>1, <2>2 DEF Handle, GetType, EnsureAllowed, Finish, DropAnswer
<1>5. CASE RestartTimer \/ \E t \in Tasks : Poll(t)
  BY <1>1, <1>5 DEF RestartTimer, TaskEnds, Poll, TasksUnchanged
<1>6. CASE Environment
  <2>1. ASSUME NEW c \in Currencies, OperatorRegisters(c)
        PROVE  ChainInv' /\ registered \subseteq registered'
    BY <2>1, StartupAssumption DEF OperatorRegisters, Announce
  <2> QED BY <1>1, <1>6, <2>1 DEF Environment, HourPasses, Disconnect, Liquidate, StartupFails,
             Crash, Return, Disconnected, TaskEnds, TasksUnchanged
<1>7. ASSUME NEW c \in Currencies, Registration(c)
      PROVE  ChainInv' /\ registered \subseteq registered'
  <2>1. CASE RegisterWithAmount(c)
    <3> DEFINE amount == IF Collateral > free[c] THEN free[c] ELSE Collateral
    <3>1. amount \in Int
      BY StartupAssumption
    <3>2. register_vault(c, amount)
      BY <2>1 DEF RegisterWithAmount
    <3> HIDE DEF amount
    <3> QED BY <3>1, <3>2, RegisterKeepsChain
  <2>2. CASE RegisterWithAllowance(c)
    <3> DEFINE amount == UserAllowance - TX_FEES
    <3>1. amount \in Int
      BY StartupAssumption, FaucetAssumption
    <3>2. register_vault(c, amount)
      BY <2>2 DEF RegisterWithAllowance
    <3> HIDE DEF amount
    <3> QED BY <3>1, <3>2, RegisterKeepsChain
  <2>3. CASE DepositAllowance(c)
    <3> DEFINE amount == (VaultAllowance \div 3) * 2
    <3>1. amount \in Nat
      BY FaucetAssumption
    <3>2. deposit_collateral(c, amount) \/ UNCHANGED chainVars
      BY <2>3 DEF DepositAllowance
    <3> HIDE DEF amount
    <3>3. CASE deposit_collateral(c, amount)
      BY <3>1, <3>3, DepositsKeepsChain, RefusedKeepsChain DEF deposit_collateral
    <3> QED BY <1>1, <3>2, <3>3
  <2> QED BY <1>1, <1>7, <2>1, <2>2, <2>3 DEF Registration, CheckRegistered, AskFaucet
<1>8. ASSUME NEW c \in Currencies, HandleRegistration(c)
      PROVE  UNCHANGED chainVars
  BY <1>8 DEF HandleRegistration
<1>9. CASE UNCHANGED vars
  BY <1>1, <1>9 DEF vars
<1> QED BY <1>1, <1>3, <1>4, <1>5, <1>6, <1>7, <1>8, <1>9 DEF Next

-----------------------------------------------------------------------------
(* The service's state.                                                    *)

Stages == {"none", "spawned", "subscribed", "ended"}

\* Vault ids come from the parachain, as fetched or as events, and a task is
\* polled only while the service runs.
TaskInv ==
  /\ phase \in Phases /\ tasks \in [Tasks -> Stages]
  /\ vault_data \subseteq registered /\ liquidated \subseteq registered
  /\ fetch \subseteq registered /\ events \subseteq registered
  /\ \A t \in Tasks : tasks[t] = "none" <=> phase # "run"
  /\ fetch = {} \/ phase = "fetch"
  /\ events = {} \/ tasks["listener"] = "subscribed"

BoundInv == faults \in 0..MaxFaults /\ hours \in 0..MaxHours

LEMMA BoundStep ==
  ASSUME BoundInv, [Next]_vars
  PROVE  BoundInv'
<1> USE FaucetAssumption DEF BoundInv
<1>1. CASE Fault /\ UNCHANGED hours
  BY <1>1 DEF Fault
<1>2. CASE UNCHANGED <<faults, hours>>
  BY <1>2
<1>3. CASE HourPasses
  BY <1>3 DEF HourPasses
<1>4. CASE Start
  BY <1>2, <1>4 DEF Start, ConnectBitcoin, ConnectParachain, CheckConfig, NoFaucetUrl, Return,
     FundNative, NewPublicKey, RegisterPublicKey, CannotPayForKey, RegisterDone, StartFetch,
     AwaitBlock, AllEnded, FetchVault, FetchFails
<1>5. CASE FaucetStep
  BY <1>1, <1>2, <1>5 DEF FaucetStep, Handle, GetType, EnsureAllowed, Finish, DropAnswer, Transfer
<1>6. CASE RestartTimer \/ \E t \in Tasks : Poll(t)
  BY <1>2, <1>6 DEF RestartTimer, TaskEnds, Poll, TasksUnchanged
<1>7. CASE Environment
  BY <1>1, <1>2, <1>3, <1>7 DEF Environment, OperatorRegisters, Disconnect, Liquidate,
     StartupFails, Crash, Return, Disconnected, TaskEnds, TasksUnchanged
<1>8. ASSUME NEW c \in Currencies, Registration(c) \/ HandleRegistration(c)
      PROVE  BoundInv'
  BY <1>1, <1>2, <1>8 DEF Registration, HandleRegistration, CheckRegistered, RegisterWithAmount,
     AskFaucet, RegisterWithAllowance, DepositAllowance, RegisterUnchanged
<1>9. CASE UNCHANGED vars
  BY <1>2, <1>9 DEF vars
<1> QED BY <1>4, <1>5, <1>6, <1>7, <1>8, <1>9 DEF Next

\* A restart empties the service's state; the parachain's is kept.
LEMMA AgainTasks ==
  ASSUME TaskInv, Again, UNCHANGED <<registered, liquidated>>
  PROVE  TaskInv' /\ vault_data' = {}
BY DEF Again, TaskInv, Phases, NotSpawned, Tasks, Stages

\* A vault that is registered is announced to a listener, if there is one.
LEMMA RegisterTasks ==
  ASSUME TaskInv, NEW c \in Currencies, Announce(c),
         UNCHANGED <<phase, tasks, vault_data, liquidated, fetch>>
  PROVE  TaskInv'
BY DEF TaskInv, Announce

LEMMA TaskStep ==
  ASSUME TaskInv, [Next]_vars, registered \subseteq registered'
  PROVE  TaskInv'
<1>1. CASE UNCHANGED <<phase, tasks, vault_data, liquidated, fetch, events>>
  BY <1>1 DEF TaskInv
<1>2. CASE Start
  <2>1. CASE ConnectBitcoin \/ ConnectParachain \/ CheckConfig \/ FundNative \/ RegisterPublicKey
    BY <2>1 DEF ConnectBitcoin, ConnectParachain, CheckConfig, FundNative, RegisterPublicKey,
       TaskInv, Phases
  <2>2. CASE NewPublicKey
    BY <1>1, <2>2 DEF NewPublicKey
  <2>3. CASE \/ NoFaucetUrl \/ CannotPayForKey \/ RegisterDone \/ AllEnded
             \/ \E c \in Currencies : FetchFails(c)
    BY <2>3, AgainTasks DEF NoFaucetUrl, CannotPayForKey, RegisterDone, AllEnded, FetchFails,
       Return, chainVars
  <2>4. CASE StartFetch
    <3>1. /\ phase = "register" /\ phase' = "fetch" /\ fetch' \subseteq registered
          /\ UNCHANGED <<vault_data, tasks, events, liquidated, registered>>
      BY <2>4 DEF StartFetch, get_vaults_by_account_id, chainVars
    <3> QED BY <3>1 DEF TaskInv, Phases
  <2>5. CASE AwaitBlock
    BY <2>5 DEF AwaitBlock, TaskInv, Phases, Tasks, Stages
  <2>6. ASSUME NEW c \in Currencies, FetchVault(c)
        PROVE  TaskInv'
    <3>1. /\ phase = "fetch" /\ c \in fetch /\ fetch' = fetch \ {c}
          /\ vault_data' = vault_data \cup {c}
          /\ UNCHANGED <<phase, tasks, events, liquidated>>
      BY <2>6 DEF FetchVault, add_vault_id
    <3> QED BY <3>1 DEF TaskInv
  <2> QED BY <1>2, <2>1, <2>2, <2>3, <2>4, <2>5, <2>6 DEF Start
<1>3. CASE FaucetStep
  BY <1>1, <1>3 DEF FaucetStep, serviceVars
<1>4. ASSUME NEW t \in Tasks, TaskEnds(t)
      PROVE  TaskInv'
  BY <1>4 DEF TaskEnds, SendsSignal, TasksUnchanged, TaskInv, Tasks, Stages
<1>5. ASSUME NEW t \in Tasks, Poll(t)
      PROVE  TaskInv'
  BY <1>5 DEF Poll, TasksUnchanged, TaskInv, Tasks, Stages
<1>6. CASE Environment
  <2>1. CASE (HourPasses \/ Disconnect) /\ UNCHANGED <<config, liquidated, keyVars, serviceVars>>
    BY <1>1, <2>1 DEF serviceVars
  <2>2. ASSUME NEW c \in Currencies, OperatorRegisters(c)
        PROVE  TaskInv'
    BY <2>2, RegisterTasks DEF OperatorRegisters
  <2>3. ASSUME NEW c \in Currencies, Liquidate(c)
        PROVE  TaskInv'
    BY <2>3 DEF Liquidate, serviceVars, TaskInv
  <2>4. CASE StartupFails \/ Crash
    BY <2>4, AgainTasks DEF StartupFails, Crash, Return, chainVars
  <2>5. CASE Disconnected
    BY <1>4, <2>5 DEF Disconnected
  <2> QED BY <1>6, <2>1, <2>2, <2>3, <2>4, <2>5 DEF Environment
<1>7. ASSUME NEW c \in Currencies, Registration(c)
      PROVE  TaskInv'
  <2>1. UNCHANGED <<phase, tasks, vault_data, liquidated, fetch>>
    BY <1>7 DEF Registration, CheckRegistered, RegisterWithAmount, AskFaucet,
       RegisterWithAllowance, DepositAllowance, RegisterUnchanged
  <2>2. UNCHANGED events \/ Announce(c)
    BY <1>7 DEF Registration, CheckRegistered, RegisterWithAmount, AskFaucet,
       RegisterWithAllowance, DepositAllowance, register_vault
  <2> QED BY <1>1, <2>1, <2>2, RegisterTasks
<1>8. ASSUME NEW c \in Currencies, HandleRegistration(c)
      PROVE  TaskInv'
  <2>1. vault_data' \subseteq vault_data \cup {c} /\ c \in events /\ events' = events \ {c}
    BY <1>8 DEF HandleRegistration, TryAddVault, add_vault_id
  <2>2. UNCHANGED <<phase, tasks, liquidated, fetch>>
    BY <1>8 DEF HandleRegistration
  <2> QED BY <2>1, <2>2 DEF TaskInv
<1>9. CASE UNCHANGED vars
  BY <1>1, <1>9 DEF vars, serviceVars
<1> QED BY <1>2, <1>3, <1>4, <1>5, <1>6, <1>7, <1>8, <1>9, Zenon DEF Next, RestartTimer, Tasks

-----------------------------------------------------------------------------
(* The keys.                                                               *)

KeyInv == RunsWithKey /\ wallet = [c \in Currencies |-> wallet[c]]

\* add_vault_id leaves the vault's wallet, and the master wallet, with the key.
LEMMA AddVaultKeepsKeys ==
  ASSUME KeyInv, NEW c \in Currencies, add_vault_id(c), UNCHANGED publicKey
  PROVE  KeyInv'
<1>1. master \subseteq master'
  BY DEF add_vault_id, MasterWith
<1>2. wallet' = [wallet EXCEPT ![c] = @ \cup {publicKey}] /\ vault_data' = vault_data \cup {c}
      /\ publicKey \in master' /\ publicKey # NoKey
  BY DEF add_vault_id
<1>3. wallet' = [d \in Currencies |-> IF d = c THEN wallet[d] \cup {publicKey} ELSE wallet[d]]
  BY <1>2 DEF KeyInv
<1>4. ASSUME NEW d \in vault_data'
      PROVE  publicKey' # NoKey /\ publicKey' \in master' \cap wallet'[d]
  <2>1. CASE d = c
    BY <1>2, <1>3, <2>1
  <2>2. CASE d # c
    <3>1. d \in vault_data /\ publicKey \in master \cap wallet[d]
      BY <1>2, <2>2 DEF KeyInv, RunsWithKey
    <3>2. wallet'[d] = wallet[d]
      BY <1>2, <2>2 DEF KeyInv
    <3> QED BY <1>1, <1>2, <3>1, <3>2
  <2> QED BY <2>1, <2>2
<1> QED BY <1>3, <1>4 DEF KeyInv, RunsWithKey

LEMMA KeyStep ==
  ASSUME KeyInv, TaskInv, [Next]_vars
  PROVE  KeyInv'
<1>1. CASE UNCHANGED <<publicKey, master, wallet, vault_data>>
  BY <1>1 DEF KeyInv, RunsWithKey
<1>2. CASE Return
  BY <1>2, AgainTasks DEF Return, chainVars, keyVars, KeyInv, RunsWithKey
<1>3. CASE Start
  <2>1. CASE NewPublicKey
    BY <2>1 DEF NewPublicKey, KeyInv, RunsWithKey
  <2>2. CASE RegisterPublicKey
    <3>1. CASE publicKey = NoKey
      <4>1. vault_data = {}
        BY <3>1 DEF KeyInv, RunsWithKey
      <4> QED BY <2>2, <4>1 DEF RegisterPublicKey, KeyInv, RunsWithKey
    <3>2. CASE publicKey # NoKey
      BY <1>1, <2>2, <3>2 DEF RegisterPublicKey
    <3> QED BY <3>1, <3>2
  <2>3. CASE CannotPayForKey
    BY <2>3, AgainTasks DEF CannotPayForKey, chainVars, KeyInv, RunsWithKey
  <2>4. ASSUME NEW c \in Currencies, FetchVault(c)
        PROVE  KeyInv'
    BY <2>4, AddVaultKeepsKeys DEF FetchVault
  <2> QED BY <1>1, <1>2, <1>3, <2>1, <2>2, <2>3, <2>4 DEF Start, ConnectBitcoin, ConnectParachain,
      CheckConfig, NoFaucetUrl, FundNative, RegisterDone, StartFetch, AwaitBlock, AllEnded,
      FetchFails, keyVars
<1>4. CASE FaucetStep
  BY <1>1, <1>4 DEF FaucetStep, serviceVars, keyVars
<1>5. CASE RestartTimer \/ \E t \in Tasks : Poll(t)
  BY <1>1, <1>5 DEF RestartTimer, TaskEnds, Poll, TasksUnchanged, keyVars
<1>6. CASE Environment
  BY <1>1, <1>2, <1>6 DEF Environment, HourPasses, Disconnect, OperatorRegisters, Liquidate,
     StartupFails, Crash, Disconnected, TaskEnds, TasksUnchanged, serviceVars, keyVars
<1>7. ASSUME NEW c \in Currencies, Registration(c)
      PROVE  KeyInv'
  BY <1>1, <1>7 DEF Registration, CheckRegistered, RegisterWithAmount, AskFaucet,
     RegisterWithAllowance, DepositAllowance, RegisterUnchanged, keyVars
<1>8. ASSUME NEW c \in Currencies, HandleRegistration(c)
      PROVE  KeyInv'
  BY <1>1, <1>8, AddVaultKeepsKeys DEF HandleRegistration, TryAddVault
<1>9. CASE UNCHANGED vars
  BY <1>1, <1>9 DEF vars, serviceVars, keyVars
<1> QED BY <1>3, <1>4, <1>5, <1>6, <1>7, <1>8, <1>9 DEF Next

-----------------------------------------------------------------------------
(* The theorems.                                                           *)

IInv == ChainInv /\ TaskInv /\ BoundInv /\ KeyInv

LEMMA InitInv == Init => IInv
<1> SUFFICES ASSUME Init PROVE IInv
  OBVIOUS
<1>1. ChainInv
  BY StartupAssumption DEF Init, ChainInv
<1>2. TaskInv
  BY DEF Init, TaskInv, Phases, NotSpawned, Tasks, Stages
<1>3. BoundInv
  BY FaucetAssumption DEF Init, FaucetInit, BoundInv
<1>4. KeyInv
  BY DEF Init, KeyInv, RunsWithKey
<1> QED BY <1>1, <1>2, <1>3, <1>4 DEF IInv

LEMMA Invariant == Spec => []IInv
<1>1. IInv /\ [Next]_vars => IInv'
  BY ChainStep, TaskStep, BoundStep, KeyStep DEF IInv
<1> QED BY <1>1, InitInv, PTL DEF Spec

\* Balances never go below zero, although collateral and fees are subtracted from
\* them; what is fetched, announced, served or liquidated is registered; no task
\* outlives its service, and no event its listener.
THEOREM StartupTypeCorrect == Spec => []TypeOK
<1>1. IInv => TypeOK
  <2>1. ASSUME ChainInv
        PROVE  /\ registered \subseteq Currencies
               /\ \A c \in Currencies : free[c] >= 0 /\ reserved[c] >= 0
    BY <2>1 DEF ChainInv
  <2> QED BY <2>1 DEF IInv, TaskInv, BoundInv, TypeOK
<1> QED BY <1>1, Invariant, PTL

\* A vault is only served with a wallet that holds the account's key, which the
\* master wallet holds too, for any currencies, after any failures and restarts,
\* and whichever wallet had the key before.
THEOREM VaultRunsWithKey == Spec => []RunsWithKey
<1>1. IInv => RunsWithKey
  BY DEF IInv, KeyInv
<1> QED BY <1>1, Invariant, PTL

=============================================================================
