SPECIFICATION FairSpec
CONSTANTS
  Native = "KINT"
  Currencies = {"KINT", "KSM"}
  Slots = {1}
  UserAllowance = 3
  VaultAllowance = 6
  MAX_FUNDABLE_CLIENT_BALANCE = 4
  FAUCET_COOLDOWN_HOURS = 0
  TX_FEES = 2
  Fee = 1
  Collateral = 2
  Balances <- NothingOrNative
  Configurations <- OneOfEach
  MaxHours = 1
  MaxFaults = 1
  PromptPolls = TRUE
INVARIANTS TypeOK RunsWithKey
PROPERTIES RegisteredIsServed AutoRegisters ServiceRestarts
