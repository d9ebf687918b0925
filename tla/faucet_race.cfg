SPECIFICATION FaucetSpec
CONSTANTS
  Native = "KINT"
  Currencies = {"KINT"}
  Slots = {1, 2}
  UserAllowance = 2
  VaultAllowance = 6
  MAX_FUNDABLE_CLIENT_BALANCE = 4
  FAUCET_COOLDOWN_HOURS = 1
  MaxHours = 2
  MaxFaults = 0
PROPERTIES OncePerCooldown
CHECK_DEADLOCK FALSE
