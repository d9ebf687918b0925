SPECIFICATION FairSpec
CONSTANTS
  Calls = {"fee", "KSM"}
  Symbols = {"BTC", "KSM", "USD", "USDT"}
  Value <- MCValue
  Decimals <- MCDecimals
  FeedNames = {"Kraken", "Dia"}
  Configs <- MCConfigs
  MaxRounds = 2
  MaxFaults = 2
INVARIANTS TypeOK RoutePricesPair RoundIsFed
PROPERTIES RatesMoveForward RoundCompletes
CHECK_DEADLOCK FALSE
