SPECIFICATION Spec
CONSTANTS
  Chains <- MCChains
  Accounts <- MCAccounts
  MaxFaults = 1
  Blocks <- MCBlocks
  ShareRows <- MCShares
  NWindow = 4
  PageSize = 2
  PoolRewardRecipients <- MCRecipients
  RewardTo <- MCRewardTo
  RemoteInit = {"immature", "mismatch"}
  BlockChainOrder <- MCOrder
  Wallets <- MCWallets
  Parts <- MCParts
  MinerMinimumPayment <- MCMinimum
  MinerSettings <- MCSettings
INVARIANTS
  TypeOK NoUnpaidReset RecordedWasSent BalancesNonNegative TornRowsBounded
  RewardedOncePerFault CreditedWithinRewards OnlyConfirmedRewarded SettledWhenIdle
PROPERTIES StatusFinal DeletedWereCounted KeepsAccountBook DecidedIsSaved BalancePaidOut
