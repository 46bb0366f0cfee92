SPECIFICATION Spec
CONSTANTS
  Chains <- MCChains
  Accounts <- MCAccounts
  MaxFaults = 0
  Blocks <- MCBlocks
  ShareRows <- MCShares
  NWindow = 4
  PageSize = 2
  PoolRewardRecipients <- MCRecipients
  RewardTo <- MCRewardTo
  RemoteInit = {"immature"}
  BlockChainOrder <- MCOrder
  Wallets <- MCWallets
  Parts <- MCParts
  MinerMinimumPayment <- MCMinimum
  MinerSettings <- MCSettings
INVARIANT OverflowMeansOverspent
