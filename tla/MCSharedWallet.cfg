SPECIFICATION Spec
CONSTANTS
  Chains <- MCChains
  Accounts <- MCAccounts
  MaxFaults = 0
  Blocks <- MCOneBlock
  ShareRows <- MCTwoShares
  NWindow = 4
  PageSize = 2
  PoolRewardRecipients <- MCRecipients
  RewardTo <- MCRewardTo
  RemoteInit = {"immature"}
  BlockChainOrder <- MCOrder
  Wallets <- MCWallets
  Parts <- MCSharedParts
  MinerMinimumPayment <- MCMinimum
  MinerSettings <- MCSettings
INVARIANT PaidBalanceToMiner
