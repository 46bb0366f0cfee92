SPECIFICATION Spec
CONSTANTS
  Submissions <- MCSubmissions
  Instants <- MCInstants
  MaxFaults = 1
  Miners <- MCMiners
  Workers <- MCWorkers
  MinerOf <- MCMinerOf
  WorkerOf <- MCWorkerOf
  Difficulty <- MCDifficulty
  Second = 10
  HashRateWindow = 6000
  HashesPerUnit = 6000
  StatWindow = 12000
  Hour = 36000
  Slots = 2
  Amounts = {0, 5}
INVARIANTS
  TypeOK RateNotInflated
  ShownBalanceReal PanicExplained PartialRateExplained HistoryComplete
