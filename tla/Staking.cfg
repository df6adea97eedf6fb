SPECIFICATION StakingSpec
CONSTANTS
  MaxSlot = 5
  Amounts = {0, 1}
  Stake = 2
  SlotsPerEpoch = 2
  VotingEpochs = 4
  FollowDistance = 3
  CommitteePeriod = 3
  UpdateDelay = 1
  Sweep = 1
  DepositEventTimeout = 6
  ActivationQueueTimeout = 24
  AttestationTimeout = 12
  ExitTimeout = 22
  MaxStart = 12
  MaxMissed = 3
  MaxLapsed = 4
  None = None
INVARIANTS EveryBlockVisited WalletMatches DoneMeansWithdrawn WaitsSuffice
CHECK_DEADLOCK FALSE
