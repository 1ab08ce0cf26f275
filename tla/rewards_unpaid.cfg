\* The miner starts without an account.
SPECIFICATION RewardsSpec
CONSTANTS
    alice = alice
    bob = bob
    miner = miner
    Account <- Accounts
    NoAccount = NoAccount
    Unreadable = Unreadable
    MaxBalance = 12
    ExistentialDeposit = 5
    RewardValues = {0, 1, 6}
    GenesisReward = 1
    GenesisBalances <- Balances
    MaxBlocks = 4
PROPERTIES AnnouncedIsPaid
\* The chain stops at MaxBlocks when no one has anything to transfer.
CHECK_DEADLOCK FALSE
