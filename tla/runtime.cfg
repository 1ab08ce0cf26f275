\* Two blocks of up to two extrinsics, two extrinsics in the pool.
SPECIFICATION PoolSpec
CONSTANTS
    alice = "Alice"
    bob = "Bob"
    NoKey = NoKey
    ZeroSig = ZeroSig
    Key <- Keys
    Pubkey <- Keys
    InherentAuthors <- Keys
    H256 <- PoolH256
    H512 <- PoolH512
    MaxValue = 6
    PriorityMod = 5
    MaxBlock = 2
    GenesisUtxos <- MCGenesisUtxos
    Transactions <- MCTxs
    HashGenesis <- MCHashGenesis
    HashOutput <- MCHashOutput
    HashReward <- MCHashReward
    Verify <- MCVerify
    Issuance <- MCIssuance
    Account <- MCAccount
    NoAccount = NoAccount
    Unreadable = Unreadable
    MaxBalance = 40
    ExistentialDeposit = 3
    ExtrinsicFee = 1
    RewardValues = {0, 1, 6}
    MaxU256 = 31
    MaxSomething = 2
    NoValue = NoValue
    NoTx = NoTx
    NoExtrinsic = NoExtrinsic
    Genesis <- MCGenesis
    HeaderDigests <- MCDigests
    Extrinsics <- MCExtrinsics
    MaxBody = 2
    MaxPool = 2
INVARIANTS RuntimeTypeOK TargetIsQuotient NothingForgotten
PROPERTIES IssuanceFollowsSupply OneRewardPerBlock NoReplay
\* The chain stops at MaxBlock.
CHECK_DEADLOCK FALSE
