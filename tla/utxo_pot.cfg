\* The node's own inherents: no block names an author.
SPECIFICATION AuditSpec
CONSTANTS
    alice = alice
    bob = bob
    NoKey = NoKey
    ZeroSig = ZeroSig
    Key <- Keys
    Pubkey <- Keys
    InherentAuthors = {}
    H256 <- MCH256
    H512 <- MCH512
    MaxValue = 6
    PriorityMod = 5
    MaxBlock = 3
    GenesisUtxos <- MCGenesisUtxos
    Transactions <- MCTransactions
    HashGenesis <- MCHashGenesis
    HashOutput <- MCHashOutput
    HashReward <- MCHashReward
    Verify <- MCVerify
    Issuance <- MCIssuance
INVARIANTS PotDispersed
\* The chain stops at MaxBlock.
CHECK_DEADLOCK FALSE
