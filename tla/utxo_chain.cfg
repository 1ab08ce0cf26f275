\* Three blocks, an author in any of them, every transaction of the catalogue:
\* fees cut, payouts that wrap, outpoints listed twice.
SPECIFICATION AuditSpec
CONSTANTS
    alice = alice
    bob = bob
    NoKey = NoKey
    ZeroSig = ZeroSig
    Key <- Keys
    Pubkey <- Keys
    InherentAuthors <- Keys
    H256 <- MCH256
    H512 <- MCH512
    MaxValue = 6
    PriorityMod = 5
    MaxBlock = 3
    GenesisUtxos <- MCGenesisUtxos
    Transactions <- MCTransactions
    HashGenesis <- MCHashGenesis
    HashOutput <- MCHashOutput
    HashReward <- MCHashReward
    Verify <- MCVerify
    Issuance <- MCIssuance
INVARIANTS BooksBalance TypeOK NoDoubleSpend SpentStaysSpent AuthorIsCurrent
PROPERTIES ImplementsLifecycle NothingVanishes OutputsImmutable ValidityIsStable
\* The chain stops at MaxBlock.
CHECK_DEADLOCK FALSE
