\* Two nodes with one importer each, the whole tree in every order.
SPECIFICATION FairSpec
CONSTANTS
    Node = {n1, n2}
    Importer = {queue}
    Block <- Names
    Genesis = "genesis"
    NoImport = NoImport
    NoSeal = NoSeal
    MaxU256 = 15
    PreHash <- MCPreHashes
    RawSeal <- MCRawSeals
    Decode <- MCDecode
    Sha3 <- MCSha3
    Blake2 <- MCBlake2
    Parent <- MCParent
    PreHashOf <- MCPreHash
    SealOf <- MCSeal
    NextDifficulty <- MCNext
INVARIANTS ForkTypeOK BestIsHeaviest SameBlocksSameBest
PROPERTIES Convergence
\* Every block that can be imported has been.
CHECK_DEADLOCK FALSE
