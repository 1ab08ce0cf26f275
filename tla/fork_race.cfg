\* One node that imports from the network and from its own miner.
SPECIFICATION Spec
CONSTANTS
    Node = {n1}
    Importer = {queue, miner}
    Block <- Names
    Genesis = "genesis"
    NoImport = NoImport
    NoSeal = NoSeal
    MaxU256 = 15
    PreHash <- MCPreHashes
    RawSeal <- MCRawSeals
    Decode <- MCDecode
    Sha3 <- MCSha3
    Blake2 <- MCBlake2
    Parent <- MCParent
    PreHashOf <- MCPreHash
    SealOf <- MCSeal
    NextDifficulty <- MCNext
INVARIANTS TiesAreBroken
\* Every block that can be imported has been.
CHECK_DEADLOCK FALSE
