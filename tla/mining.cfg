\* Three best blocks, templates that race with submissions, one never solved.
SPECIFICATION FairMiningSpec
CONSTANTS
    MaxHead = 2
    MaxU256 = 7
    Content <- Contents
    None = None
    NoSeal = NoSeal
    PreHash <- MCPreHashes
    RawSeal <- MCRawSeals
    PreHashOf <- MCPreHash
    DifficultyAt <- MCDifficulty
    Encode <- MCEncode
    Decode <- MCDecode
    Sha3 <- MCSha3
    Blake2 <- MCBlake2
INVARIANTS MiningTypeOK WorkCounts
PROPERTIES OnlyOutdatedWorkIsLost CurrentTemplateStays StaleWorkEnds ChainGrows
