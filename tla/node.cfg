\* Three processes on two chains, each with any command and configuration.
SPECIFICATION FairNodeSpec
CONSTANTS
    Endowment = 1000
    InitialDifficulty = 100000
    InitialReward = 100
    OutputValue = 100
    EvmEndowment = 100000
    EvmOtherEndowment = 10000
    FileSpec <- MCFileSpec
    SpecArgument = {"dev", "raw.json"}
    Block = {"d1", "t1", "t2", "t3"}
    Genesis = "genesis"
    Parent <- MCParent
    Tmp = Tmp
    ChainOf <- MCChainOf
    OperatorKey = {"own"}
    GeneratedKey = {"g1"}
    NoKey = NoKey
    NoConfig = NoConfig
    CommandLine <- MCCommandLine
    MaxStarts = 3
INVARIANTS NodeTypeOK KeysSurvive MappingOfOwnChain
PROPERTIES StartupSettles MappingCatchesUp
\* The last process has ended.
CHECK_DEADLOCK FALSE
