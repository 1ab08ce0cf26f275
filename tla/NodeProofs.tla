----------------------------- MODULE NodeProofs -----------------------------
(***************************************************************************)
(* A node, its disk and its clock.                                         *)
(*                                                                         *)
(* The disk, for any chains, any number of processes and any command lines:*)
(* the inductive invariant says of a process that mines that its key is    *)
(* kept, and of the databases what is in them.  The timestamps, for any    *)
(* number of nodes, any clocks and any chain: the inductive invariant says *)
(* that block h is h - 1 minimum periods later than block 1.               *)
(***************************************************************************)
EXTENDS Node, Clock, TLAPS

Mines == stage \in {"start_mining_worker", "start_network", "running"}

KeyKept ==
    Mines => /\ key \in OperatorKey \cup GeneratedKey
             /\ config.keystore_path /\ ~config.tmp => key \in OperatorKey \cup keystore[Chain]

(* A database holds blocks of its own chain only.                            *)
DatabaseOfChain == \A c \in ChainId : database[c] \subseteq {b \in stored : ChainOf(b) = c}

NodeInv == NodeTypeOK /\ KeyKept /\ KeysSurvive /\ DatabaseOfChain /\ MappingOfOwnChain

(* The part of the invariant that is about the blocks.                       *)
BlocksInv ==
    /\ database \in [Directory -> SUBSET Block]
    /\ mapping \in [FrontierDirectory -> SUBSET Block]
    /\ tips \in [FrontierDirectory -> SUBSET Block]
    /\ stored \in SUBSET Block /\ torn \in SUBSET FrontierDirectory
    /\ DatabaseOfChain /\ MappingOfOwnChain

(* The part about the process and its keys.                                  *)
KeysInv ==
    /\ keystore \in [Directory -> SUBSET GeneratedKey]
    /\ stage \in Stage /\ command \in Command /\ config \in Config \cup {NoConfig}
    /\ stage # "down" => config \in Config
    /\ key \in OperatorKey \cup GeneratedKey \cup {NoKey}
    /\ starts \in 0 .. MaxStarts
    /\ rewarded \subseteq [key : OperatorKey \cup GeneratedKey, chain : ChainId, kept : BOOLEAN]
    /\ KeyKept /\ KeysSurvive

LEMMA InvParts == NodeInv <=> BlocksInv /\ KeysInv
BY DEF NodeInv, BlocksInv, KeysInv, NodeTypeOK

LEMMA HomeType ==
    ASSUME config \in Config
    PROVE  /\ Chain \in ChainId /\ Home \in Directory
           /\ config.tmp => Home = Tmp
           /\ ~config.tmp => Home = Chain
           /\ config.tmp \in BOOLEAN /\ config.keystore_path \in BOOLEAN
BY DEF Config, Chain, ChainId, Home, Directory

LEMMA Directories ==
    ASSUME NEW c \in Directory
    PROVE  /\ FrontierDir(c) \in FrontierDirectory
           /\ \A d \in Directory : FrontierDir(c) = FrontierDir(d) => c = d
BY DEF FrontierDir, FrontierDirectory

(* The temporary directory is none of a chain's.                             *)
LEMMA ChainDirectory ==
    ASSUME NEW c \in ChainId
    PROVE  c \in Directory /\ c # Tmp /\ FrontierDir(c) # <<Tmp, "frontier">>
BY NodeAssumption DEF Directory, FrontierDir

LEMMA NodeInit1 == NodeInit => NodeInv
<1> SUFFICES ASSUME NodeInit PROVE NodeInv
  OBVIOUS
<1>1. NodeTypeOK
  BY NodeAssumption DEF NodeInit, NodeTypeOK, Stage, Command
<1>2. KeyKept /\ KeysSurvive
  BY DEF NodeInit, KeyKept, Mines, KeysSurvive
<1>3. DatabaseOfChain /\ MappingOfOwnChain
  BY Directories, ChainDirectory DEF NodeInit, DatabaseOfChain, MappingOfOwnChain
<1> QED
  BY <1>1, <1>2, <1>3 DEF NodeInv

-----------------------------------------------------------------------------
LEMMA StoreStep ==
    ASSUME BlocksInv, config \in Config, NEW b \in Block, Store(b), UNCHANGED <<frontier, torn>>
    PROVE  BlocksInv'
<1>1. Home \in Directory /\ Chain \in ChainId /\ (Home = Tmp \/ Home = Chain)
  BY HomeType
<1>2. UNCHANGED <<mapping, tips, torn>>
  BY DEF frontier
<1>3. database' \in [Directory -> SUBSET Block] /\ stored' \in SUBSET Block
  BY <1>1 DEF BlocksInv, Store
<1>4. DatabaseOfChain'
  BY <1>1, ChainDirectory DEF BlocksInv, Store, DatabaseOfChain
<1>5. MappingOfOwnChain'
  BY <1>2 DEF BlocksInv, Store, MappingOfOwnChain
<1> QED
  BY <1>2, <1>3, <1>4, <1>5 DEF BlocksInv

(* Emptying a directory, and its mapping with it or not.                     *)
LEMMA EmptyBlocks ==
    ASSUME BlocksInv, UNCHANGED stored, torn' \in SUBSET FrontierDirectory,
           NEW d \in Directory,
           database' = [database EXCEPT ![d] = {}],
           \/ UNCHANGED frontier
           \/ /\ mapping' = [mapping EXCEPT ![FrontierDir(d)] = {}]
              /\ tips' = [tips EXCEPT ![FrontierDir(d)] = {}]
    PROVE  BlocksInv'
<1>1. database' \in [Directory -> SUBSET Block]
  BY DEF BlocksInv
<1>2. /\ mapping' \in [FrontierDirectory -> SUBSET Block]
      /\ tips' \in [FrontierDirectory -> SUBSET Block]
      /\ \A f \in FrontierDirectory : mapping'[f] \subseteq mapping[f]
  BY Directories DEF BlocksInv, frontier
<1>3. DatabaseOfChain'
  BY ChainDirectory DEF BlocksInv, DatabaseOfChain
<1>4. MappingOfOwnChain'
  BY <1>2, ChainDirectory, Directories DEF BlocksInv, MappingOfOwnChain
<1> QED
  BY <1>1, <1>2, <1>3, <1>4 DEF BlocksInv

LEMMA DiscardBlocks ==
    ASSUME BlocksInv, Discard, UNCHANGED <<stored, torn>>
    PROVE  BlocksInv'
<1>1. Tmp \in Directory /\ FrontierDir(Tmp) = <<Tmp, "frontier">>
  BY DEF Directory, FrontierDir
<1>2. torn' \in SUBSET FrontierDirectory
  BY DEF BlocksInv
<1> QED
  BY <1>1, <1>2, EmptyBlocks DEF Discard

LEMMA PurgeBlocks ==
    ASSUME BlocksInv, config \in Config, PurgeChain
    PROVE  BlocksInv'
<1>1. Home \in Directory
  BY HomeType
<1>2. torn' \in SUBSET FrontierDirectory /\ UNCHANGED <<stored, frontier>>
  BY DEF PurgeChain, history, BlocksInv
<1> QED
  BY <1>1, <1>2, EmptyBlocks DEF PurgeChain

(* The worker maps a block of the database it stands beside.                 *)
LEMMA MapTipStep ==
    ASSUME BlocksInv, config \in Config, NEW tip \in database[Home], MapTip(tip),
           UNCHANGED <<database, stored>>, tips' \in [FrontierDirectory -> SUBSET Block],
           torn' \in SUBSET FrontierDirectory
    PROVE  BlocksInv'
<1>1. Home \in Directory /\ Frontier \in FrontierDirectory /\ tip \in Block
  BY HomeType, Directories DEF Frontier, BlocksInv
<1>2. /\ mapping' = [mapping EXCEPT ![Frontier] = @ \cup {tip}]
      /\ mapping' \in [FrontierDirectory -> SUBSET Block]
  BY <1>1 DEF MapTip, BlocksInv
<1>3. ASSUME NEW c \in ChainId
      PROVE  mapping'[FrontierDir(c)] \subseteq {x \in stored : ChainOf(x) = c}
  <2>1. c \in Directory /\ FrontierDir(c) \in FrontierDirectory
    BY ChainDirectory, Directories
  <2>2. mapping[FrontierDir(c)] \subseteq {x \in stored : ChainOf(x) = c}
    BY DEF BlocksInv, MappingOfOwnChain
  <2>3. CASE c = Home
    <3>1. tip \in {x \in stored : ChainOf(x) = c}
      BY <2>3 DEF BlocksInv, DatabaseOfChain
    <3> QED
      BY <1>1, <1>2, <2>1, <2>2, <2>3, <3>1 DEF Frontier, BlocksInv
  <2>4. CASE c # Home
    <3>1. FrontierDir(c) # Frontier
      BY <1>1, <2>1, <2>4, Directories DEF Frontier
    <3> QED
      BY <1>2, <2>1, <2>2, <3>1 DEF BlocksInv
  <2> QED
    BY <2>3, <2>4
<1> QED
  BY <1>2, <1>3 DEF BlocksInv, DatabaseOfChain, MappingOfOwnChain

(* What it has still to do stays a set of blocks.                            *)
LEMMA TipsType ==
    ASSUME BlocksInv, config \in Config
    PROVE  /\ Frontier \in FrontierDirectory
           /\ [tips EXCEPT ![Frontier] = {}] \in [FrontierDirectory -> SUBSET Block]
           /\ \A tip \in Pending :
                 [tips EXCEPT ![Frontier] = NextTips(tip)] \in [FrontierDirectory -> SUBSET Block]
<1>1. Home \in Directory /\ Frontier \in FrontierDirectory
  BY HomeType, Directories DEF Frontier
<1>2. database[Home] \subseteq Block /\ tips[Frontier] \subseteq Block
  BY <1>1 DEF BlocksInv
<1>3. Pending \subseteq Block
  BY <1>2 DEF Pending, Leaves
<1>4. ASSUME NEW tip \in Pending PROVE NextTips(tip) \subseteq Block
  BY <1>3, NodeAssumption DEF NextTips
<1> QED
  BY <1>1, <1>4 DEF BlocksInv

LEMMA MapStep ==
    ASSUME BlocksInv, config \in Config, MapBlock
    PROVE  BlocksInv'
<1>1. UNCHANGED <<database, stored, torn>> /\ torn' \in SUBSET FrontierDirectory
  BY DEF MapBlock, history, BlocksInv
<1>2. CASE \E tip \in Pending \cap database[Home] :
              MapTip(tip) /\ tips' = [tips EXCEPT ![Frontier] = NextTips(tip)]
  BY <1>1, <1>2, TipsType, MapTipStep
<1>3. CASE tips' = [tips EXCEPT ![Frontier] = {}] /\ UNCHANGED mapping
  BY <1>1, <1>3, TipsType DEF BlocksInv, DatabaseOfChain, MappingOfOwnChain
<1> QED
  BY <1>2, <1>3 DEF MapBlock

LEMMA DieMappingBlocks ==
    ASSUME BlocksInv, config \in Config, DieMapping
    PROVE  BlocksInv'
<1>1. /\ UNCHANGED <<database, stored, tips>> /\ tips' \in [FrontierDirectory -> SUBSET Block]
      /\ torn' = torn \cup {Frontier}
  BY DEF DieMapping, BlocksInv
<1>2. torn' \in SUBSET FrontierDirectory
  BY <1>1, TipsType DEF BlocksInv
<1>3. PICK tip \in database[Home] : MapTip(tip)
  BY DEF DieMapping
<1> QED
  BY <1>1, <1>2, <1>3, MapTipStep

LEMMA BlocksStep == NodeInv /\ [NodeNext]_nodeVars => BlocksInv'
<1> SUFFICES ASSUME NodeInv, [NodeNext]_nodeVars PROVE BlocksInv'
  OBVIOUS
<1>1. BlocksInv /\ (stage # "down" => config \in Config)
  BY InvParts DEF KeysInv
<1>2. ASSUME UNCHANGED <<database, frontier, stored, torn>> PROVE BlocksInv'
  BY <1>1, <1>2 DEF BlocksInv, DatabaseOfChain, MappingOfOwnChain, frontier
<1>3. CASE \E cmd \in Command, conf \in CommandLine : Start(cmd, conf)
  BY <1>2, <1>3 DEF Start, disk, history
<1>4. CASE Startup
  BY <1>2, <1>4 DEF Startup, NewPartial, BuildNetwork, SpawnTasks, DecodeAuthor,
                    StartMiningWorker, StartNetwork, disk, history
<1>5. CASE ImportFile \/ MineBlock \/ ReceiveBlock
  BY <1>1, <1>5, StoreStep DEF ImportFile, MineBlock, ReceiveBlock
<1>6. CASE PurgeChain
  BY <1>1, <1>6, PurgeBlocks DEF PurgeChain
<1>7. CASE EndCommand
  BY <1>2, <1>7 DEF EndCommand, disk, history
<1>8. CASE MapBlock
  BY <1>1, <1>8, MapStep DEF MapBlock, Serving
<1>9. CASE Die
  BY <1>1, <1>9, DiscardBlocks DEF Die, history
<1>10. CASE DieMapping
  BY <1>1, <1>10, DieMappingBlocks DEF DieMapping, Serving
<1>11. CASE UNCHANGED nodeVars
  BY <1>2, <1>11 DEF nodeVars, disk, history
<1> QED
  BY <1>3, <1>4, <1>5, <1>6, <1>7, <1>8, <1>9, <1>10, <1>11 DEF NodeNext

-----------------------------------------------------------------------------
(* No key is lost but with a temporary directory.                            *)
LEMMA EndKeys ==
    ASSUME KeysInv, End, UNCHANGED rewarded,
           \/ UNCHANGED keystore
           \/ keystore' = [keystore EXCEPT ![Tmp] = {}]
    PROVE  KeysInv'
<1>1. stage' = "down" /\ command' = "Run" /\ config' = NoConfig /\ key' = NoKey /\ starts' = starts
  BY DEF End
<1>2. /\ keystore' \in [Directory -> SUBSET GeneratedKey]
      /\ \A c \in ChainId : keystore'[c] = keystore[c]
  BY ChainDirectory DEF KeysInv
<1>3. KeyKept' /\ KeysSurvive'
  BY <1>1, <1>2 DEF KeysInv, KeyKept, Mines, KeysSurvive
<1> QED
  BY <1>1, <1>2, <1>3 DEF KeysInv, Stage, Command

(* A step of the startup that leaves the keys alone.                         *)
LEMMA GoToKeys ==
    ASSUME KeysInv, stage # "down", NEW s \in Stage, GoTo(s), UNCHANGED <<key, keystore, rewarded>>,
           s \in {"start_mining_worker", "start_network", "running"} => Mines
    PROVE  KeysInv'
<1>1. stage' = s /\ UNCHANGED <<command, config, starts>>
  BY DEF GoTo
<1>2. KeyKept' /\ KeysSurvive'
  BY <1>1 DEF KeysInv, KeyKept, Mines, KeysSurvive, Chain
<1> QED
  BY <1>1, <1>2 DEF KeysInv

LEMMA DecodeKeys ==
    ASSUME KeysInv, DecodeAuthor
    PROVE  KeysInv'
<1>1. stage = "decode_author" /\ UNCHANGED rewarded /\ config \in Config
  BY DEF DecodeAuthor, history, KeysInv
<1>2. /\ Chain \in ChainId /\ Home \in Directory
      /\ ~config.tmp => Home = Chain
  BY <1>1, HomeType
<1>3. CASE GenerateKey /\ GoTo("start_mining_worker")
  <2>1. /\ key' \in GeneratedKey /\ stage' = "start_mining_worker"
        /\ UNCHANGED <<command, config, starts>> /\ Chain' = Chain
    BY <1>3 DEF GenerateKey, GoTo, Chain, Home
  <2>2. /\ keystore' \in [Directory -> SUBSET GeneratedKey]
        /\ \A d \in Directory : keystore[d] \subseteq keystore'[d]
        /\ config.keystore_path /\ ~config.tmp => key' \in keystore'[Chain]
    BY <1>2, <1>3, <2>1 DEF GenerateKey, KeysInv
  <2>3. KeysSurvive'
    BY <1>1, <2>2, ChainDirectory DEF KeysInv, KeysSurvive
  <2>4. KeyKept'
    BY <2>1, <2>2 DEF KeyKept
  <2> QED
    BY <1>1, <2>1, <2>2, <2>3, <2>4 DEF KeysInv, Stage
<1>4. CASE key' \in OperatorKey /\ GoTo("start_mining_worker") /\ UNCHANGED keystore
  <2>1. stage' = "start_mining_worker" /\ UNCHANGED <<command, config, starts>>
    BY <1>4 DEF GoTo
  <2>2. KeyKept' /\ KeysSurvive'
    BY <1>1, <1>4, <2>1 DEF KeysInv, KeyKept, KeysSurvive
  <2> QED
    BY <1>1, <1>4, <2>1, <2>2 DEF KeysInv, Stage
<1>5. CASE End /\ UNCHANGED keystore
  BY <1>1, <1>5, EndKeys
<1> QED
  BY <1>3, <1>4, <1>5 DEF DecodeAuthor

LEMMA StartupKeys ==
    ASSUME KeysInv, Startup
    PROVE  KeysInv'
<1>1. CASE NewPartial
  <2>1. CASE End
    BY <1>1, <2>1, EndKeys DEF NewPartial, disk, history
  <2>2. CASE ~End
    BY <1>1, <2>2, GoToKeys DEF NewPartial, disk, history, Stage
  <2> QED
    BY <2>1, <2>2
<1>2. CASE BuildNetwork
  BY <1>2, GoToKeys DEF BuildNetwork, disk, history, Stage
<1>3. CASE SpawnTasks
  BY <1>3, GoToKeys DEF SpawnTasks, disk, history, Stage
<1>4. CASE DecodeAuthor
  BY <1>4, DecodeKeys
<1>5. CASE StartMiningWorker
  BY <1>5, GoToKeys DEF StartMiningWorker, disk, history, Stage, Mines
<1>6. CASE StartNetwork
  BY <1>6, GoToKeys DEF StartNetwork, disk, history, Stage, Mines
<1> QED
  BY <1>1, <1>2, <1>3, <1>4, <1>5, <1>6 DEF Startup

LEMMA MineKeys ==
    ASSUME KeysInv, MineBlock
    PROVE  KeysInv'
<1>1. /\ Mines /\ config \in Config /\ UNCHANGED <<keystore, stage, command, config, key, starts>>
      /\ rewarded' = rewarded \cup {[key |-> key, chain |-> Chain,
                                    kept |-> config.keystore_path /\ ~config.tmp]}
  BY DEF MineBlock, KeysInv, Mines, process
<1>2. Chain \in ChainId /\ (config.keystore_path /\ ~config.tmp) \in BOOLEAN
  BY <1>1, HomeType
<1>3. /\ key \in OperatorKey \cup GeneratedKey
      /\ config.keystore_path /\ ~config.tmp => key \in OperatorKey \cup keystore[Chain]
  BY <1>1 DEF KeysInv, KeyKept
<1> DEFINE k == config.keystore_path /\ ~config.tmp
           r == [key |-> key, chain |-> Chain, kept |-> k]
<1>0. r \in [key : OperatorKey \cup GeneratedKey, chain : ChainId, kept : BOOLEAN]
  <2> HIDE DEF k
  <2> QED
    BY <1>2, <1>3 DEF k
<1>4. rewarded' \subseteq
          [key : OperatorKey \cup GeneratedKey, chain : ChainId, kept : BOOLEAN]
  BY <1>1, <1>0 DEF KeysInv
<1>5. KeysSurvive'
  <2>1. r.kept => r.key \in OperatorKey \cup keystore[r.chain]
    <3>1. k => key \in OperatorKey \cup keystore[Chain]
      BY <1>3
    <3> HIDE DEF k
    <3> QED
      BY <3>1
  <2>2. rewarded' = rewarded \cup {r} /\ UNCHANGED keystore
    BY <1>1
  <2> HIDE DEF r
  <2> QED
    BY <2>1, <2>2 DEF KeysInv, KeysSurvive
<1>6. KeyKept'
  BY <1>1 DEF KeysInv, KeyKept, Mines, Chain
<1> QED
  BY <1>1, <1>4, <1>5, <1>6 DEF KeysInv

LEMMA KeysStep == NodeInv /\ [NodeNext]_nodeVars => KeysInv'
<1> SUFFICES ASSUME NodeInv, [NodeNext]_nodeVars PROVE KeysInv'
  OBVIOUS
<1>1. KeysInv
  BY InvParts
<1>2. ASSUME UNCHANGED <<keystore, process, rewarded>> PROVE KeysInv'
  BY <1>1, <1>2 DEF process, KeysInv, KeyKept, Mines, KeysSurvive, Chain
<1>3. ASSUME NEW cmd \in Command, NEW conf \in CommandLine, Start(cmd, conf) PROVE KeysInv'
  <2>1. /\ stage' \in {"command", "new_partial"} /\ key' = NoKey /\ starts' \in 0 .. MaxStarts
        /\ command' = cmd /\ config' = conf /\ conf \in Config /\ UNCHANGED <<keystore, rewarded>>
    BY <1>1, <1>3, NodeAssumption DEF Start, disk, history, KeysInv
  <2>2. KeyKept' /\ KeysSurvive'
    BY <1>1, <2>1 DEF KeysInv, KeyKept, Mines, KeysSurvive
  <2> QED
    BY <1>1, <2>1, <2>2 DEF KeysInv, Stage
<1>4. CASE Startup
  BY <1>1, <1>4, StartupKeys
<1>5. CASE ImportFile \/ ReceiveBlock \/ MapBlock
  BY <1>2, <1>5 DEF ImportFile, ReceiveBlock, MapBlock, history
<1>6. CASE PurgeChain \/ EndCommand \/ Die \/ DieMapping
  BY <1>1, <1>6, EndKeys DEF PurgeChain, EndCommand, Die, DieMapping, Discard, disk, history
<1>7. CASE MineBlock
  BY <1>1, <1>7, MineKeys
<1>8. CASE UNCHANGED nodeVars
  BY <1>2, <1>8 DEF nodeVars, disk, history
<1> QED
  BY <1>3, <1>4, <1>5, <1>6, <1>7, <1>8 DEF NodeNext

LEMMA NodeInvariance == NodeSpec => []NodeInv
<1>1. NodeInv /\ [NodeNext]_nodeVars => NodeInv'
  BY BlocksStep, KeysStep, InvParts DEF NodeInv, BlocksInv, KeysInv, NodeTypeOK
<1> QED
  BY <1>1, NodeInit1, PTL DEF NodeSpec

-----------------------------------------------------------------------------
(* Every process, at whatever step it ends, leaves disk and process in their *)
(* types: what runs has a configuration, and its rewards have keys.          *)
THEOREM NodeTypeCorrect == NodeSpec => []NodeTypeOK
<1>1. NodeInv => NodeTypeOK
  BY DEF NodeInv
<1> QED
  BY <1>1, NodeInvariance, PTL

(* Through any starts, purges and crashes the key of every reward that was   *)
(* mined with a keystore on disk, not under a temporary base path, is the    *)
(* operator's or in the keystore of its chain.                               *)
THEOREM RewardKeysSurvive == NodeSpec => []KeysSurvive
<1>1. NodeInv => KeysSurvive
  BY DEF NodeInv
<1> QED
  BY <1>1, NodeInvariance, PTL

(* Frontier never maps a block of one chain beside the database of another.  *)
THEOREM MappingsApart == NodeSpec => []MappingOfOwnChain
<1>1. NodeInv => MappingOfOwnChain
  BY DEF NodeInv
<1> QED
  BY <1>1, NodeInvariance, PTL

-----------------------------------------------------------------------------
(* The first timestamp dates every later block.                              *)
Spaced == \A h \in 1 .. Len(stamps) : stamps[1] + (h - 1) * MinimumPeriod <= stamps[h]

ClockInv == ClockTypeOK /\ NotAheadOfClock /\ Spaced

LEMMA PeriodType == MinimumPeriod \in Nat
BY ClockAssumption DEF MinimumPeriod

(* What a block that passes the check adds to the chain.                     *)
LEMMA NextStamp ==
    ASSUME ClockInv, NEW n \in Node, NEW time \in Stamp, Len(stamps) < MaxBlocks,
           CheckInherents(n, Len(stamps) + 1, time), stamps' = Append(stamps, time)
    PROVE  /\ stamps' \in Seq(Stamp) /\ Len(stamps') = Len(stamps) + 1
           /\ \A h \in 1 .. Len(stamps) : stamps'[h] = stamps[h]
           /\ stamps'[Len(stamps) + 1] = time
           /\ Spaced'
<1>1. stamps \in Seq(Stamp) /\ Len(stamps) \in Nat
  BY DEF ClockInv, ClockTypeOK
<1>2. /\ stamps' \in Seq(Stamp) /\ Len(stamps') = Len(stamps) + 1
      /\ \A h \in 1 .. Len(stamps) : stamps'[h] = stamps[h]
      /\ stamps'[Len(stamps) + 1] = time
  BY <1>1
<1>3. ASSUME NEW h \in 1 .. Len(stamps) + 1
      PROVE  stamps'[1] + (h - 1) * MinimumPeriod <= stamps'[h]
  <2>1. CASE h <= Len(stamps)
    BY <1>1, <1>2, <2>1 DEF ClockInv, Spaced
  <2>2. CASE h = Len(stamps) + 1 /\ Len(stamps) = 0
    <3>1. (h - 1) * MinimumPeriod = 0
      BY <2>2, PeriodType
    <3> QED
      BY <1>1, <1>2, <2>2, <3>1 DEF Stamp
  <2>3. CASE h = Len(stamps) + 1 /\ Len(stamps) > 0
    <3> DEFINE l == Len(stamps)
               p == MinimumPeriod
    <3>1. l \in Nat \ {0} /\ p \in Nat /\ stamps[1] \in Nat /\ stamps[l] \in Nat
      BY <1>1, <2>3, PeriodType DEF Stamp
    <3>2. time >= stamps[l] + p
      BY <2>3, <3>1 DEF CheckInherents, Now
    <3>3. stamps[1] + (l - 1) * p <= stamps[l]
      BY <1>1, <2>3 DEF ClockInv, Spaced
    <3>4. stamps'[1] = stamps[1] /\ stamps'[h] = time /\ h - 1 = l
      BY <1>1, <1>2, <2>3
    <3> HIDE DEF l, p
    <3>5. l * p = (l - 1) * p + p /\ (l - 1) * p \in Nat
      BY <3>1
    <3>6. stamps[1] + l * p <= time
      BY <3>1, <3>2, <3>3, <3>5 DEF Stamp
    <3> QED
      BY <3>4, <3>6 DEF p
  <2> QED
    BY <1>1, <2>1, <2>2, <2>3
<1> QED
  BY <1>2, <1>3 DEF Spaced

LEMMA ClockInit1 == ClockInit => ClockInv
<1> SUFFICES ASSUME ClockInit PROVE ClockInv
  OBVIOUS
<1>1. stamps = <<>> /\ Len(stamps) = 0 /\ \A n \in Node : height[n] = 0
  BY DEF ClockInit
<1>2. ClockTypeOK
  BY <1>1, ClockAssumption DEF ClockInit, ClockTypeOK, Time, Stamp
<1> QED
  BY <1>1, <1>2 DEF ClockInv, NotAheadOfClock, Spaced

LEMMA TickStep == ASSUME ClockInv, NEW n \in Node, Tick(n) PROVE ClockInv'
<1>1. /\ clock[n] \in Time /\ clock' = [clock EXCEPT ![n] = @ + 1] /\ clock[n] < MaxClock
      /\ UNCHANGED <<stamps, height, template>>
  BY DEF Tick, ClockInv, ClockTypeOK
<1>2. clock' \in [Node -> Time] /\ \A m \in Node : clock[m] <= clock'[m]
  BY <1>1, ClockAssumption DEF ClockInv, ClockTypeOK, Time
<1>3. ClockTypeOK' /\ Spaced'
  BY <1>1, <1>2 DEF ClockInv, ClockTypeOK, Spaced
<1>4. ASSUME NEW m \in Node, height[m] > 0 PROVE stamps[height[m]] <= clock'[m] + MaxDrift
  <2>1. stamps[height[m]] \in Nat /\ clock[m] \in Nat /\ clock'[m] \in Nat
    BY <1>2, <1>4, ClockAssumption DEF ClockInv, ClockTypeOK, Time, Stamp
  <2>2. stamps[height[m]] <= clock[m] + MaxDrift
    BY <1>4 DEF ClockInv, NotAheadOfClock
  <2> QED
    BY <1>2, <2>1, <2>2, ClockAssumption
<1> QED
  BY <1>1, <1>3, <1>4 DEF ClockInv, NotAheadOfClock

LEMMA BuildStep == ASSUME ClockInv, NEW n \in Node, BuildTemplate(n) PROVE ClockInv'
<1>1. /\ UNCHANGED <<clock, stamps, height>> /\ height[n] < MaxBlocks
      /\ template' = [template EXCEPT ![n] = [parent |-> height[n], time |-> InherentTime(n)]]
  BY DEF BuildTemplate
<1>2. height[n] \in 0 .. MaxBlocks /\ clock[n] \in Nat /\ Now(height[n]) \in Nat
  BY ClockAssumption DEF ClockInv, ClockTypeOK, Time, Now, Stamp
<1>3. InherentTime(n) \in Stamp
  BY <1>2, PeriodType DEF InherentTime, Stamp
<1>4. [parent |-> height[n], time |-> InherentTime(n)] \in Template
  BY <1>1, <1>2, <1>3, ClockAssumption DEF Template
<1>5. ClockTypeOK'
  BY <1>1, <1>4 DEF ClockInv, ClockTypeOK
<1> QED
  BY <1>1, <1>5 DEF ClockInv, NotAheadOfClock, Spaced

LEMMA SealStep == ASSUME ClockInv, NEW n \in Node, SealBlock(n) PROVE ClockInv'
<1> DEFINE h == Len(stamps) + 1
           time == template[n].time
<1>1. /\ template[n] \in Template /\ time \in Stamp /\ template[n].parent \in 0 .. MaxBlocks - 1
      /\ UNCHANGED clock /\ Len(stamps) \in Nat
  BY DEF SealBlock, ClockInv, ClockTypeOK, Template
<1>2. template' \in [Node -> Template \cup {NoTemplate}]
  BY DEF SealBlock, TakeTemplate, ClockInv, ClockTypeOK
<1>3. CASE UNCHANGED <<stamps, height>>
  BY <1>1, <1>2, <1>3 DEF ClockInv, ClockTypeOK, NotAheadOfClock, Spaced
<1>4. CASE /\ template[n].parent + 1 = h /\ CheckInherents(n, h, time)
           /\ stamps' = Append(stamps, time) /\ height' = [height EXCEPT ![n] = h]
  <2>1. height[n] \in 0 .. Len(stamps) /\ height \in [Node -> 0 .. Len(stamps)]
    BY DEF ClockInv, ClockTypeOK
  <2>2. Len(stamps) < MaxBlocks
    BY <1>1, <1>4, ClockAssumption
  <2>3. /\ stamps' \in Seq(Stamp) /\ Len(stamps') = Len(stamps) + 1 /\ Spaced'
        /\ \A k \in 1 .. Len(stamps) : stamps'[k] = stamps[k]
        /\ stamps'[Len(stamps) + 1] = time
    BY <1>1, <1>4, <2>2, NextStamp
  <2>4. height' \in [Node -> 0 .. Len(stamps')] /\ Len(stamps') <= MaxBlocks
    BY <1>1, <1>4, <2>1, <2>2, <2>3, ClockAssumption
  <2>5. ClockTypeOK'
    BY <1>1, <1>2, <2>3, <2>4 DEF ClockInv, ClockTypeOK
  <2>6. ASSUME NEW m \in Node, height'[m] > 0
        PROVE  stamps'[height'[m]] <= clock'[m] + MaxDrift
    <3>1. CASE m = n
      BY <1>1, <1>4, <2>1, <2>3, <3>1 DEF CheckInherents
    <3>2. CASE m # n
      <4>1. height'[m] = height[m] /\ height[m] \in 1 .. Len(stamps)
        BY <1>4, <2>1, <2>6, <3>2
      <4> QED
        BY <1>1, <2>3, <4>1 DEF ClockInv, NotAheadOfClock
    <3> QED
      BY <3>1, <3>2
  <2> QED
    BY <2>3, <2>5, <2>6 DEF ClockInv, NotAheadOfClock
<1> QED
  BY <1>3, <1>4 DEF SealBlock

LEMMA ImportStep == ASSUME ClockInv, NEW n \in Node, ImportBlock(n) PROVE ClockInv'
<1>1. /\ UNCHANGED <<clock, stamps, template>> /\ height' = [height EXCEPT ![n] = @ + 1]
      /\ height[n] \in 0 .. Len(stamps) /\ height[n] < Len(stamps) /\ Len(stamps) \in Nat
      /\ stamps[height[n] + 1] <= clock[n] + MaxDrift
  BY DEF ImportBlock, CheckInherents, ClockInv, ClockTypeOK
<1>2. ClockTypeOK' /\ Spaced'
  BY <1>1 DEF ClockInv, ClockTypeOK, Spaced
<1>3. ASSUME NEW m \in Node, height'[m] > 0 PROVE stamps[height'[m]] <= clock[m] + MaxDrift
  BY <1>1, <1>3 DEF ClockInv, ClockTypeOK, NotAheadOfClock
<1> QED
  BY <1>1, <1>2, <1>3 DEF ClockInv, NotAheadOfClock

LEMMA ClockStep == ClockInv /\ [ClockNext]_clockVars => ClockInv'
<1> SUFFICES ASSUME ClockInv, [ClockNext]_clockVars PROVE ClockInv'
  OBVIOUS
<1>1. CASE ClockNext
  BY <1>1, TickStep, BuildStep, SealStep, ImportStep DEF ClockNext
<1>2. CASE UNCHANGED clockVars
  BY <1>2 DEF clockVars, ClockInv, ClockTypeOK, NotAheadOfClock, Spaced
<1> QED
  BY <1>1, <1>2

LEMMA ClockInvariance == ClockSpec => []ClockInv
BY ClockInit1, ClockStep, PTL DEF ClockSpec

(* Clocks, timestamps, heights and templates keep their types, whatever is    *)
(* built, sealed, turned down or offered again.                              *)
THEOREM ClockTypeCorrect == ClockSpec => []ClockTypeOK
<1>1. ClockInv => ClockTypeOK
  BY DEF ClockInv
<1> QED
  BY <1>1, ClockInvariance, PTL

(* No node has a block from further in the future than the drift it allows. *)
THEOREM NeverAhead == ClockSpec => []NotAheadOfClock
<1>1. ClockInv => NotAheadOfClock
  BY DEF ClockInv
<1> QED
  BY <1>1, ClockInvariance, PTL

LEMMA SpacedBelowClock == ClockInv => RateIsBounded
<1> SUFFICES ASSUME ClockInv, NEW n \in Node, height[n] > 0
             PROVE  stamps[1] + (height[n] - 1) * MinimumPeriod <= clock[n] + MaxDrift
  BY DEF RateIsBounded
<1> DEFINE h == height[n]
<1>1. /\ h \in 1 .. Len(stamps) /\ h \in Nat
      /\ stamps[1] \in Nat /\ stamps[h] \in Nat /\ clock[n] \in Nat
  BY ClockAssumption DEF ClockInv, ClockTypeOK, Time, Stamp
<1>2. stamps[1] + (h - 1) * MinimumPeriod <= stamps[h]
  BY <1>1 DEF ClockInv, Spaced
<1>3. stamps[h] <= clock[n] + MaxDrift
  BY DEF ClockInv, NotAheadOfClock
<1>4. (h - 1) * MinimumPeriod \in Nat
  BY <1>1, PeriodType
<1> HIDE DEF h
<1> QED
  BY <1>1, <1>2, <1>3, <1>4, ClockAssumption DEF h

(* However fast seals are found, a chain has no more blocks than minimum     *)
(* periods between its first block and the time, and the drift.              *)
THEOREM RateBounded == ClockSpec => []RateIsBounded
BY SpacedBelowClock, ClockInvariance, PTL

=============================================================================
