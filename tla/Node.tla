-------------------------------- MODULE Node --------------------------------
(***************************************************************************)
(* The life of a node from its command line (node/src/command.rs) through  *)
(* the steps of new_partial and new_full (node/src/service.rs) to its end, *)
(* which may come at any time.  What is on disk outlives it: the database  *)
(* of the chain, the mapping of Ethereum hashes that Frontier keeps beside *)
(* it, and the keystore.  Each chain has its own, and one process runs at a *)
(* time (the database is locked).  Only what is under a temporary base     *)
(* path, as with --dev, goes with the process.                             *)
(***************************************************************************)
EXTENDS ChainSpec, Integers

CONSTANTS
    SpecArgument,   \* arguments of --chain
    Block,          \* blocks, genesis aside
    Genesis,        \* the genesis block, of any chain
    ChainOf(_),     \* the chain of a block, which its hash determines
    Parent(_),
    Tmp,            \* the temporary base path
    OperatorKey,    \* keys that --author names
    GeneratedKey,   \* keys that generate_with_phrase may return
    NoKey, NoConfig,
    CommandLine,    \* the configurations that processes are started with,
    MaxStarts       \* and the bound on processes

ChainId == {LoadSpec(arg).id : arg \in SpecArgument}

(* Forms of the --author argument; `None` is its absence.                    *)
Author == {"None", "0x", "ss58", "unreadable", "other version"}

(* `tmp`: the base path is temporary, by --tmp, or by --dev without a path.  *)
Config ==
    [chain : SpecArgument, author : Author, keystore_remote : BOOLEAN, keystore_path : BOOLEAN,
     tmp : BOOLEAN]

ForCommand(arg) ==
    [chain |-> arg, author |-> "None", keystore_remote |-> FALSE, keystore_path |-> TRUE,
     tmp |-> FALSE]

(* Subcommands that build the partial components and so open the databases.  *)
PartialCommand == {"CheckBlock", "ImportBlocks", "ExportBlocks", "ExportState", "Revert"}
Command == PartialCommand \cup {"PurgeChain", "Run"}

(* base_path / chains / id; one process at a time needs one temporary one.   *)
Directory == ChainId \cup {Tmp}

(* And frontier / db below it, the same for all.                             *)
FrontierDirectory == {<<d, "frontier">> : d \in Directory} \cup {<<"frontier">>}

ASSUME NodeAssumption ==
    /\ MaxStarts \in Nat /\ CommandLine \subseteq Config
    /\ Tmp \notin ChainId /\ Genesis \notin Block
    /\ \A b \in Block : ChainOf(b) \in ChainId /\ Parent(b) \in Block \cup {Genesis}
    /\ NoKey \notin OperatorKey \cup GeneratedKey

VARIABLES
    database,   \* the blocks in config.database of each directory
    mapping,    \* the blocks that Frontier has mapped, per directory of its own
    tips,       \* its current syncing tips, which it has still to map
    keystore,   \* the generated keys in the keystore files of each directory
    stage,      \* how far the process is
    command, config,
    key,        \* author, in new_full
    starts,     \* the processes so far
    stored,     \* history: the blocks that were ever in a database
    torn,       \* history: the directories of Frontier that hold half a write
    rewarded    \* history: the keys that blocks were mined for, on which chain and
                \*          whether with a keystore on disk, not under a temporary path

frontier == <<mapping, tips>>
disk == <<database, frontier, keystore>>
process == <<stage, command, config, key, starts>>
history == <<stored, torn, rewarded>>
nodeVars == <<disk, process, history>>

Stage ==
    {"down", "new_partial", "command", "build_network", "spawn_tasks", "decode_author",
     "start_mining_worker", "start_network", "running"}

NodeTypeOK ==
    /\ database \in [Directory -> SUBSET Block]
    /\ mapping \in [FrontierDirectory -> SUBSET Block]
    /\ tips \in [FrontierDirectory -> SUBSET Block]
    /\ keystore \in [Directory -> SUBSET GeneratedKey]
    /\ stage \in Stage /\ command \in Command /\ config \in Config \cup {NoConfig}
    /\ stage # "down" => config \in Config
    /\ key \in OperatorKey \cup GeneratedKey \cup {NoKey}
    /\ starts \in 0 .. MaxStarts
    /\ stored \in SUBSET Block /\ torn \in SUBSET FrontierDirectory
    /\ rewarded \subseteq [key : OperatorKey \cup GeneratedKey, chain : ChainId, kept : BOOLEAN]

NodeInit ==
    /\ database = [d \in Directory |-> {}]
    /\ mapping = [d \in FrontierDirectory |-> {}] /\ tips = mapping
    /\ keystore = [d \in Directory |-> {}]
    /\ stage = "down" /\ command = "Run" /\ config = NoConfig
    /\ key = NoKey /\ starts = 0
    /\ stored = {} /\ torn = {} /\ rewarded = {}

Chain == LoadSpec(config.chain).id
Home == IF config.tmp THEN Tmp ELSE Chain

(* Mutant: the directory does not depend on the chain.                       *)
FrontierDirOfProject(d) == <<"frontier">>

FrontierDir(d) == <<d, "frontier">>
Frontier == FrontierDir(Home)

GoTo(s) == stage' = s /\ UNCHANGED <<command, config, starts>>

(* A process that has ended has no command line and no key.                  *)
End ==
    /\ stage' = "down" /\ command' = "Run" /\ config' = NoConfig /\ key' = NoKey
    /\ UNCHANGED starts

(* And takes a temporary directory along.                                    *)
Discard ==
    /\ database' = [database EXCEPT ![Tmp] = {}]
    /\ keystore' = [keystore EXCEPT ![Tmp] = {}]
    /\ mapping' = [mapping EXCEPT ![<<Tmp, "frontier">>] = {}]
    /\ tips' = [tips EXCEPT ![<<Tmp, "frontier">>] = {}]

-----------------------------------------------------------------------------
(* run(): the command line is parsed and its branch taken.  Of the options   *)
(* of a configuration a subcommand has --chain only: the others are RunCmd's *)
(* and --author, which new_full alone reads.                                 *)
Start(cmd, conf) ==
    /\ cmd # "Run" => conf = ForCommand(conf.chain)
    /\ stage = "down" /\ starts < MaxStarts /\ starts' = starts + 1
    /\ command' = cmd /\ config' = conf /\ key' = NoKey
    /\ stage' = IF cmd = "PurgeChain" THEN "command" ELSE "new_partial"
    /\ UNCHANGED <<disk, history>>

(* new_partial.  Its early return leaves nothing behind.                     *)
NewPartial ==
    /\ stage = "new_partial"
    /\ IF config.keystore_remote THEN End
       ELSE GoTo(IF command = "Run" THEN "build_network" ELSE "command") /\ UNCHANGED key
    /\ UNCHANGED <<disk, history>>

(* A block enters the database, by any of the ways below, after its parent.  *)
Store(b) ==
    /\ b \notin database[Home] /\ ChainOf(b) = Chain
    /\ Parent(b) \in database[Home] \cup {Genesis}
    /\ database' = [database EXCEPT ![Home] = @ \cup {b}]
    /\ stored' = stored \cup {b}

(* import-blocks, one block at a time.                                       *)
ImportFile ==
    /\ stage = "command" /\ command = "ImportBlocks"
    /\ \E b \in Block : Store(b)
    /\ UNCHANGED <<frontier, keystore, process, torn, rewarded>>

(* Mutant: the purge takes the keystore along.                               *)
PurgeWithKeys ==
    /\ stage = "command" /\ command = "PurgeChain"
    /\ database' = [database EXCEPT ![Home] = {}]
    /\ keystore' = [keystore EXCEPT ![Home] = {}]
    /\ End
    /\ UNCHANGED <<frontier, history>>

(* purge-chain removes config.database and nothing else.                     *)
PurgeChain ==
    /\ stage = "command" /\ command = "PurgeChain"
    /\ database' = [database EXCEPT ![Home] = {}]
    /\ End
    /\ UNCHANGED <<frontier, keystore, history>>

(* The other commands end without a change; so does revert, for GRANDPA's    *)
(* part of it finds no data of GRANDPA and fails.                            *)
EndCommand ==
    /\ stage = "command" /\ command \in PartialCommand
    /\ End
    /\ UNCHANGED <<disk, history>>

-----------------------------------------------------------------------------
(* new_full, in its order.                                                   *)

BuildNetwork ==
    /\ stage = "build_network" /\ GoTo("spawn_tasks")
    /\ UNCHANGED <<disk, key, history>>

(* RPC and pool tasks, then the mapping worker.                              *)
SpawnTasks ==
    /\ stage = "spawn_tasks" /\ GoTo("decode_author")
    /\ UNCHANGED <<disk, key, history>>

(* Mutant: any address that can be read will do.                             *)
DecodesAnyVersion(author) == author \in {"0x", "ss58", "other version"}

Decodes(author) == author \in {"0x", "ss58"}

(* Mutant: there is no key.                                                  *)
KeyLeftOut == UNCHANGED <<key, keystore>>

(* generate_with_phrase, and insert_unknown of its phrase, which a keystore  *)
(* without a path does not write anywhere.                                   *)
GenerateKey ==
    /\ key' \in GeneratedKey
    /\ keystore' = IF config.keystore_path
                   THEN [keystore EXCEPT ![Home] = @ \cup {key'}] ELSE keystore

(* decode_author.  Its errors end the process, all tasks included, before    *)
(* anything is in a temporary directory.                                     *)
DecodeAuthor ==
    /\ stage = "decode_author"
    /\ \/ config.author = "None" /\ GenerateKey /\ GoTo("start_mining_worker")
       \/ /\ Decodes(config.author) /\ key' \in OperatorKey
          /\ GoTo("start_mining_worker") /\ UNCHANGED keystore
       \/ /\ config.author # "None" /\ ~Decodes(config.author)
          /\ End /\ UNCHANGED keystore
    /\ UNCHANGED <<database, frontier, history>>

(* The authoring task and the mining thread, which mine from here on.        *)
StartMiningWorker ==
    /\ stage = "start_mining_worker" /\ GoTo("start_network")
    /\ UNCHANGED <<disk, key, history>>

StartNetwork ==
    /\ stage = "start_network" /\ GoTo("running")
    /\ UNCHANGED <<disk, key, history>>

-----------------------------------------------------------------------------
(* What the tasks of a node do beside its startup.                           *)

Serving == stage \in {"decode_author", "start_mining_worker", "start_network", "running"}

(* The worker goes from the tips that it has on disk down to what is mapped, *)
(* and takes the leaves of the database when it has no tip left.             *)
Leaves == {b \in database[Home] : \A c \in database[Home] : Parent(c) # b}
Pending == (IF tips[Frontier] = {} THEN Leaves ELSE tips[Frontier]) \ mapping[Frontier]

MapTip(tip) == mapping' = [mapping EXCEPT ![Frontier] = @ \cup {tip}]

(* Mutant: the parent does not become a tip.                                 *)
NextTipsWithoutParent(tip) == Pending \ {tip}

NextTips(tip) == (Pending \ {tip}) \cup ({Parent(tip)} \ {Genesis})

(* One round of the mapping worker, woken by imports and every six seconds;  *)
(* the block import does not go through FrontierBlockImport.  A tip without  *)
(* a header in the database is an error, which changes nothing on disk.      *)
MapBlock ==
    /\ Serving
    /\ \/ \E tip \in Pending \cap database[Home] :
             MapTip(tip) /\ tips' = [tips EXCEPT ![Frontier] = NextTips(tip)]
       \/ /\ Pending = {} /\ tips[Frontier] # {}
          /\ tips' = [tips EXCEPT ![Frontier] = {}] /\ UNCHANGED mapping
    /\ UNCHANGED <<database, keystore, process, history>>

(* The miner's blocks are new.                                               *)
MineBlock ==
    /\ stage \in {"start_network", "running"}
    /\ \E b \in Block \ stored : Store(b)
    /\ rewarded' = rewarded \cup {[key |-> key, chain |-> Chain,
                                   kept |-> config.keystore_path /\ ~config.tmp]}
    /\ UNCHANGED <<frontier, keystore, process, torn>>

(* Blocks of the network come once it is started, purged ones again.         *)
ReceiveBlock ==
    /\ stage = "running"
    /\ \E b \in Block : Store(b)
    /\ UNCHANGED <<frontier, keystore, process, torn, rewarded>>

(* The process ends: by a signal, a crash, or an error of any step.          *)
Die ==
    /\ stage # "down" /\ End /\ Discard
    /\ UNCHANGED history

(* It ends between the two writes of a round of the mapping worker.          *)
DieMapping ==
    /\ Serving /\ ~config.tmp /\ End
    /\ \E tip \in Pending \cap database[Home] : MapTip(tip)
    /\ torn' = torn \cup {Frontier}
    /\ UNCHANGED <<database, tips, keystore, stored, rewarded>>

Startup ==
    NewPartial \/ BuildNetwork \/ SpawnTasks \/ DecodeAuthor \/ StartMiningWorker \/ StartNetwork

NodeNext ==
    \/ \E cmd \in Command, conf \in CommandLine : Start(cmd, conf)
    \/ Startup
    \/ ImportFile \/ PurgeChain \/ EndCommand
    \/ MapBlock \/ MineBlock \/ ReceiveBlock
    \/ Die \/ DieMapping

NodeSpec == NodeInit /\ [][NodeNext]_nodeVars

(* The main thread and the worker run.                                       *)
FairNodeSpec == NodeSpec /\ WF_nodeVars(Startup) /\ WF_nodeVars(MapBlock)

-----------------------------------------------------------------------------
(* Whatever crashes, purges and restarts come between, the key of every      *)
(* reward this node mined is the operator's or in the keystore of its chain: *)
(* decode_author registers a generated key before anything mines with it.    *)
(* Keys that are lost with their process are exempt: those of a keystore     *)
(* without a path, as the log of decode_author warns, and those under a      *)
(* temporary base path, of which it does not warn.                           *)
KeysSurvive ==
    \A r \in rewarded :
        r.kept => r.key \in OperatorKey \cup keystore[r.chain]

(* Frontier maps blocks of the chain whose database it stands beside only:   *)
(* runs of other chains under the same base path do not meet.                *)
MappingOfOwnChain ==
    \A c \in ChainId : mapping[FrontierDir(c)] \subseteq {b \in stored : ChainOf(b) = c}

(* A node whose configuration is in order comes up unless its process ends,  *)
(* and one with a remote keystore or an author that does not decode, an      *)
(* address of another version included, does not.                            *)
InOrder == ~config.keystore_remote /\ config.author \in {"None", "0x", "ss58"}
StartupSettles ==
    (stage # "down" /\ command = "Run") ~> (stage = "down" \/ (stage = "running" /\ InOrder))

(* A node that stays up maps every block of its chain, those of earlier      *)
(* processes, of commands and of side branches included, although they come  *)
(* behind the worker's back while it is on its way down from other tips.     *)
(* Two things stop it for good, in the crate as here: a tip whose header is  *)
(* gone, as after purge-chain, until it comes back, and a crash between the  *)
(* writes of the mapping and of the tips.                                    *)
HeaderMissing == ~(Pending \subseteq database[Home])
AllMapped == Serving => database[Home] \subseteq mapping[Frontier]
MappingCatchesUp ==
    (<>[](Serving /\ ~HeaderMissing /\ Frontier \notin torn)) => <>[]AllMapped

==============================================================================
