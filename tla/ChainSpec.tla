------------------------------ MODULE ChainSpec ------------------------------
(***************************************************************************)
(* The chain specifications of the node (node/src/chain_spec.rs) and how   *)
(* the command line names them (load_spec of node/src/command.rs).         *)
(* Amounts are constants, which the runs scale down.                       *)
(***************************************************************************)

CONSTANTS
    Endowment,          \* 1 << 60
    InitialDifficulty,  \* 100_000
    InitialReward,      \* 100
    OutputValue,        \* 100
    EvmEndowment,       \* 2^128 - 1 for one account of the EVM
    EvmOtherEndowment,  \* 2^96 - 1 for another
    FileSpec(_)         \* ChainSpec::from_json_file of any other argument

Developers == {"Alice", "Bob"}
LocalUsers == Developers \cup {"Charlie", "Dave", "Eve", "Ferdie"}
Stash == [Alice |-> "Alice//stash", Bob |-> "Bob//stash", Charlie |-> "Charlie//stash",
          Dave |-> "Dave//stash", Eve |-> "Eve//stash", Ferdie |-> "Ferdie//stash"]
WithStashes(users) == users \cup {Stash[u] : u \in users}

DevelopmentConfig ==
    [id |-> "dev", root |-> "Alice", endowed |-> WithStashes(Developers), utxos |-> Developers]

LocalTestnetConfig ==
    [id |-> "local_testnet", root |-> "Alice",
     endowed |-> WithStashes(LocalUsers), utxos |-> Developers]

(* load_spec: no argument means the local testnet.                           *)
LoadSpec(arg) ==
    CASE arg = "dev" -> DevelopmentConfig
      [] arg \in {"", "local"} -> LocalTestnetConfig
      [] OTHER -> FileSpec(arg)

(* The genesis storage of the pallets that the modules here are about.       *)
TestnetGenesis(spec) ==
    [sudo       |-> spec.root,
     balances   |-> [a \in spec.endowed |-> Endowment],
     evm        |-> [a \in {"7ed8", "6Be0"} |->
                        IF a = "7ed8" THEN EvmEndowment ELSE EvmOtherEndowment],
     difficulty |-> InitialDifficulty,
     reward     |-> InitialReward,
     utxos      |-> {[value |-> OutputValue, pubkey |-> k] : k \in spec.utxos}]

==============================================================================
