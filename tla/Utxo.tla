-------------------------------- MODULE Utxo --------------------------------
(***************************************************************************)
(* The UTXO pallet (runtime/src/utxo.rs): the store of unspent outputs and *)
(* the pot of fees, the validation shared by the transaction pool and by   *)
(* dispatch, the dispatch of a transaction and the payout of the pot when  *)
(* a block is finalized.                                                   *)
(*                                                                         *)
(* Hashes and signatures are parameters: an outpoint is whatever the hash  *)
(* returns, and the assumptions below say that the hash is collision free. *)
(* Everything else about the encoding is left out.                         *)
(***************************************************************************)
EXTENDS Integers, Sequences, FiniteSets, Functions

CONSTANTS
    Pubkey,             \* public keys outputs are locked to
    H256,               \* outpoints: the keys of UtxoStore
    H512,               \* signature scripts
    ZeroSig,            \* H512::zero()
    MaxValue,           \* the largest Value (u128::MAX)
    PriorityMod,        \* one more than the largest priority (2^64)
    MaxBlock,           \* the last block number that is reached
    GenesisUtxos,       \* GenesisConfig.genesis_utxos
    Transactions,       \* the transactions that may be submitted
    HashGenesis(_),     \* BlakeTwo256::hash_of(&output)
    HashOutput(_, _),   \* BlakeTwo256::hash_of(&(&transaction.encode(), index))
    HashReward(_, _),   \* BlakeTwo256::hash_of(&(&utxo, block_number))
    Verify(_, _, _),    \* sr25519_verify(signature, message, public key)
    Issuance(_)         \* T::Issuance::issuance(block_number)

Value == 0 .. MaxValue

TransactionOutput == [value : Value, pubkey : Pubkey]
TransactionInput  == [outpoint : H256, sigscript : H512]
Transaction == [inputs : Seq(TransactionInput), outputs : Seq(TransactionOutput)]

Outpoints(tx) == {tx.inputs[i].outpoint : i \in DOMAIN tx.inputs}

(* Where update_storage puts each output: index i of the code is position   *)
(* i + 1 of the sequence.                                                    *)
OutputKey(tx, i) == HashOutput(tx, i - 1)
OutputKeys(tx) == {OutputKey(tx, i) : i \in DOMAIN tx.outputs}

BlockNumber == 1 .. MaxBlock

GenesisKeys == {HashGenesis(out) : out \in GenesisUtxos}

(* The outpoints block n may pay its author with.                            *)
RewardKeys(n) == {HashReward([value |-> v, pubkey |-> k], n) : v \in Value, k \in Pubkey}

ASSUME SizeAssumption ==
    /\ MaxValue \in Nat
    /\ PriorityMod \in Nat \ {0}
    /\ MaxBlock \in Nat

ASSUME DataAssumption ==
    /\ ZeroSig \in H512
    /\ GenesisUtxos \subseteq TransactionOutput /\ IsFiniteSet(GenesisUtxos)
    /\ Transactions \subseteq Transaction
    /\ \A n \in BlockNumber : Issuance(n) \in Value

ASSUME HashesAreOutpoints ==
    /\ GenesisKeys \subseteq H256
    /\ \A tx \in Transactions : OutputKeys(tx) \subseteq H256
    /\ \A n \in BlockNumber : RewardKeys(n) \subseteq H256

(* BlakeTwo256 is collision free and the three kinds of preimage differ.     *)
ASSUME CollisionFree ==
    /\ \A t, u \in Transactions : \A i \in DOMAIN t.outputs, j \in DOMAIN u.outputs :
          OutputKey(t, i) = OutputKey(u, j) => t = u /\ i = j
    /\ \A m, n \in BlockNumber : m # n => RewardKeys(m) \cap RewardKeys(n) = {}
    /\ \A out, other \in GenesisUtxos : HashGenesis(out) = HashGenesis(other) => out = other
    /\ \A tx \in Transactions : OutputKeys(tx) \cap GenesisKeys = {}
    /\ \A tx \in Transactions, n \in BlockNumber : OutputKeys(tx) \cap RewardKeys(n) = {}
    /\ \A n \in BlockNumber : RewardKeys(n) \cap GenesisKeys = {}

VARIABLES
    utxoStore,      \* UtxoStore: outpoint -> output
    rewardTotal     \* RewardTotal: fees collected and not yet paid out

UtxoTypeOK ==
    /\ DOMAIN utxoStore \subseteq H256
    /\ \A op \in DOMAIN utxoStore : utxoStore[op] \in TransactionOutput
    /\ rewardTotal \in Value

(* The genesis build: every configured output under its own hash.            *)
UtxoInit ==
    /\ utxoStore = [op \in GenesisKeys |->
                        CHOOSE out \in GenesisUtxos : HashGenesis(out) = op]
    /\ rewardTotal = 0

-----------------------------------------------------------------------------
(* Validation: what validate_transaction returns in the current state.       *)

(* get_simple_transaction: the transaction with its signatures blanked.      *)
SimpleTransaction(tx) ==
    [tx EXCEPT !.inputs = [i \in DOMAIN tx.inputs |->
                              [tx.inputs[i] EXCEPT !.sigscript = ZeroSig]]]

(* The duplicate checks: a map keyed by whole inputs (or outputs) is as long *)
(* as the list.                                                              *)
AllDistinct(list) == \A i, j \in DOMAIN list : list[i] = list[j] => i = j

(* Positions of the inputs whose outpoint is in the store.                   *)
Found(tx) == {i \in DOMAIN tx.inputs : tx.inputs[i].outpoint \in DOMAIN utxoStore}

(* missing_utxos, the tags the transaction requires (get_missing_utxos).     *)
Missing(tx) == Outpoints(tx) \ DOMAIN utxoStore

TotalInput(tx)  == SumFunction([i \in Found(tx) |-> utxoStore[tx.inputs[i].outpoint].value])
TotalOutput(tx) == SumFunction([i \in DOMAIN tx.outputs |-> tx.outputs[i].value])

SignaturesValid(tx) ==
    \A i \in Found(tx) :
        Verify(tx.inputs[i].sigscript, SimpleTransaction(tx),
               utxoStore[tx.inputs[i].outpoint].pubkey)

(* The conditions under which validate_transaction returns Ok.  A sum that   *)
(* is not a Value is one a checked_add refused; the sums are compared only   *)
(* when nothing is missing.                                                  *)
ValidateTransaction(tx) ==
    /\ tx.inputs # <<>> /\ tx.outputs # <<>>
    /\ AllDistinct(tx.inputs) /\ AllDistinct(tx.outputs)
    /\ SignaturesValid(tx)
    /\ TotalInput(tx) \in Value
    /\ \A i \in DOMAIN tx.outputs : tx.outputs[i].value > 0
    /\ OutputKeys(tx) \cap DOMAIN utxoStore = {}
    /\ TotalOutput(tx) \in Value
    /\ Missing(tx) = {} => TotalInput(tx) >= TotalOutput(tx)

(* Mutant: the priority is that of the whole pot.                            *)
PriorityOfPot(tx) == (rewardTotal + TotalInput(tx) - TotalOutput(tx)) % PriorityMod

(* The reward, and the priority field that carries it: `reward as u64`.      *)
Fee(tx) == IF Missing(tx) = {} THEN TotalInput(tx) - TotalOutput(tx) ELSE 0
Priority(tx) == Fee(tx) % PriorityMod

(* A transaction the pool may call ready and dispatch accepts.               *)
Ready(tx) == ValidateTransaction(tx) /\ Missing(tx) = {}

-----------------------------------------------------------------------------
(* update_storage: inputs leave the store, outputs enter under new keys.     *)
NewOutput(tx, op) == tx.outputs[CHOOSE i \in DOMAIN tx.outputs : OutputKey(tx, i) = op]

(* Mutant: spent outputs stay in the store.                                  *)
UpdateKeepsInputs(tx, reward) ==
    /\ rewardTotal + reward \in Value
    /\ rewardTotal' = rewardTotal + reward
    /\ utxoStore' = [op \in DOMAIN utxoStore \cup OutputKeys(tx) |->
                        IF op \in OutputKeys(tx) THEN NewOutput(tx, op) ELSE utxoStore[op]]

(* Mutant: the loop over the outputs stops one short.                        *)
UpdateDropsOutput(tx, reward) ==
    LET made == OutputKeys(tx) \ {OutputKey(tx, Len(tx.outputs))}
    IN  /\ rewardTotal + reward \in Value
        /\ rewardTotal' = rewardTotal + reward
        /\ utxoStore' = [op \in (DOMAIN utxoStore \ Outpoints(tx)) \cup made |->
                            IF op \in made THEN NewOutput(tx, op) ELSE utxoStore[op]]

UpdateStorage(tx, reward) ==
    /\ rewardTotal + reward \in Value
    /\ rewardTotal' = rewardTotal + reward
    /\ utxoStore' = [op \in (DOMAIN utxoStore \ Outpoints(tx)) \cup OutputKeys(tx) |->
                        IF op \in OutputKeys(tx) THEN NewOutput(tx, op) ELSE utxoStore[op]]

(* spend: validate again, insist that nothing is missing, update.  A call    *)
(* that fails has not written anything yet: it is a stuttering step.         *)
Spend(tx) ==
    /\ ValidateTransaction(tx)
    /\ Missing(tx) = {}
    /\ UpdateStorage(tx, Priority(tx))

(* Mutant: a wider integer, or a payout that saturates nowhere.              *)
PayoutUnbounded(number) == rewardTotal + Issuance(number)

(* disperse_reward: the pot and the issuance become one output.  The `+` is  *)
(* unchecked and wraps in a release build.                                   *)
Payout(number) == (rewardTotal + Issuance(number)) % (MaxValue + 1)
RewardOutput(key, number) == [value |-> Payout(number), pubkey |-> key]

(* Mutants: the key leaves out the block number, or the value as well.       *)
RewardOutpointOfOutput(key, number) == HashReward(RewardOutput(key, number), 1)
RewardOutpointOfAuthor(key, number) == HashReward([value |-> 0, pubkey |-> key], 1)

RewardOutpoint(key, number) == HashReward(RewardOutput(key, number), number)

(* Mutant: the pot is read and not taken.                                    *)
DisperseKeepsPot(key, number) ==
    /\ rewardTotal' = rewardTotal
    /\ utxoStore' = [op \in DOMAIN utxoStore \cup {RewardOutpoint(key, number)} |->
                        IF op = RewardOutpoint(key, number)
                        THEN RewardOutput(key, number) ELSE utxoStore[op]]

DisperseReward(key, number) ==
    /\ rewardTotal' = 0
    /\ utxoStore' = [op \in DOMAIN utxoStore \cup {RewardOutpoint(key, number)} |->
                        IF op = RewardOutpoint(key, number)
                        THEN RewardOutput(key, number) ELSE utxoStore[op]]

(* on_finalize with no author: an event and nothing else.                    *)
WasteReward == UNCHANGED <<utxoStore, rewardTotal>>

=============================================================================
