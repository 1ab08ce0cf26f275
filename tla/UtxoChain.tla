------------------------------ MODULE UtxoChain ------------------------------
(***************************************************************************)
(* The block author pallet and the UTXO pallet driven by the execution of  *)
(* blocks: a block is initialized, an inherent may set its author,         *)
(* transactions are dispatched, the block is finalized.  Every pallet sees *)
(* the hooks of construct_runtime! in runtime/src/lib.rs.                  *)
(*                                                                         *)
(* log and authorSetAt are history variables: no action reads them.        *)
(***************************************************************************)
EXTENDS BlockAuthor, Utxo

CONSTANT InherentAuthors    \* keys for which a block may carry set_author

(* The 32 bytes of the author's key become the pubkey of its output.         *)
ASSUME AuthorAssumption == Key \subseteq Pubkey /\ InherentAuthors \subseteq Key

VARIABLES
    number,         \* System::block_number()
    phase,          \* "idle" between blocks, "open" while one is executed
    log,            \* the transactions dispatched successfully, in order
    authorSetAt     \* the block in which author was last written

chainVars == <<author, utxoStore, rewardTotal, number, phase, log, authorSetAt>>

TypeOK ==
    /\ AuthorTypeOK
    /\ UtxoTypeOK
    /\ number \in 0 .. MaxBlock
    /\ phase \in {"idle", "open"}
    /\ phase = "open" => number > 0
    /\ log \in Seq(Transactions)
    /\ authorSetAt \in 0 .. MaxBlock

Init ==
    /\ AuthorInit
    /\ UtxoInit
    /\ number = 0
    /\ phase = "idle"
    /\ log = <<>>
    /\ authorSetAt = 0

(* initialize_block: the number advances and the author is forgotten.        *)
InitializeBlock ==
    /\ phase = "idle"
    /\ number < MaxBlock
    /\ number' = number + 1
    /\ phase' = "open"
    /\ ResetAuthor
    /\ UNCHANGED <<utxoStore, rewardTotal, log, authorSetAt>>

ApplySetAuthor(origin, key) ==
    /\ phase = "open"
    /\ SetAuthor(origin, key)
    /\ authorSetAt' = number
    /\ UNCHANGED <<utxoStore, rewardTotal, number, phase, log>>

ApplySpend(tx) ==
    /\ phase = "open"
    /\ Spend(tx)
    /\ log' = Append(log, tx)
    /\ UNCHANGED <<author, number, phase, authorSetAt>>

(* finalize_block: the pot goes to the author, if there is one.              *)
FinalizeBlock ==
    /\ phase = "open"
    /\ IF BlockAuthorOf = NoKey THEN WasteReward ELSE DisperseReward(BlockAuthorOf, number)
    /\ phase' = "idle"
    /\ UNCHANGED <<author, number, log, authorSetAt>>

Next ==
    \/ InitializeBlock
    \/ \E origin \in Origin, key \in InherentAuthors : ApplySetAuthor(origin, key)
    \/ \E tx \in Transactions : ApplySpend(tx)
    \/ FinalizeBlock

Spec == Init /\ [][Next]_chainVars

-----------------------------------------------------------------------------
(* Where outpoints come from and where they go.                              *)

(* The blocks that are finalized, and so may have paid a reward.             *)
Finalized == IF phase = "open" THEN 1 .. (number - 1) ELSE 1 .. number

SpentBy(txs) == UNION {Outpoints(txs[i]) : i \in DOMAIN txs}
MadeBy(txs) == UNION {OutputKeys(txs[i]) : i \in DOMAIN txs}
Spent == SpentBy(log)

(* The outpoints of the chain as OutpointLifecycle sees them.                *)
Lifecycle == INSTANCE OutpointLifecycle WITH
    unspent <- DOMAIN utxoStore, spent <- Spent, open <- (phase = "open")

-----------------------------------------------------------------------------
(* Over the whole history of the chain no outpoint is consumed by two        *)
(* dispatched transactions, and in particular none is replayed: there is no  *)
(* nonce, only the store lookup of validate_transaction and the removal in   *)
(* update_storage.                                                           *)
NoDoubleSpend ==
    \A i, j \in DOMAIN log : i # j => Outpoints(log[i]) \cap Outpoints(log[j]) = {}

(* A consumed outpoint is gone for good: neither a later transaction nor a   *)
(* reward inserts under its key again.                                       *)
SpentStaysSpent == Spent \cap DOMAIN utxoStore = {}

(* Nothing leaves the store but what a dispatched transaction consumed, and  *)
(* all of its outputs enter: neither update_storage nor a payout loses one.  *)
NothingVanishes ==
    [][DOMAIN utxoStore \cup MadeBy(log') \subseteq DOMAIN utxoStore' \cup Spent']_chainVars

(* An output is never replaced under its key while it is in the store: the   *)
(* inserts of update_storage and of disperse_reward are unconditional, so    *)
(* this rests on every key being fresh.                                      *)
OutputsImmutable ==
    [][\A op \in DOMAIN utxoStore : op \in DOMAIN utxoStore' =>
            utxoStore'[op] = utxoStore[op]]_chainVars

(* What the pool learned about a transaction with no missing inputs stays    *)
(* true, priority included, for as long as its inputs are unspent: with a    *)
(* longevity of TransactionLongevity::MAX the verdict counts between one     *)
(* validation and the next, and the priority at admission throughout.        *)
ValidityIsStable ==
    [][\A tx \in Transactions :
            Ready(tx) /\ Outpoints(tx) \subseteq DOMAIN utxoStore' =>
                Ready(tx)' /\ Priority(tx)' = Priority(tx)]_chainVars

(* The author a block pays is the one this very block named, never the       *)
(* author left over from an earlier block.                                   *)
AuthorIsCurrent == phase = "open" /\ author # NoKey => authorSetAt = number

(* "dispersed to validators on block finalization": between blocks no fees   *)
(* are left in the pot.                                                      *)
PotDispersed == phase = "idle" => rewardTotal = 0

(* The chain implements the life cycle of outpoints.                         *)
ImplementsLifecycle == Lifecycle!Spec

==============================================================================
